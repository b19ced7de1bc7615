# Verification of the mobiinfer inference engine

mobiinfer is a fork of MNN with an LLM engine on top. The repository holds more
than 8000 files; most are kernels, converters, vendored code, bindings and
apps. The logic of the program that is hard to get right by testing is in the
LLM engine (`transformers/llm/engine`) and in the parts of the CPU backend that
keep state between calls (`source/backend/cpu`, `source/core`). This project
specifies that logic in TLA+, checks it with TLC and proves part of it with
TLAPS.

## The system

### Components, their state and operations

| component | state | operations | what makes it correct |
|---|---|---|---|
| `KVMeta` (`source/core/KVMeta.hpp`) | `previous`, `remove`, `add`, reserved spans: the plan of the next forward | `computeReverseSize`, `sync` | after `sync` it counts the rows the layers hold |
| `CPUKVCacheManager` (one per attention layer) | key and value buffers, `mPastLength`, `mMaxLength` | `onClear`, `onAlloc`, `onRealloc`, `onUpdateKV` | rows in order, none written outside the buffer; key and value of a row found where they were put, after moves and growth |
| `CPUAttention::onExecute` | - | rebuild or extend the cache | the layer holds the rows the plan assumes |
| `Llm`, history | `all_seq_len`, status, `KVMeta` | `eraseHistory`, `reset`, `generate_init`, `forwardRaw` | the next position is the number of rows attended to; an erase forgets its range and nothing else |
| `Llm`, responses and strategies | `LlmContext`, outputs of the last forward | `response`, `generate`, `generate(n)`, `ArGeneration`, `LookaheadGeneration` | the text is the greedy text of the model, whatever the strategy; the rows are the conversation; calls end |
| `rollback_demo` | markers, prefix position | a turn, `/rollback`, an agent step | a rollback restores the history |
| `ThreadPool`, `CPURuntime` | slots, flags, active count, workers | begin, end, `enqueue`, `active`, `deactive`, `destroy` | every index once; no task used after its loop; nobody sleeps through work |
| prefix cache | two files and two `_sync` markers per layer, call counter, `layer_index` | `setPrefixCacheFile`, the first and second call of `generate`, PendingWrite, PendingRead, growth of a mapped file | a prefix is used whole or not at all, also after a kill |
| prompt cache | `mCachedPromptText`, history | delta path, trim, `syncPromptCache` | reused rows are those of the text |
| Eagle, token tree | two models with a history each, a tree of drafts, its mask | grow, finalize, verify, keep the accepted path | the text is greedy; the rows kept are the path's, at its positions |
| MTP, DFlash | two models, a chain of drafts | draft, verify, keep accepted rows | as for lookahead |
| linear attention (`CPULinearAttention`) | recurrent state, a prefix snapshot | `onResize`, `onExecute`, snapshot, restore, load, save | the state is that of the kept rows |
| `DeferBufferAllocator`, `EagerBufferAllocator` | chunk chain; nodes, free lists, groups | alloc, free, barriers, groups, compute, reset, release | what is needed at the same time never shares memory |
| `WorkerThread` | queue, thread | `postTask`, destructor | never constructed: `CPUBackend.cpp:630` tests a queue that nothing assigns |
| session, pipeline, express, geometry | graphs of tensors | resize, run | numerical; not modelled |
| omni, tokenizer, sampler, QNN and GPU backends, converter, training, bindings, apps | | | not modelled |

### How they interact

A caller (a demo, an app, a binding) calls `response`; `generate_init` starts
it, `generate` prefills the prompt in blocks and a strategy decodes. Every
forward goes through `forwardRaw`, whose module executes the attention layers
one after the other; each reads the shared `KVMeta` and changes its own cache.
Only when the outputs are valid does `sync()` turn the plan into history.
`eraseHistory` and the strategies (for rejected drafts) write the plan, which
takes effect in the next forward. Under the operators, each `CPURuntime` takes
a slot of the thread pool and hands parallel loops to its workers.

### What is hard

* Erases are lazy and replace each other; several pieces of code write the plan.
* One counter (`all_seq_len`) is kept by `Llm` and its strategies, another
  (`previous`) by `KVMeta`, a third (`mPastLength`) by every layer.
* A forward can fail between two layers.
* Responses stop, reach a limit, time out or fail at any point, and rejected
  drafts are still stored then.
* The process can be killed between any two files of a shared prefix, and while
  a mapped file is enlarged; the next process trusts what it finds.
* The rows of a tree of drafts that are kept are not neighbours, and are moved
  down over each other; the draft model drops its own by another count.
* An allocator hands out the same bytes many times; what may share them depends
  on lifetimes, barriers and groups that run in parallel.
* Packed buffers: four pieces of code compute the index of the same element.
* The pool's flags and count are used without the lock that guards sleeping.

`PROJECT.json` lists these one by one under `hazards`, each at its line.

## The modules

    Conversation            what the history promises: an abstract store
      ^ implemented by
    KVHistory               Llm's history operations, forwards over layers
      extends KVCacheManager    the cache of a layer, rows without layout
        extends KVMeta          the plan
    KVLayout                the packed buffers below KVCacheManager
    KVCacheProofs           theorems, KVHistory: how many rows the layers hold,
                            that they hold the same, and that it implements
                            Conversation; KVLayout: keys and values are where
                            they are read; RollbackDemo: rollbacks and agent
                            steps
    Generation              responses and strategies, over Conversation
      GenerationProofs      theorems: positions, counts, errors, the text, its
                            rows, its end
    RollbackDemo            the interactive callers, over Conversation
    PromptCache             chats that send the whole conversation every time,
                            over Conversation
      PromptCacheProofs     theorems: types, a reply has the rows of its request,
                            a conversation that goes on reuses its rows
    PrefixCache             the files of a shared prefix, attention and linear
                            layers, over kills and restarts
      PrefixCacheProofs     theorems: a prefix is used whole or not at all,
                            layers hold what the caller was told
    Eagle                   a response of the Eagle strategy, two models
      extends TokenTree         the tree of drafts
      EagleProofs           theorems: types, greedy text, rows of both models
    ThreadPool              the pool and its runtimes
      ThreadPoolProofs      theorems: loops, tasks, slots
    BufferAllocator         the requests of a resize, to both allocators
      instances DeferAllocator  one plan, one allocation at the end
      instances EagerAllocator  memory taken at once, free lists, groups
      BufferAllocatorProofs theorems, EagerAllocator: memory lent at once is
                            lent to one, and comes back whole
      DeferAllocatorProofs  theorems, DeferAllocator: a plan works out and keeps
                            apart what must not meet

`MCx` modules give the constants of module `x` small values.

* **Conversation** has two sequences: what is `stored` and what the next
  forward will have `kept` of it. `Erase` plans, `Forward` carries out and
  appends, `Clear` plans to drop everything, `Lose` is a forward that broke.
  It is a specification, not a translation: it has no counterpart in the code.
* **KVMeta**, **KVCacheManager**: operators on a plan and on a cache. A row is
  the token it was computed from (key and value together, all heads alike).
* **KVHistory**: `EraseHistory`, `Reset`, `GenerateInit` are the methods of
  `Llm`. A forward is `BeginForward` (forwardRaw up to `onForward`), a
  `LayerStep` for each layer, and `EndForward` or `FailForward`. `EndForward`
  includes what the caller does next without a choice: counting positions,
  and `remove = rejected` for a verification.
* **KVLayout**: the two buffers of one head as functions from indices to
  elements; every index formula of the code is an operator of its own.
* **Generation**: `pc` says where the call is. `PrefillPiece` is one
  `forwardRaw` of a prompt; `SampleToken`, `ForwardToken` are the halves of a
  round of `ArGeneration`; `Draft`, `ForwardDrafts`, `Verify` those of
  `LookaheadGeneration`. The network is the operator `Predict` on the kept
  rows; the n-gram cache may guess anything.
* **RollbackDemo**: `chat_agent` and `chat_rollback`, with decoding reduced to
  what it does to the history.
* **PromptCache**: `response(ChatMessages)` with its three paths as the disjuncts
  `Delta`, `Trim` and `Full` of `Respond`; `Prefill`, `Decode`, `Reject`, `StopToken`,
  `EndDecode` and the failures are the response they start; `Return` and `Cancel` are
  what its callers do next: the chat of `llm_demo`, and the two ways the Android
  session responds (messages kept by the session, or by its client). A text is a
  sequence of pieces with one token each. `call.path` says which path is being
  taken, `reply` is what `updateCachedPromptText` finds in `history_tokens`, and
  `said` is the conversation as the caller has it.
* **PrefixCache**: a layer's state is the rows of a `CPUKVCacheManager` or the
  state and snapshot of a `CPULinearAttention`, chosen by `model`. `pc` walks
  through a call: cleaning up (one file a step), the layers of a forward, the
  growth of a mapped file (truncated, then copied back), the markers at the end. `Restart`
  is a kill (or a normal exit) in any of these states, but for one that is a
  situation of its own (`grow_crash`): `disk` survives, all else is new. `EndForward(TRUE)`
  is a prefill that ends behind the deadline, `FailForward` a failure anywhere in a forward;
  after both `response(ids)` may be called again (`Recovers`). `told` is what the
  caller believes the history to be. A row is its token, whatever layer it is of: a file
  of another layer is noticed by its kind and its rows only.
* **TokenTree**: `init`, `grow`, `finalize` as operators; the answer of the draft
  model is an input. Sorts by score leave equal scores in either order.
* **Eagle**: `Respond` is `response` with the prefill of the base model; a round is
  `DraftRoot` and a `GrowDraft` for each further level (the draft model),
  `Finalize`, `DecodeTree` (the verifying forward) and `Verify`, the acceptance
  with the spans it leaves in the plan. A row of the base model is the tokens its
  mask let it see and its position, so a wrong mask, position or span is a
  wrong row.
* **DeferAllocator**, **EagerAllocator**: operators on the state of an allocator,
  with the names of the methods. **BufferAllocator** drives both with the same
  requests: tensors taken and given back, barriers and groups as the pipeline
  uses them, `compute`, and the next resize, which reuses the memory.
* **ThreadPool**: a runtime's `pc` walks through `onConcurrencyBegin`,
  `_bindCPUCore`, `enqueue`, `onConcurrencyEnd`; a worker's through its loop.
  Sections under `mQueueMutex` are one step. Memory is sequentially
  consistent, as the atomics of the code are; the plain `mTasks[i].first` is
  published by them.

### What callers may do

The code accepts more than it handles. What a run admits is a constant, so that
both sides can be checked: the empty set (or, for `Allowed`, `interior`) is what
the passing runs use. Two members have a violation run; for the others the consequence shows when
the member is added to the constant in the cfg (for `override`, with PROPERTY EraseOverrides). MCKVHistory
has the sets to take for `Allowed`.

| constant | member | what happens with it |
|---|---|---|
| `KVHistory.Allowed` | `interior` | handled (without flash attention, see KVFlashMove) |
| | `prefix` | AttentionAssert fails: a tail kept from position 0 is lost in every layer, and `sync()` counts it (`CPUAttention.cpp:393`) |
| | `override` | EraseOverrides fails: an erase to the end, `reset` or `generate_init` inherits a pending tail, though `llm.cpp:1025` says the plan is overridden (`:1029` sets the span only when a tail is kept) |
| | `retry` | AttentionAssert fails: going on after a forward that failed between layers, which `generate_init` allows |
| `KVLayout.KeepsTailIn` | with flash attention | run KVFlashMove |
| `Generation.Situations` | `empty_reply` | StopIsLast fails: lookahead goes on after a first token that stops |
| | `padded` | lookahead on static block sizes reads padding rows |
| `PromptCache.Situations` | `other_call` | AnswersRequest fails: `response(ids)` adds rows, or drops them, and the cached text stays |
| | `toggle` | AnswersRequest and ExtensionReuses fail: a cache switched on or off during a response is updated by some of the steps only |
| | `raw_think` | ExtensionReuses fails: a caller that sends thinking back, to a template that keeps it, starts over in every turn, as the cached text is stripped of it (`llm_demo`) |
| `PrefixCache.Situations` | `cut_short` | run PrefixCutShort: a part of a prefix is marked and taken for the whole |
| | `grow_crash` | PrefixIntact fails: the last layer's file is enlarged and its rows are not back when the process is killed |
| | `drifted` | PrefixIntact fails in a model with linear layers: `layer_index` is not 0 when the prefix is set, and layers write the files of others (`CPUKVCacheManager.cpp:433`) |
| | `failed_load` | RowsMatch fails: only the second call counts the loaded rows and ends the mode (`llm.cpp:1269`), the one after a failed load does not |
| | `same_shape` | RowsMatch fails: the prompt after an erase has the shape of the last one, `onResize` is skipped, and `onExecute` does not repeat the restore (`CPULinearAttention.cpp:371`) |
| | `one_token` | RowsMatch fails: a single token leaves the state of the erased ones; PrefixIntact fails too when a prefix of one token is stored after that |
| | `erase_inside` | RowsMatch fails: the one snapshot is restored, or not, for another position than its own; PrefixIntact fails too: later rows are written over those of a mapped prefix |
| `Eagle.Situations` | `after_timeout` | RowsFollowText fails: spans of a round that timed out are carried out by the next response |
| | `reuse` | RowsFollowText and PrintedIsGreedy fail: rows of the last tree stay in the history after a stop or at the limit |
| | `chunked` | RowsFollowText and DraftFollowsText fail: a prompt longer than a block reaches the draft model in part |
| | `certain` | PrintedIsGreedy fails: with a score of 0 a node and its parent have equal scores, and the sort of `finalize` may choose the node without its parent (`tokentree.hpp:135`) |

`KVHistory.Supported` is what the theorems assume: at most interior erases, and no
kept tail in a quantised cache (`CPUKVCacheManager.cpp:546`).

## The runs

| run | shows | bounds |
|---|---|---|
| KVHistory | layers agree, the assertion holds, positions and bounds are right, and `Conversation` is implemented | 2 layers, 2 tokens (symmetric), 4 rows, 2 tokens a forward, padding 1, slack 1 |
| KVLayout | the index formulas agree: keys and values are where they are read | 5 rows, head of 3 in groups of 2, blocks of 2 rows, buffer slack 1 |
| KVFlashMove | *violation*: moved values with flash attention | same |
| Generation | greedy text, rows, positions, counts, stop, sticky errors, termination | 3 tokens (one stops), 5 prompts of 1, 3 and 4 tokens in blocks of 3, 2 drafts, 2 new tokens a call, 8 rows |
| RollbackDemo | a rollback never takes a row of an earlier turn, and is exact where the marker was; agent steps start at the prefix | 2 tokens, 6 rows, 3 turns |
| RollbackAgain | *violation*: a turn typed while an erase is pending is not rolled back whole | same |
| PromptCache | a reply is computed from the rows of its request; a continued conversation reuses its rows | 2 messages of a user, 1 word and a thinking block, conversations continued up to 4 messages and 2 others, 2 new tokens, 1 rejected draft, 10 rows, both kinds of templates |
| PrefixCache | a prefix is used whole or not at all; every layer holds the caller's history | 2 layers, attention only or hybrid; prefixes of 2 and 3 tokens in blocks of 2, 2 messages, conversations of 4 tokens, slack 1 |
| PrefixCutShort | *violation*: a first prompt that times out or fails between chunks is marked all the same | same |
| Eagle | greedy text, rows and draft rows follow it | 3 tokens, trees of 2 drafts a node, 3 levels, 4 nodes verified, 2 answers, 3 prompts, 5 new tokens, texts of 11 |
| ThreadPool | each index once, no task after return, exclusive slots, loops return, workers sleep, destroy ends | 2 runtimes, 2 workers, 1 slot, loops of 4 (and of 3, to bind threads), nesting 2 |
| BufferAllocator | what is needed together is apart, in both allocators; plans can be computed; freed memory is merged | alignment 2, sizes 1 and 3, 4 requests, barriers of 2 groups, smallest block 0 or 6 |

Why the bounds are enough. Two layers have a "between"; four rows hold a kept
prefix, a removed range, a kept tail and a new row, with a growth of the buffer
and a rebuild on the way; two tokens tell a wrong row from the right one. The
layout's head of three in groups of two has a padded last group, and five rows
cross groups and blocks and force two growths. Calls for up to two tokens
with two drafts accept none, some and all drafts, end exactly at, below and
above their limit, and start from prompts shorter than, equal to and longer than a
block. Loops of three and four on three threads take both branches of
`enqueueInternal`; one slot for two runtimes makes one run alone, or get the slot in a
nested section. Two slots used at once are left to the theorems, which hold for any number. Two layers
with two files each give eight markers and files between which a process is
killed, a conversation of four tokens outgrows the first buffer while it is
mapped, and a prefix of three tokens is computed in two pieces. Trees of three levels
with four verified nodes leave nodes out; accepted paths of three spans with gaps
occur. Conversations of four messages have a first turn, a continued one and one
continued after that was cancelled, edited or failed, and two tokens a reply hold a
thinking block and a word, a word and a stop, or an end at the limit. Four requests split a block, fuse its parts and split it again, in
two groups of a barrier with a list each.

Deadlock is checked for KVHistory, KVLayout, Generation, PromptCache and PrefixCache, and
the violation runs of their modules. RollbackDemo ends by `/exit`, a pool by `destroy()`, the
requests to the allocators and the text of Eagle end at a bound of the model:
there the check is off.

### Fairness

* Generation: weak fairness of the engine as a whole. A call runs on its
  caller's thread until it returns; nothing obliges anyone to call.
* ThreadPool: weak fairness of what each runtime has to do next, of each
  worker, and of `destroy()` once begun: the scheduler runs every thread.
  Beginning a section, running a loop or destroying the pool is a choice and
  has no fairness, and neither have spurious wake-ups.

## What is proved

Six listed properties of KVHistory are proved for every number of layers, every
set of tokens, every buffer slack, padding and length bound, with or without
quantisation (KVCacheProofs):

* `TypeCorrect`: `Supported => (Spec => []TypeOK)`;
* `AssertionHolds`: the assertion of `CPUAttention::onExecute` never fails;
* `PositionsCorrect`: the next position is the number of rows attended to;
* `BoundsCorrect`: no row outside a buffer is used, also after failures;
* `LayersCorrect`: between forwards all layers hold the same rows;
* `Refinement`: KVHistory implements Conversation (`ImplementsConversation`).

Of the other components are proved:

| module | theorem | for every | under |
|---|---|---|---|
| ThreadPoolProofs | `TypeCorrect`, `EachIndexOnceCorrect`, `NoTaskAfterReturnCorrect`, `SlotsExclusiveCorrect` | set of runtimes, number of threads and slots, size of loops, nesting | nothing else |
| GenerationProofs | `TypeCorrect`, `PositionsCorrect`, `CountsCorrect`, `ErrorSticksCorrect` | tokens, prompts, block size, number of drafts, bounds, situation | `PredictsTokens` |
| | `OutputCorrect` | same | and no `padded` |
| | `RowsCorrect`, `StopCorrect` | same | and `Situations = {}` |
| PrefixCacheProofs | `PrefixIntactCorrect` | models of any number of layers of either kind, prefixes, messages, block size, slack, length | `Survivable`: no situation but `same_shape`, so no kill while the last file is enlarged, no prompt cut short when all files exist, no drifted index |
| | `RowsMatchCorrect` | same | `Situations = {}` |
| KVCacheProofs | `KeysCorrect` | packing, size of a head, flash block, slack, length, with and without flash attention, whatever tails are kept | nothing else |
| | `ValuesCorrect` | same | `KeepsTailIn \subseteq {FALSE}`: no tail kept with flash attention |
| | `StepsStartAtPrefixCorrect` | tokens, prompts, length of the history | nothing else |
| | `RollbackRestoresCorrect` | same | nothing else |
| EagleProofs | `EagleTypes` | vocabulary, prompts, network, answers of the draft model, width and depth of the trees, nodes verified, block size, bounds | `PredictsTokens`, no `certain` |
| | `EaglePrintedIsGreedy` | same | and no `reuse` |
| | `EagleRowsFollowText`, `EagleDraftFollowsText` | same | and `Situations = {}` |
| PromptCacheProofs | `PromptTypes` | pieces, requests, kinds of templates, bounds, situation | nothing else |
| | `PromptAnswersRequest` | same | no `other_call`, no `toggle` |
| | `PromptReusesRows` | same | no `toggle`, no `raw_think`, and `PlainTalk` |
| BufferAllocatorProofs | `EagerInvariant`, `EagerNeverTwice`, `EagerReclaimsAll` | alignment, smallest block, sizes, number of tensors, requests and groups | nothing else |
| DeferAllocatorProofs | `DeferInvariant`, `DeferAlwaysComputes`, `DeferKeepsApart` | same | nothing else |

The assumptions on constants are named in the modules, and TLC evaluates them in the
runs: `CacheAssumption`, `HistoryAssumption`, `ThreadPoolAssumption`,
`GenerationAssumption`, `RollbackAssumption`, `PrefixCacheAssumption`, `LayoutAssumption`,
`EagleAssumption`, `PromptAssumption`, `BufferAllocatorAssumption`. They say that constants have
the type their comment gives them, that a smallest block is aligned, that stand-ins for "nothing" (`NoWork`, `None`) are not
values, that prompts are not empty, that a block has room for a token and its drafts
(`forwardVec` asserts it when it decodes, `llm.cpp:767`), and that a flash block is a whole number of groups (it is 64 rows
in the code, a packing 1 to 8) in a cache without quantisation; that scores, being log
probabilities, are not above 0; and that the token that stops is no word of a reply. `PredictsTokens` says that the network and the sampler
return a token for any rows. The other conditions name what callers do (see the
table above); each is needed, as TLC finds the property violated when the
situation is added and the constants let it matter (a prefix of one token, for
`one_token`).

None of these properties is inductive. What the proofs add to them:

**KVHistory.** The invariant behind the first four, `TypeOK` and
`CountersAgree` (theorem `InvCorrect`), says in addition what a plan can look
like (`PlanOK`: a kept tail is not empty, ends where the history ends and
leaves row 0 in place), that the forward in progress adds what the plan says
(`ForwardOK`), and where each layer is (`LayerLengths`: layers that have run
hold the outcome of the plan, the others still the old history, unless an
earlier forward was torn, in which case the one in progress rebuilds). The
proof has one lemma per action over lemmas on the cache operators: that they
keep the type, and that `AttentionUpdate` of a layer of the planned length
yields the planned length within the buffer.

What the rows contain needs more than how many there are. `LayersAgree` says
nothing while a forward is between two layers; `Lockstep` (theorem
`LockstepCorrect`) does: the layers still to run are equal, those that have run are
equal, and the second are what `AttentionUpdate` makes of the first. A torn forward
leaves two groups, which the next plan, having to keep nothing, makes
equal again (lemma `RebuildForgets`).

The refinement maps a forward to one step of Conversation, that of the last layer:
the layers before it stutter, `EndForward` stutters or, with rejected drafts,
erases, and a forward that tears the layers apart is `Lose`. Its lemmas follow the rows: what
`onRealloc` leaves of a cache are the rows that survive the plan, in
order (`ReallocKeepsSurvivors`), and a forward appends its tokens to them
(`AttentionAppends`). `RowsFit`, a second invariant, says that what the plan
keeps and adds fits the largest length. `Supported` is necessary: an erase that inherits a pending tail
is no `Erase` of Conversation (lemma `EraseHistorySteps`), and the members `prefix` and `retry` break
the assertion.

**ThreadPool.** That an index runs once rests on who owns what between the
publication of a task and the end of its loop. `TaskInstalled`: the slot of a runtime in a loop holds
its task. `FlagsOwned`: a flag that is set belongs to such a loop. `WorkersBusy`: a
worker runs the task of a slot whose flag it has not cleared. `SharesCounted`
relates the flags to the indices: those of a thread's share have run exactly
when the thread has finished. `SlotsHeld` allows what the code allows: a
runtime that has given its slot back still knows it until it is
deactivated, and another may take the slot meanwhile. The active count is
the number of runtimes that hold a slot or bind their threads (`UsersCounted`).

**Generation.** The bookkeeping (`Inv`) holds in every situation: `PiecesAddUp`
says what a prompt cut in blocks has counted so far, `Ready` that there is an
output to go on from, and `Positions` and `Counts` include the
drafts being verified. The text (`TInv`) needs what is between two tokens: the rows are the
prompt and the output (`Whole`) or all of it but the last token (`Short`), and
what the loop goes on with is what the model would predict there (`Greedy`).

**RollbackDemo.** `RowsNested`: what is kept is a prefix of what is stored, and every saved
history is a prefix of what is kept. `MarkersMatch`: a marker is never below the length of what was
saved with it, and is that length if no erase was pending (`settled`); saved lengths ascend. So an
erase from the last marker cannot reach a row of an earlier turn (`KeptStays`), and when the
marker is a length that is kept nothing else is left. Nothing is asked of the caller: the turns
for which the demo is wrong are in the model, and what is proved there is what remains true.

**PrefixCache.** `Written` says how far a prefix has been written: layers that
have run hold the pieces told and the one in progress, the others the pieces told or nothing,
no marker is left of an earlier attempt, and the files are numbered as the layers are. A prompt that fails or
runs out of time on the way is followed by markers, too: then some layer has no files yet, or all rows are there.
`Mapped` is what keeps later conversation out of the prefix: a cache that is a mapped
file is never asked to keep less than the prefix, unless everything is erased. `Cleaned` is the removal
of what could not be used, file by file, and `Intact` the conclusion: files that are
all present and marked, or about to be marked, hold the prefix, or their
sizes differ, which is how the next process tells that one was being enlarged
(`Broken`). A file that is being enlarged counts by the copy in memory, as
`Restart` in that state is possible only where the sizes give it away. After a failed call the
layers hold rows the plan does not count; that goes on until a prompt starts afresh, so `Mapped` is silent then
(and below `Sound` is said first), and the next call comes after everything was erased (`Recovers`).

`RowsMatch` says something between calls only. Its invariant (`RInv`) adds what each layer
holds during a forward: the caller's history, with the piece in progress if the
layer has run (`Heard`), but for a prefix that is skipped, which is known to a layer
only when it has loaded it (`Loaded`, `RowsHeld`, `StatesHeld`). `Loading` has the argument
for the files: a layer finds its own, as the index it reads counts the layers before it,
and by `PrefixIntact` it is the prefix. `Erased` and `Beginning` have the one
for linear attention, which cannot give up tokens: an erase goes back to the start or to the
end of the prefix, whose state every layer has kept since it wrote or loaded it, and the
prompt after it is one that makes the layer take it. Each member of `Situations` falsifies
`RowsMatch`, so the theorem excludes no more than it must. Of those `Survivable` excludes all but `failed_load`
falsify `PrefixIntact`, `one_token` with a prefix of one token.

**KVLayout.** An index is a number in mixed radix: group, block, place in the block
are digits (`FiveDigits`), and a number has its digits only in one way
(`FiveDigitsApart`), so no two elements share an index (`KeyApart`, `ValueApart`) and every
element of a row below the maximum is inside the buffer (`KeyPlace`, `ValuePlace`). With that, the
stores, the growth and the moves are each shown to keep `KeysHold` or `ValuesHold`: a
buffer has its size for the maximum, and the rows below the past length where they are read.
That the elements of a moved span come from the buffer as it was is in the model (`Move`),
as the loops of `moveKV` ascend and only move down. The keys need no hypothesis: a key's index does not depend
on the maximum. A value's index does, with flash attention through the block it is in, which `moveKV`
does not know; the run KVFlashMove shows what `ValuesCorrect` excludes.

**Eagle.** `Fits` is the bookkeeping: types, the counts of both models' rows against the plan and
the text, and the shape of the tree (`Grown`: a parent was created before its child, one level
above, with a greater score) and of what is verified (`GoodDraft`). As scores fall along a branch,
the best nodes are closed under parents: a node that is chosen has its whole branch among the chosen
(lemmas on `BestNodes`), so its mask is its branch and each path of `retrieveIndices` is one. A score of 0 breaks
this, which is the member `certain`.
`Heard` says that the text told so far is greedy, and what the rows to be verified were computed from: a
token that is accepted follows its branch, so it is the one the model would have produced. `Placed` adds
where rows are: those the plan keeps are the text without its last token. That the spans of an accepted
path, moved down over each other one by one, arrive there rests on their places ascending
(`Moved` reads no place it has written). `Drafted` and `Attending` say
the same of the draft model: which of its rows the next round removes, and that the mask of an active node marks
the columns of its ancestors. Each part is preserved with the ones before it only. The types need
no situation excluded but `certain`; the text also `reuse`; the rows all four, as each falsifies
one of the two properties. TLC checks the parts as invariants: all with
`Situations = {}`, `Fits` and `Heard` with `chunked` and `after_timeout` added, `Fits` with `reuse`.

**PromptCache.** `Types` and `Counts` hold in every situation: `Counts` has the position against
the rows kept, which a refused or broken call leaves apart only where the next one starts from nothing. `Continues` is what makes
the delta path right: between calls the rows, without the markers of the template and
without thinking, are those of the cached text (`Settled`); and during a call those of
its request with the pieces of the reply so far (`Paths`, `Started`, `Running`), on each of the three paths. The
proof compares texts only through `Without`, which distributes over concatenation, so that the
text of a prefix of the request followed by its suffix is the text of the request. Thinking
sent back by the caller (`raw_think`) is not excluded: it costs the reuse of rows, not their content. TLC checks the invariant with no situation and with `raw_think`, and `Counts` with all.
That rows are reused (`ExtensionReuses`) is a matter of the texts themselves, not of what they say: the cached text has no thinking, so it begins
the text of the next request only if the template drops what thinking is in that, too. `Bare` is the text of a conversation without
thinking; `Proper` says that what thinking a conversation has will be dropped, when it is answered. Requests are `Proper`, so their text is
their `Bare` (`ProperRequest`), what is cached of them is as well (`CacheableBare`), and the `Bare` of what a caller has
begins with what is cached (`Carried`). `PlainTalk` is what callers must do for that: a user who types a thinking block, or begins with an empty message, makes the next
turn start over. TLC checks this invariant with `other_call` added, which it allows.

**EagerAllocator.** A node is *current* when it is free, lent, kept by a group or cut in two; older
halves stay in the sequence `node` and mean nothing any more. `Forest` says that the current nodes are binary trees
below blocks: a node that is cut has exactly two current halves that share its memory out between them, its use count
is the number of those that are not free, and nodes that are not cut lie apart, unless one is empty.
Each operation is shown to keep that in steps of one kind: a free node is lent (`Lend`), cut (`CutInTwo`), a block is
added (`AddBlock`) or dropped (`Drop`), a node comes back (`Back`), two halves become whole (`Whole`). A merge is
any number of `Whole` up a branch (`Merges`, `Returns`), and the end of a barrier any number of returns
(`ReturnAllFollows`, `BarrierEndFollows`). `Shares` adds who has which node: what is used and what the groups' lists hold
are the busy nodes, and no two lists share one. `Planned` ties the tensors to that: a used node belongs to one live tensor,
and a tensor of a group that is open still has its node or the group has it, so that no other group, whose thread
may run at the same time, can be lent it. Nothing lent and no group then means that no node is busy, so none is cut
(`NothingCut`, by the last one that would be), and the free list is all of the blocks. `Total` is their size, by recursion over `node`,
so it can be compared with the sums `mTotalSize` and the property take over lists (`SumOfList`).

**DeferAllocator.** Where a chunk lies is known only when `compute()` has walked the one chunk that is left; until
then chunks are fused, split and enlarged, and a tensor whose chunk was fused has no place in the chain any more. So the
invariant speaks of the addresses that are still possible. `Lay` says what those are: chunks of the chain lie one
behind the other, a fused one lies at its offset in the chunk it went into. `Laid` says that there are such addresses at
which the tensors that must not meet are apart, each in front of the other also in the chain. Every operation keeps
that (`Preserves`), because it moves chunks only so that what was in front of something, or inside
of the whole, still is (`Eases`): two chunks become one, a chunk is added at the end, a free one is cut, or is enlarged, which moves
all that lies behind it by as much. A request gets a chunk that nothing needed is in,
so the new pairs are in order by their places in the chain. `Links` is what makes the plan work out: neighbours in the chain are
never both free, so when nothing is in use there is at most one chunk. `Listed` says that the free list has just the chunks that
are not in use, and `Held` that each of the others belongs to one live tensor or waits in the deferred list for the end of the barrier, whose
chunks come back one by one (`RemainsLast`). In the end the walk of `compute()` finds the only addresses that `Lay` allows (`PlacedAt`),
so those are apart. TLC checks the invariant on the states of the run, with the addresses found by a search from the last
chunk back.

The lemmas about `Ascending`, `Masks`, `Paths`, `Moved`, `Text` and `Without` are by induction. The
induction theorems of the library take the property as an operator, which the
provers cannot instantiate; here a property is a set of numbers that holds 0 and,
with a number, the next one (`Induction`, from the least number outside the set, which
`WFMin` gives), and a recursive function is unfolded by a lemma (`Recursion`) of the same kind.

What stays with TLC:

* liveness (`CallsReturn`, `LoopsReturn`, `QuietWhenUnused`, `DestroyEnds`): out of the
  prover's reach, as is ENABLED;
* `TypeOK` of PrefixCache: the proofs use types of their own (`Types`), and for this one no proof has been written.

## What the violations mean

Each is a disagreement of the code with an assertion or a comment of
its own; `PROJECT.json` quotes the lines under `findings`. KVFlashMove
corrupts what later tokens attend to without an error; KVHistory and Eagle take `moveKV` as correct, so it lies
below what they show. RollbackAgain: after a /rollback, or a last round with rejected drafts, the demo counts rows that
are still to be erased, and the /rollback of the next turn leaves the beginning of that turn in the
history, though it prints that the previous state is back; what remains true is RollbackRestores. PrefixCutShort: a
first prompt in chunks that reaches its deadline after one of them leaves files that are marked, present and of one size, but hold
a part of the prefix. Every later process skips the prompt and attends to rows that nobody wrote.

Modelling met more that no run of its own shows, and that a reader of the code
should know:

* After a stop or at a limit Eagle leaves the rows of its last tree in the history,
  so it cannot be combined with `reuse_kv`. Its first token is not tested for
  a stop, tokens behind a stop inside an accepted path are still added to
  `output_tokens`, and `eagle.cpp:386` appends the number of steps to the same list.
* `finalize` of a token tree looks the nodes of a path up in a map that it fills with the chosen nodes only
  (`tokentree.hpp:206`). Nothing but the scores ensures that a chosen node's parent is chosen; when a log probability
  is rounded to 0 the sort may separate the two, the missing parent is read as index 0, and the path accepted has a
  token of another branch (`Eagle.Situations`, member `certain`).
* MTP removes `drafts.size() - i_dft` rows of its draft model (`mtp.cpp:218`), a
  count of its own.
* A prefix file is named without the model it belongs to; two processes may
  write the same name; the snapshot of a linear layer outlives `reset()`.
* `EagerBufferAllocator` asserts that a new block is larger than the request
  (`BufferAllocator.cpp:243`), which fails in a debug build when the rounded size
  is exactly the smallest block.
* Erasing from position 0 with a tail kept clears every cache, but `sync()` counts the
  tail; the assertion at `CPUAttention.cpp:397` sees it in the next forward,
  and a release build does not (`KVHistory.Allowed`, member `prefix`).
* A kill while the last layer's prefix file is enlarged leaves files of one size with their markers, and rows
  of zeros in one of them (`PrefixCache.Situations`, member `grow_crash`); the comment at `llm.cpp:1567-1570` has
  this guarded.
* A linear layer keeps erased tokens in its state when the next prompt repeats the shape of the last
  (`same_shape`), while the attention layers drop them.
* Lookahead goes on behind a reply whose first token stops (`Generation.Situations`, member `empty_reply`).
* With the prompt cache, the token that ends a reply is never forwarded, and the header of
  a cancelled reply stays in the history. So AnswersRequest compares rows and request
  without the markers of the template and without thinking; marker for marker it does not
  hold.
* After an error every `response(ChatMessages)` is refused, also after `reset()`; only
  `response(ids)` sets the status back. A refused request of the app still becomes the
  cached text.
* An unreadable output is returned by `forwardRaw` all the same, and the loops
  count it.

## Not modelled, and why

* **Prompt cache**: where the end of the cached text falls inside a token (the code then
  sends the whole token again); texts are sequences of whole pieces.
* **MTP, DFlash**: one chain of drafts from a second model. Generation covers the
  base model for any drafts, Eagle the pattern of two histories; their own counts of
  draft rows are left.
* **Android chat session**: its threads, multimodal prompts, R1 formats, audio and
  benchmarks. PromptCache has what its responses do to the engine.
* **n-gram cache**: proposes drafts only; the text does not depend on them.
  `history_tokens` is left out for the same reason.
* **WorkerThread**: no code constructs one.
* **Mapped weights** (the allocator with a file, `BufferAllocator.cpp:67-165`): a cache
  of files without concurrency.
* **Prefix cache**: an embedding that fails returns without `completePrefixWrite` and leaves `file_flag` as it is
  (`llm.cpp:1110`, `:1128`); files of attention layers with the same rows are not told apart, so a prefix stored under other
  numbers shows only where the kinds of layers differ.
* **Quantised caches**: their layout, and keeping a tail in one, which the code
  says is unsupported and does not refuse.
* The arithmetic of kernels, graphs and shapes, device backends, text conversion,
  logging and statistics. The status `USER_CANCEL` is tested in several places but
  set by no code of the repository.

Worth doing next, in this order: the draft rows of MTP; a stepwise caller over Generation with
its loop.
