----------------------------- MODULE KVHistory -----------------------------
(***************************************************************************)
(* The history of an Llm and the caches of its attention layers.           *)
(*                                                                         *)
(* Llm keeps the position counter all_seq_len and a KVMeta; each layer     *)
(* keeps its own rows.  The operations on the history (eraseHistory,       *)
(* reset, generate_init) only write the KVMeta; a forward hands it to the  *)
(* layers one after the other and then calls sync().  A forward may stop   *)
(* between two layers, and then no sync() happens.                         *)
(*                                                                         *)
(* The engine has one thread; what interleaves is the lazy plan in the     *)
(* KVMeta, the layers that have and have not carried it out, and a failure *)
(* in between.                                                             *)
(***************************************************************************)
EXTENDS KVCacheManager

CONSTANTS
  NumLayers,   \* attention layers of the model
  MaxAdd,      \* bound of the model: tokens of one forward
  MaxPad,      \* bound of the model: padding of a forward to a block size
  Allowed      \* what callers do beyond erasing suffixes, see Liberties

(* Caller behaviour a run can admit:                                       *)
(*   interior  erase a range that has tokens before and after it (without  *)
(*             flash attention, see KVLayout)                              *)
(*   prefix    erase from position 0 and keep a tail                       *)
(*   override  replace an unexecuted erase that keeps a tail by a removal  *)
(*             up to the end (eraseHistory, reset, generate_init)          *)
(*   retry     forward after a failed forward without clearing first       *)
Liberties == {"interior", "prefix", "override", "retry"}

ASSUME HistoryAssumption ==
  /\ NumLayers \in Nat \ {0}
  /\ MaxAdd \in Nat \ {0}
  /\ MaxPad \in Nat
  /\ Allowed \subseteq Liberties

Layers == 1 .. NumLayers

VARIABLES
  meta,      \* Llm::mMeta
  layer,     \* the cache of every layer, mKVCacheManager
  allSeqLen, \* LlmContext::all_seq_len, the position of the next token
  status,    \* LlmContext::status: RUNNING, or INTERNAL_ERROR after a failure
  fwd,       \* the forward in progress: its tokens, padded length, layers done
  torn       \* history variable: layers ran in a forward that was never synced

vars == << meta, layer, allSeqLen, status, fwd, torn >>

NoForward == [ toks |-> << >>, seqLen |-> 0, done |-> 0 ]

Forwarding == fwd # NoForward

Init ==
  /\ meta = EmptyMeta
  /\ layer = [ l \in Layers |-> EmptyCache ]
  /\ allSeqLen = 0
  /\ status = "RUNNING"
  /\ fwd = NoForward
  /\ torn = FALSE

-----------------------------------------------------------------------------
(* Callers.                                                                *)

(* An erase that keeps a tail is waiting for the next forward.             *)
KeepPending == meta.nReserve # 0

MayOverride == KeepPending => "override" \in Allowed

(* The caller has dropped everything, after a failure nothing less helps.  *)
Cleared == meta.remove = meta.previous /\ ~KeepPending /\ allSeqLen = 0

MayForward == torn => Cleared \/ "retry" \in Allowed

(* Which ranges callers erase.                                             *)
MayErase(begin, end) ==
  \/ end = meta.previous /\ MayOverride
  \/ end # meta.previous /\ begin > 0 /\ "interior" \in Allowed
  \/ end # meta.previous /\ begin = 0 /\ "prefix" \in Allowed

-----------------------------------------------------------------------------
(* Operations on the history.                                              *)

(* Mutant of EraseHistory: the kept tail is not counted in all_seq_len.    *)
EraseHistoryForgetsTail(begin, last) ==
  LET end == IF last = 0 THEN meta.previous ELSE last
      erased == EraseRange(meta, begin, end)
  IN /\ ~Forwarding
     /\ end <= meta.previous
     /\ begin < end
     /\ MayErase(begin, end)
     /\ meta' = erased
     /\ allSeqLen' = meta.previous - erased.remove
     /\ UNCHANGED << layer, status, fwd, torn >>

(* eraseHistory(begin, last): last = 0 stands for the end of the history.  *)
(* An invalid range is refused and changes nothing.                        *)
EraseHistory(begin, last) ==
  LET end == IF last = 0 THEN meta.previous ELSE last
      erased == EraseRange(meta, begin, end)
      revertNumber == IF end # meta.previous THEN erased.size ELSE 0
  IN /\ ~Forwarding
     /\ end <= meta.previous
     /\ begin < end
     /\ MayErase(begin, end)
     /\ meta' = erased
     /\ allSeqLen' = meta.previous - erased.remove + revertNumber
     /\ UNCHANGED << layer, status, fwd, torn >>

(* reset()                                                                 *)
Reset ==
  /\ ~Forwarding
  /\ MayOverride
  /\ meta' = RemoveAll(meta)
  /\ allSeqLen' = 0
  /\ UNCHANGED << layer, status, fwd, torn >>

(* generate_init(), which every response(ids) starts with: the engine runs *)
(* again after an error; without reuse_kv (a setting that may change       *)
(* between two responses) the history is dropped.                          *)
GenerateInit(reuseKV) ==
  /\ ~Forwarding
  /\ status' = "RUNNING"
  /\ \/ /\ reuseKV
        /\ UNCHANGED << meta, allSeqLen >>
     \/ /\ ~reuseKV
        /\ MayOverride
        /\ meta' = RemoveAll(meta)
        /\ allSeqLen' = 0
  /\ UNCHANGED << layer, fwd, torn >>

-----------------------------------------------------------------------------
(* A forward: forwardVec hands toks to forwardRaw, whose module runs the   *)
(* attention layers in order.                                              *)

(* forwardVec sets meta.add; forwardRaw refuses in an error state.  A      *)
(* sequence padded to a block size is longer than the tokens it adds.      *)
BeginForward(toks, pad) ==
  /\ ~Forwarding
  /\ status = "RUNNING"
  /\ MayForward
  /\ Effective(meta) + Len(toks) <= MaxLen
  /\ meta' = [ meta EXCEPT !.add = Len(toks) ]
  /\ fwd' = [ toks |-> toks, seqLen |-> Len(toks) + pad, done |-> 0 ]
  /\ UNCHANGED << layer, allSeqLen, status, torn >>

(* Mutant: the first layer consumes the kept span of the plan.             *)
LayerStepConsumesPlan ==
  LET l == fwd.done + 1
  IN /\ Forwarding
     /\ l \in Layers
     /\ layer' = [ layer EXCEPT
                     ![l] = AttentionUpdate(layer[l], meta, fwd.toks, fwd.seqLen) ]
     /\ fwd' = [ fwd EXCEPT !.done = l ]
     /\ meta' = [ meta EXCEPT !.nReserve = 0 ]
     /\ UNCHANGED << allSeqLen, status, torn >>

(* CPUAttention::onExecute of the next layer.                              *)
LayerStep ==
  LET l == fwd.done + 1
  IN /\ Forwarding
     /\ l \in Layers
     /\ layer' = [ layer EXCEPT
                     ![l] = AttentionUpdate(layer[l], meta, fwd.toks, fwd.seqLen) ]
     /\ fwd' = [ fwd EXCEPT !.done = l ]
     /\ torn' = (torn /\ ~(l = NumLayers /\ Cleared))
     /\ UNCHANGED << meta, allSeqLen, status >>

(* The outputs are valid: sync(), and the caller counts the positions.     *)
(* accepted < Len(toks) after a verification forward of the speculative    *)
(* strategies, which leaves the rejected drafts as the next removal; it    *)
(* follows a prefill, so a rebuilt cache is never one.                     *)
EndForward(accepted) ==
  /\ Forwarding
  /\ fwd.done = NumLayers
  /\ accepted \in 1 .. Len(fwd.toks)
  /\ accepted < Len(fwd.toks) => meta.previous # meta.remove
  /\ meta' = [ Sync(meta) EXCEPT !.remove = Len(fwd.toks) - accepted ]
  /\ allSeqLen' = allSeqLen + accepted
  /\ fwd' = NoForward
  /\ UNCHANGED << layer, status, torn >>

(* The module fails before its next layer, or its outputs cannot be read.  *)
(* There is no sync().  Outputs that exist but cannot be read are returned *)
(* all the same, and callers that test for emptiness count them.           *)
FailForward ==
  /\ Forwarding
  /\ status' = "INTERNAL_ERROR"
  /\ torn' = (torn \/ fwd.done > 0)
  /\ \/ UNCHANGED allSeqLen
     \/ /\ fwd.done = NumLayers
        /\ allSeqLen' = allSeqLen + meta.add
  /\ fwd' = NoForward
  /\ UNCHANGED << meta, layer >>

-----------------------------------------------------------------------------
Inputs == UNION { [1 .. n -> Token] : n \in 1 .. MaxAdd }

Next ==
  \/ \E begin, last \in 0 .. MaxLen : EraseHistory(begin, last)
  \/ Reset
  \/ \E reuseKV \in BOOLEAN : GenerateInit(reuseKV)
  \/ \E toks \in Inputs, pad \in 0 .. MaxPad : BeginForward(toks, pad)
  \/ LayerStep
  \/ \E accepted \in 1 .. MaxAdd : EndForward(accepted)
  \/ FailForward

Spec == Init /\ [][Next]_vars

-----------------------------------------------------------------------------
(* Properties.                                                             *)

ForwardType == [ toks : Seq(Token), seqLen : Nat, done : 0 .. NumLayers ]

(* Every variable keeps its type; fwd is the only record of a forward in   *)
(* progress.                                                               *)
TypeOK ==
  /\ meta \in Meta
  /\ layer \in [ Layers -> Cache ]
  /\ allSeqLen \in Int
  /\ status \in {"RUNNING", "INTERNAL_ERROR"}
  /\ fwd \in ForwardType
  /\ torn \in BOOLEAN

(* The assertion of CPUAttention::onExecute (MNN_ASSERT(mMeta->previous == *)
(* kvLength()), compiled out of release builds): a layer that is about to  *)
(* keep part of its rows holds exactly the rows the Llm thinks it holds.   *)
AttentionAssert ==
  (Forwarding /\ fwd.done < NumLayers /\ meta.previous # meta.remove)
    => layer[fwd.done + 1].past = meta.previous

(* Between forwards all attention layers hold the same tokens in the same  *)
(* order, after any chain of lazy erases, rebuilds, moves and growth.      *)
LayersAgree ==
  (~Forwarding /\ ~torn) => \A l \in Layers : Rows(layer[l]) = Rows(layer[1])

(* The position the next token gets (all_seq_len, kept by the Llm and by   *)
(* eraseHistory) is the number of rows it will attend to (kept by the      *)
(* KVMeta): the two counters are advanced by different code.               *)
PositionsContinue ==
  (~Forwarding /\ ~torn) => allSeqLen = Effective(meta)

(* No layer, not even one a failed forward left behind, uses a row beyond  *)
(* the buffer it allocated: the growth test of onRealloc and the padded    *)
(* length onAlloc is given are enough for onUpdateKV and moveKV.           *)
WritesInBounds ==
  \A l \in Layers : layer[l].past \in 0 .. layer[l].max

(* The tokens that survive when the plan of the KVMeta is carried out.     *)
Survivors(rows) ==
  LET start == meta.previous - meta.remove
  IN SubSeq(rows, 1, start)
     \o SubSeq(rows, start + meta.begin + 1, start + meta.begin + meta.size)

LastRows == Rows(layer[NumLayers])

Stored == IF torn THEN << >> ELSE LastRows

Kept ==
  IF torn THEN << >>
  ELSE IF fwd.done = NumLayers THEN LastRows
  ELSE Survivors(LastRows)

Conv == INSTANCE Conversation WITH stored <- Stored, kept <- Kept

(* KVHistory implements Conversation: what a forward attends to is exactly *)
(* the tokens forwarded before, in order, minus the last erased range,     *)
(* and only a failure that stopped between two layers loses them.          *)
ImplementsConversation == Conv!Spec

(* "erase history hasn't been executed by response, override erase info":  *)
(* an erase that comes while another one waits replaces it, so that only   *)
(* its own range is missing at the next forward.  True unless the waiting  *)
(* one keeps a tail and the new one goes to the end of the history: then   *)
(* its reserve span stays in the plan (see the liberty "override").        *)
EraseOverrides ==
  [][ \A begin, last \in 0 .. MaxLen :
        EraseHistory(begin, last) =>
          LET end == IF last = 0 THEN meta.previous ELSE last
          IN Effective(meta)' = meta.previous - (end - begin) ]_vars

-----------------------------------------------------------------------------
(* The inductive invariant behind the properties on lengths.               *)

(* What the caller has to respect: no erase that keeps a tail from         *)
(* position 0 or in a quantised cache ("n_reserve > 0 is not currently     *)
(* supported when K or V is quantized"), no override of a kept tail, and   *)
(* a clear after a torn forward.                                           *)
Supported == Allowed \subseteq {"interior"} /\ (Quantized => Allowed = {})

(* A kept tail is not empty, ends where the history ends and leaves the    *)
(* first row in place.                                                     *)
PlanOK ==
  /\ meta.remove <= meta.previous
  /\ meta.nReserve = 0 => meta.size = 0
  /\ meta.nReserve = 1 =>
       /\ meta.size >= 1
       /\ meta.begin + meta.size = meta.remove
       /\ meta.remove < meta.previous
       /\ ~Quantized

ForwardOK ==
  Forwarding => /\ fwd.toks # << >>
                /\ meta.add = Len(fwd.toks)
                /\ meta.add <= fwd.seqLen

(* Layers that have run the forward hold its outcome, the others still     *)
(* hold the old history, unless an earlier forward was torn: then the      *)
(* forward in progress rebuilds every layer.                               *)
LayerLengths ==
  /\ \A l \in 1 .. fwd.done : layer[l].past = Effective(meta) + meta.add
  /\ ~torn => \A l \in fwd.done + 1 .. NumLayers : layer[l].past = meta.previous
  /\ torn /\ Forwarding => Cleared

PositionsInv == ~torn => allSeqLen = Effective(meta)

(* Lengths, plan and positions agree in every state, forwards included.    *)
CountersAgree ==
  PlanOK /\ ForwardOK /\ LayerLengths /\ PositionsInv /\ WritesInBounds

(* What the layers hold.  The ones that have not run the forward in        *)
(* progress are equal, the ones that have are what it makes of the others; *)
(* after a torn forward that is so because the next one starts afresh.     *)
Lockstep ==
  /\ \A k, l \in 1 .. fwd.done : layer[k] = layer[l]
  /\ ~torn => \A k, l \in fwd.done + 1 .. NumLayers : layer[k] = layer[l]
  /\ \A k \in 1 .. fwd.done, l \in fwd.done + 1 .. NumLayers :
       layer[k] = AttentionUpdate(layer[l], meta, fwd.toks, fwd.seqLen)
  /\ torn /\ Forwarding => meta.remove = meta.previous

(* The rows fit into the positions of the model.                           *)
RowsFit ==
  /\ meta.previous <= MaxLen
  /\ Forwarding => Effective(meta) + meta.add <= MaxLen
=============================================================================
