---------------------------- MODULE PrefixCache ----------------------------
(***************************************************************************)
(* The prefix cache on disk.  The first prompt after setPrefixCacheFile is *)
(* a prefix: a process that finds no usable files computes it and leaves   *)
(* its rows, and the states of linear attention, in one pair of files per  *)
(* layer, marked by _sync files at the end; a later process skips the      *)
(* prefix and loads it with the second prompt.  The process may be killed  *)
(* at any step, and what it mapped or wrote stays on disk.                 *)
(*                                                                         *)
(* A row, or an absorbed token of a linear state, is the token itself.     *)
(* The two files of a layer, .k and .v, are written together but marked    *)
(* and removed one by one.                                                 *)
(***************************************************************************)
EXTENDS Integers, Sequences, FiniteSets

CONSTANTS
  Models,      \* the models: the kind of every layer
  Prefixes,    \* the prompts that can be stored under the file name
  Messages,    \* the prompts sent after it
  Generated,   \* the token a decode adds
  Block,       \* mBlockSize
  ExpandChunk, \* mConfig.mExpandChunk
  MaxTold,     \* bound of the model: tokens of a conversation
  Situations   \* what callers and the environment may do, see Known

(* What the code does not survive, and a run can admit:                    *)
(*   cut_short    the first prompt fails or runs out of time when every    *)
(*                layer has its files but not yet all rows                 *)
(*   grow_crash   a kill while the last layer's prefix file is enlarged    *)
(*   same_shape   the prompt after an erase has the shape of the last one, *)
(*                so that onResize may be skipped                          *)
(*   one_token    the prompt after an erase or a failure is a single token *)
(*   erase_inside an erase into the prefix, or anywhere but at its end if  *)
(*                there is linear attention                                *)
(*   drifted      setPrefixCacheFile after a conversation without a prefix *)
(*   failed_load  the prompt that loads the prefix fails and another comes *)
Known == {"cut_short", "grow_crash", "same_shape", "one_token", "erase_inside",
          "drifted", "failed_load"}

Blank == 0 \* the content of a row nothing was written to

ASSUME PrefixCacheAssumption ==
  /\ Models \subseteq Seq({"attention", "linear"}) \ {<<>>}
  /\ Prefixes \cup Messages \subseteq Seq(Int) \ {<<>>}
  /\ \A p \in Prefixes \cup Messages : \A i \in DOMAIN p : p[i] # Blank
  /\ Generated \in Int
  /\ Block \in Nat \ {0}
  /\ ExpandChunk \in Nat
  /\ MaxTold \in Nat
  /\ Situations \subseteq Known

VARIABLES
  model,   \* the kinds of the layers
  prefix,  \* the prompt that belongs to the file name
  disk,    \* per layer index: the prefix files and their markers
  cache,   \* per layer: the rows of a CPUKVCacheManager, or a StateCache
  meta,    \* mMeta
  mode,    \* mPrefixCacheMode, mCallIndex, mIsPrefixFileExist, mPrefixLength
  status,  \* mContext->status
  pc,      \* what the call in progress is doing
  pieces,  \* the chunks of the prompt still to be computed
  shape,   \* the input shape of the last prefill
  told,    \* history variable: the tokens the caller's history holds
  session  \* history variable: the history begins with the stored prefix

vars == << model, prefix, disk, cache, meta, mode, status, pc, pieces, shape, told, session >>

Layer == DOMAIN model
HasLinear == \E l \in Layer : model[l] = "linear"
Both == {"k", "v"}

NoFile == [has |-> {}, sync |-> {}, kind |-> "none", rows |-> <<>>, size |-> 0]

EmptyAttention == [past |-> 0, max |-> 0, rows |-> <<>>, file |-> 0]
EmptyLinear ==
  [ready |-> FALSE, state |-> <<>>, snapped |-> FALSE, snapshot |-> <<>>, index |-> -1]

NoPrefix == [on |-> FALSE, call |-> 0, exist |-> FALSE, length |-> 0]

NewCache(kinds) ==
  [l \in DOMAIN kinds |-> IF kinds[l] = "linear" THEN EmptyLinear ELSE EmptyAttention]
NewMeta == [previous |-> 0, remove |-> 0, flag |-> "NoChange", inDisk |-> 0, layerIndex |-> 0]

Init ==
  /\ model \in Models
  /\ prefix \in Prefixes
  /\ disk = [l \in DOMAIN model |-> NoFile]
  /\ cache = NewCache(model)
  /\ meta = NewMeta
  /\ mode = NoPrefix
  /\ status = "RUNNING"
  /\ pc = [at |-> "idle"]
  /\ pieces = <<>>
  /\ shape = <<>>
  /\ told = <<>>
  /\ session = FALSE

SizesAgree == \A f \in Layer : disk[f].size = disk[1].size

(* A kill, or a normal end: rows mapped from a file are on disk already.   *)
Restart ==
  /\ pc.at = "grow" /\ (HasLinear \/ SizesAgree) => "grow_crash" \in Situations
  /\ cache' = NewCache(model)
  /\ meta' = NewMeta
  /\ mode' = NoPrefix
  /\ status' = "RUNNING"
  /\ pc' = [at |-> "idle"]
  /\ pieces' = <<>>
  /\ shape' = <<>>
  /\ told' = <<>>
  /\ session' = FALSE
  /\ UNCHANGED << model, prefix, disk >>

-----------------------------------------------------------------------------

(* Mutant of Usable: the markers are believed.                             *)
UsableByMarkers == \A f \in Layer : disk[f].sync = Both

(* What setPrefixCacheFile accepts: all markers, all data files, and the   *)
(* same size in every layer unless some layer keeps a state instead.       *)
Usable ==
  /\ \A f \in Layer : disk[f].sync = Both
  /\ \A f \in Layer : disk[f].has = Both /\ disk[f].size > 0
  /\ HasLinear \/ SizesAgree

SetPrefixCacheFile ==
  /\ pc.at = "idle" /\ told = <<>>
  /\ meta.layerIndex # 0 => "drifted" \in Situations
  /\ mode' = [NoPrefix EXCEPT !.on = TRUE, !.exist = Usable]
  /\ pc' = IF Usable THEN pc ELSE [at |-> "clean", step |-> 1]
  /\ UNCHANGED << model, prefix, disk, cache, meta, status, pieces, shape, told, session >>

Next4(step, of) == IF step < 4 * Cardinality(Layer) THEN [at |-> of, step |-> step + 1]
                   ELSE [at |-> "idle"]

(* MNNRemoveFile, one file after the other.                                *)
Clean ==
  /\ pc.at = "clean"
  /\ LET f == (pc.step - 1) \div 4 + 1
         x == IF pc.step % 2 = 1 THEN "k" ELSE "v"
     IN  disk' = IF (pc.step - 1) % 4 < 2
                 THEN [disk EXCEPT ![f].has = @ \ {x}]
                 ELSE [disk EXCEPT ![f].sync = @ \ {x}]
  /\ pc' = Next4(pc.step, "clean")
  /\ UNCHANGED << model, prefix, cache, meta, mode, status, pieces, shape, told, session >>

-----------------------------------------------------------------------------

Chunks(ids) ==
  [i \in 1 .. (Len(ids) + Block - 1) \div Block |->
     SubSeq(ids, (i - 1) * Block + 1, IF i * Block < Len(ids) THEN i * Block ELSE Len(ids))]

Piece == Head(pieces)
Shape(piece) == << Len(piece), Len(told) + Len(piece) >>

Failed == status = "INTERNAL_ERROR"

(* The prompts after an erase or a failure that linear attention cannot    *)
(* follow.                                                                 *)
Followed(piece) ==
  HasLinear /\ (meta.remove > 0 \/ Failed) =>
    /\ Len(piece) = 1 => "one_token" \in Situations
    /\ meta.remove < meta.previous /\ Shape(piece) = shape => "same_shape" \in Situations

(* response(ids) runs again after an error (generate_init).  The layers    *)
(* that ran in the failed forward hold rows that are not counted, so the   *)
(* caller erases everything first; after a failed load nothing is counted  *)
(* that it could erase.  (Going on all the same: "retry" of KVHistory.)    *)
Recovers ==
  Failed => told = <<>> \/ (meta.flag = "PendingRead" /\ "failed_load" \in Situations)

(* mCallIndex is compared with 1 and 2 only.                               *)
NextCall == IF mode.call < 3 THEN mode.call + 1 ELSE 3

Forward(decoding, tail) == [at |-> "layer", step |-> 1, decoding |-> decoding, tail |-> tail]

(* generate(input_ids) of the first prompt, with no file to use: tail is   *)
(* the token it goes on to generate before completePrefixWrite, when the   *)
(* prompt is not cut in chunks and max_tokens is not 0.                    *)
FirstPrompt(tail) ==
  /\ pc.at = "idle" /\ Recovers
  /\ mode.on /\ mode.call = 0 /\ ~mode.exist
  /\ tail # <<>> => Len(prefix) <= Block
  /\ Followed(Head(Chunks(prefix)))
  /\ mode' = [mode EXCEPT !.call = 1, !.length = Len(prefix)]
  /\ meta' = [meta EXCEPT !.flag = "PendingWrite"]
  /\ pieces' = Chunks(prefix)
  /\ pc' = Forward(FALSE, tail)
  /\ session' = TRUE
  /\ status' = "RUNNING"
  /\ UNCHANGED << model, prefix, disk, cache, shape, told >>

(* passExecute: the files hold what the prompt would compute.              *)
SkipPrompt ==
  /\ pc.at = "idle" /\ Recovers
  /\ mode.on /\ mode.call = 0 /\ mode.exist
  /\ mode' = [mode EXCEPT !.call = 1, !.length = Len(prefix)]
  /\ told' = prefix
  /\ session' = TRUE
  /\ status' = "RUNNING"
  /\ UNCHANGED << model, prefix, disk, cache, meta, pc, pieces, shape >>

(* Every later prompt; the second one after setPrefixCacheFile loads.      *)
Prompt(ids) ==
  /\ pc.at = "idle" /\ Recovers
  /\ mode.on => mode.call # 0
  /\ Len(told) + Len(ids) <= MaxTold
  /\ Followed(Head(Chunks(ids)))
  /\ mode' = IF mode.on THEN [mode EXCEPT !.call = NextCall] ELSE mode
  /\ meta' = IF mode.on /\ mode.call = 1 /\ mode.exist
             THEN [meta EXCEPT !.flag = "PendingRead", !.inDisk = mode.length]
             ELSE meta
  /\ pieces' = Chunks(ids)
  /\ pc' = Forward(FALSE, <<>>)
  /\ session' = (session /\ Len(prefix) <= Len(told))
  /\ status' = "RUNNING"
  /\ UNCHANGED << model, prefix, disk, cache, shape, told >>

(* A generated token goes through another clone of the module.             *)
Decode ==
  /\ pc.at = "idle" /\ status = "RUNNING"
  /\ meta.previous > 0 /\ meta.remove = 0
  /\ Len(told) < MaxTold
  /\ pieces' = << << Generated >> >>
  /\ pc' = Forward(TRUE, <<>>)
  /\ UNCHANGED << model, prefix, disk, cache, meta, mode, status, shape, told, session >>

(* eraseHistory(begin, 0).  While one waits, only an erase of everything   *)
(* replaces it.                                                            *)
Keeps(begin) ==
  \/ begin = 0
  \/ session /\ begin = Len(prefix)
  \/ session /\ begin > Len(prefix) /\ ~HasLinear
  \/ ~session /\ ~HasLinear

EraseHistory(begin) ==
  /\ pc.at = "idle"
  /\ begin < meta.previous - meta.remove
  /\ meta.remove = 0 \/ begin = 0
  /\ Keeps(begin) \/ "erase_inside" \in Situations
  /\ meta' = [meta EXCEPT !.remove = meta.previous - begin]
  /\ told' = SubSeq(told, 1, begin)
  /\ session' = (session /\ begin > 0)
  /\ UNCHANGED << model, prefix, disk, cache, mode, status, pc, pieces, shape >>

-----------------------------------------------------------------------------
(* A forward: one step per layer, then EndForward.                         *)

Running(kind) ==
  /\ pc.at = "layer" /\ pc.step \in Layer
  /\ model[pc.step] = kind

Fresh == meta.previous = meta.remove
Rows(l) == IF cache[l].file = 0 THEN cache[l].rows ELSE disk[cache[l].file].rows
Needed == meta.previous + Len(Piece) - meta.remove
ThisFile == meta.layerIndex + 1

(* Mutant of AdvanceIndex: the index is not wrapped.                       *)
AdvanceOn == meta' = [meta EXCEPT !.layerIndex = @ + 1]
AdvanceIndex == meta' = [meta EXCEPT !.layerIndex = (@ + 1) % Cardinality(Layer)]
NextLayer == pc' = [pc EXCEPT !.at = "layer", !.step = @ + 1]

(* Rows behind the past length are never read, and are left out.           *)
Kept(rows, n) == [i \in 1 .. n |-> IF i <= Len(rows) THEN rows[i] ELSE Blank]

(* onAlloc, PendingRead: a private copy of the prefix, then the new rows.  *)
LoadPrefix ==
  /\ Running("attention") /\ Fresh /\ meta.flag = "PendingRead"
  /\ LET file   == disk[ThisFile]
         stored == IF file.kind = "attention" THEN file.rows ELSE <<>>
         length == Len(Piece) + meta.inDisk
     IN  cache' = [cache EXCEPT ![pc.step] =
           [past |-> length, file |-> 0,
            max  |-> IF length > file.size THEN length + ExpandChunk ELSE file.size,
            rows |-> Kept(stored, meta.inDisk) \o Piece]]
  /\ AdvanceIndex /\ NextLayer
  /\ UNCHANGED << model, prefix, disk, mode, status, pieces, shape, told, session >>

(* onAlloc, PendingWrite: the cache of the layer is the mapped file.       *)
SharePrefix ==
  /\ Running("attention") /\ Fresh /\ meta.flag = "PendingWrite"
  /\ LET max == Len(Piece) + ExpandChunk
     IN  /\ disk' = [disk EXCEPT ![ThisFile] =
               [@ EXCEPT !.has = Both, !.kind = "attention", !.rows = Piece, !.size = max]]
         /\ cache' = [cache EXCEPT ![pc.step] =
               [past |-> Len(Piece), max |-> max, rows |-> <<>>, file |-> ThisFile]]
  /\ AdvanceIndex /\ NextLayer
  /\ UNCHANGED << model, prefix, mode, status, pieces, shape, told, session >>

(* onAlloc otherwise: a temporary file, which takes an index all the same. *)
StartRows ==
  /\ Running("attention") /\ Fresh /\ meta.flag = "NoChange"
  /\ cache' = [cache EXCEPT ![pc.step] =
       [past |-> Len(Piece), max |-> Len(Piece) + ExpandChunk, rows |-> Piece, file |-> 0]]
  /\ AdvanceIndex /\ NextLayer
  /\ UNCHANGED << model, prefix, disk, mode, status, pieces, shape, told, session >>

(* onRealloc, and the new rows behind the ones that are left.              *)
AppendRows ==
  /\ Running("attention") /\ ~Fresh
  /\ LET l    == pc.step
         c    == cache[l]
         past == c.past - meta.remove
         rows == Kept(Rows(l), past) \o Piece
     IN  /\ c.file # 0 => Needed <= c.max
         /\ cache' = [cache EXCEPT ![l] =
               [past |-> past + Len(Piece), file |-> c.file,
                max  |-> IF Needed > c.max THEN Needed + ExpandChunk ELSE c.max,
                rows |-> IF c.file = 0 THEN rows ELSE <<>>]]
         /\ disk' = IF c.file = 0 THEN disk ELSE [disk EXCEPT ![c.file].rows = rows]
  /\ NextLayer
  /\ UNCHANGED << model, prefix, meta, mode, status, pieces, shape, told, session >>

(* expandKVCacheInDisk of a prefix file: its rows are taken to memory and  *)
(* the file is enlarged and zeroed; then they are copied back.             *)
GrowFile ==
  /\ Running("attention") /\ ~Fresh
  /\ LET f == cache[pc.step].file
     IN  /\ f # 0 /\ Needed > cache[pc.step].max
         /\ cache' = [cache EXCEPT ![pc.step] =
               [@ EXCEPT !.max = Needed + ExpandChunk, !.rows = disk[f].rows]]
         /\ disk' = [disk EXCEPT ![f] = [@ EXCEPT !.rows = <<>>, !.size = Needed + ExpandChunk]]
  /\ pc' = [pc EXCEPT !.at = "grow"]
  /\ UNCHANGED << model, prefix, meta, mode, status, pieces, shape, told, session >>

CopyBack ==
  /\ pc.at = "grow"
  /\ disk' = [disk EXCEPT ![cache[pc.step].file].rows = cache[pc.step].rows]
  /\ cache' = [cache EXCEPT ![pc.step].rows = <<>>]
  /\ pc' = [pc EXCEPT !.at = "layer"]
  /\ UNCHANGED << model, prefix, meta, mode, status, pieces, shape, told, session >>

(* CPULinearAttention::onResize                                            *)
Resized(c) ==
  IF ~c.ready THEN [c EXCEPT !.ready = TRUE]
  ELSE IF Len(Piece) = 1 \/ meta.flag = "PendingRead" THEN c
  ELSE IF meta.remove > 0
    THEN [c EXCEPT !.state = IF c.snapped THEN c.snapshot ELSE <<>>]
  ELSE IF meta.previous = 0
    THEN [c EXCEPT !.state = <<>>, !.snapped = FALSE]
  ELSE c

Snapshot(c) == [c EXCEPT !.snapped = TRUE, !.snapshot = c.state]

(* CPULinearAttention::onExecute up to the operator itself.                *)
Executed(c) ==
  LET reading == meta.flag = "PendingRead"
      zeroed  == IF Len(Piece) > 1 /\ Fresh /\ ~reading THEN [c EXCEPT !.state = <<>>] ELSE c
      indexed == IF meta.flag # "NoChange" /\ Fresh
                 THEN [zeroed EXCEPT !.index = meta.layerIndex] ELSE zeroed
      file    == disk[indexed.index + 1]
  IN  IF reading /\ indexed.index >= 0
      THEN Snapshot([indexed EXCEPT !.state = IF file.kind = "linear" THEN file.rows ELSE <<Blank>>])
      ELSE indexed

(* A linear layer: resized is FALSE when the shapes spare it the resize.   *)
LinearStep(resized) ==
  /\ Running("linear")
  /\ ~resized => cache[pc.step].ready /\ ~pc.decoding /\ Shape(Piece) = shape
  /\ LET before == Executed(IF resized THEN Resized(cache[pc.step]) ELSE cache[pc.step])
         after  == [before EXCEPT !.state = @ \o Piece]
         saves  == meta.flag = "PendingWrite" /\ after.index >= 0
     IN  /\ cache' = [cache EXCEPT ![pc.step] = IF saves THEN Snapshot(after) ELSE after]
         /\ disk' = IF ~saves THEN disk
                    ELSE [disk EXCEPT ![after.index + 1] =
                           [@ EXCEPT !.has = Both, !.kind = "linear",
                                     !.rows = after.state, !.size = 1]]
  /\ IF meta.flag # "NoChange" /\ Fresh THEN AdvanceIndex ELSE UNCHANGED meta
  /\ NextLayer
  /\ UNCHANGED << model, prefix, mode, status, pieces, shape, told, session >>

Writing == mode.on /\ mode.call = 1 /\ ~mode.exist
Synced == [meta EXCEPT !.previous = @ - meta.remove + Len(Piece), !.remove = 0]

Off(m) == [m EXCEPT !.flag = "NoChange", !.layerIndex = 0]
EndsLoad == mode.on /\ mode.call = 2 /\ ~pc.decoding
EndsWrite(decodes) == Writing /\ ~pc.decoding /\ (decodes \/ Tail(pieces) = <<>>)

(* Mutant of PlanAfter: the loaded rows are not counted.                   *)
PlanUncounted(decodes) ==
  IF EndsLoad THEN [Off(Synced) EXCEPT !.inDisk = 0]
  ELSE IF EndsWrite(decodes) THEN Off(Synced)
  ELSE Synced

(* What generate(input_embeds) and completePrefixWrite leave of the plan.  *)
PlanAfter(decodes) ==
  IF EndsLoad
  THEN [Off(Synced) EXCEPT !.previous = IF mode.exist THEN @ + meta.inDisk ELSE @, !.inDisk = 0]
  ELSE IF EndsWrite(decodes) THEN Off(Synced)
  ELSE Synced

(* When every layer has its files and not yet all rows of the prefix, they *)
(* must not be marked.                                                     *)
Torn ==
  /\ Writing /\ ~pc.decoding
  /\ \A f \in Layer : disk[f].has = Both
  /\ ~(pc.step = Cardinality(Layer) + 1 /\ Tail(pieces) = <<>>)

MarkOrIdle == IF Writing THEN [at |-> "mark", step |-> 1] ELSE [at |-> "idle"]

(* late: the deadline has passed when it is looked at, after a prefill.    *)
(* Then nothing is generated, the chunks that are left are refused, and    *)
(* completePrefixWrite runs all the same.                                  *)
EndForward(late) ==
  /\ pc.at = "layer" /\ pc.step = Cardinality(Layer) + 1
  /\ late => ~pc.decoding /\ (Torn => "cut_short" \in Situations)
  /\ LET decodes == pc.tail # <<>> /\ ~late
     IN  /\ meta' = PlanAfter(decodes \/ late)
         /\ mode' = IF EndsLoad THEN NoPrefix ELSE mode
         /\ told' = told \o Piece
         /\ shape' = IF pc.decoding THEN shape ELSE Shape(Piece)
         /\ status' = IF late THEN "TIMEOUT" ELSE status
         /\ pieces' = IF late THEN <<>> ELSE IF decodes THEN << pc.tail >> ELSE Tail(pieces)
         /\ pc' = IF decodes THEN Forward(TRUE, <<>>)
                  ELSE IF ~late /\ Tail(pieces) # <<>> THEN [pc EXCEPT !.step = 1]
                  ELSE MarkOrIdle
  /\ UNCHANGED << model, prefix, disk, cache, session >>

(* completePrefixWrite: a marker per file that exists, one by one.         *)
Mark ==
  /\ pc.at = "mark"
  /\ LET f == (pc.step + 1) \div 2
         x == IF pc.step % 2 = 1 THEN "k" ELSE "v"
     IN  disk' = [disk EXCEPT ![f].sync = IF x \in disk[f].has THEN @ \cup {x} ELSE @]
  /\ pc' = IF pc.step < 2 * Cardinality(Layer) THEN [pc EXCEPT !.step = @ + 1]
           ELSE [at |-> "idle"]
  /\ UNCHANGED << model, prefix, cache, meta, mode, status, pieces, shape, told, session >>

(* A layer or the outputs fail.  generate returns, and completePrefixWrite *)
(* runs whatever the status.  All layers are resized before one runs.      *)
FailForward ==
  /\ pc.at = "layer"
  /\ Torn => "cut_short" \in Situations
  /\ status' = "INTERNAL_ERROR"
  /\ pieces' = <<>>
  /\ pc' = MarkOrIdle
  /\ meta' = IF Writing THEN Off(meta) ELSE meta
  /\ shape' = IF pc.decoding THEN shape ELSE Shape(Piece)
  /\ UNCHANGED << model, prefix, disk, cache, mode, told, session >>

-----------------------------------------------------------------------------

Next ==
  \/ Restart
  \/ SetPrefixCacheFile
  \/ Clean
  \/ \E tail \in { <<>>, <<Generated>> } : FirstPrompt(tail)
  \/ SkipPrompt
  \/ \E ids \in Messages : Prompt(ids)
  \/ Decode
  \/ \E begin \in 0 .. MaxTold : EraseHistory(begin)
  \/ LoadPrefix
  \/ SharePrefix
  \/ StartRows
  \/ AppendRows
  \/ GrowFile
  \/ CopyBack
  \/ \E resized \in BOOLEAN : LinearStep(resized)
  \/ \E late \in BOOLEAN : EndForward(late)
  \/ Mark
  \/ FailForward

Spec == Init /\ [][Next]_vars

-----------------------------------------------------------------------------

Tokens == UNION { { p[i] : i \in DOMAIN p } : p \in Prefixes \cup Messages }
            \cup { Generated, Blank }
RowSeq(s) == s \in Seq(Tokens)

(* The files and the layers are of the kinds the code gives them.          *)
TypeOK ==
  /\ \A f \in Layer :
       /\ disk[f].has \subseteq Both /\ disk[f].sync \subseteq Both
       /\ disk[f].kind \in {"none", "attention", "linear"}
       /\ RowSeq(disk[f].rows) /\ disk[f].size \in Nat
  /\ \A l \in Layer :
       IF model[l] = "attention"
       THEN /\ cache[l].past \in 0 .. cache[l].max
            /\ RowSeq(cache[l].rows) /\ cache[l].file \in {0} \cup Layer
       ELSE /\ RowSeq(cache[l].state) /\ RowSeq(cache[l].snapshot)
            /\ cache[l].index + 1 \in {0} \cup Layer
  /\ meta.remove \in 0 .. meta.previous
  /\ meta.flag \in {"NoChange", "PendingWrite", "PendingRead"}
  /\ meta.layerIndex + 1 \in Layer
  /\ mode.call \in 0 .. 3
  /\ status \in {"RUNNING", "TIMEOUT", "INTERNAL_ERROR"}
  /\ RowSeq(told) /\ Len(told) <= MaxTold

(* A stored prefix is used whole or not at all: whatever setPrefixCacheFile*)
(* would accept, in this process or after a kill, holds the rows and       *)
(* states of the prefix in every layer, in a file of its kind.  A file     *)
(* being enlarged is judged when it is done, or after a Restart.  It fails *)
(* in the situations "cut_short", "grow_crash" and "drifted".              *)
PrefixIntact ==
  Usable /\ pc.at # "grow" => \A l \in Layer :
    /\ disk[l].kind = model[l]
    /\ IF model[l] = "attention"
       THEN Kept(disk[l].rows, Len(prefix)) = prefix
       ELSE disk[l].rows = prefix

(* Between calls every layer holds the caller's history: computed, loaded  *)
(* from the files, or restored after an erase, also when a call before ran *)
(* out of time, or failed and everything was erased.  The prompt that      *)
(* skips the prefix is told before it is loaded.                           *)
RowsMatch ==
  pc.at = "idle" /\ ~Failed /\ ~(mode.on /\ mode.call = 1 /\ mode.exist) =>
    /\ meta.previous - meta.remove = Len(told)
    /\ \A l \in Layer :
         IF model[l] = "attention"
         THEN /\ Kept(Rows(l), Len(told)) = told
              /\ cache[l].past = meta.previous
         ELSE meta.remove = 0 => cache[l].state = told
=============================================================================
