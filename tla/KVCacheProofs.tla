--------------------------- MODULE KVCacheProofs ---------------------------
(***************************************************************************)
(* Proofs about the key/value caches: what the layers hold (KVHistory),    *)
(* where in the buffers of a layer it is (KVLayout), and what becomes of   *)
(* it under the interactive callers of eraseHistory (RollbackDemo).        *)
(*                                                                         *)
(* KVHistory, for every number of layers, token set, buffer slack and      *)
(* length bound: CountersAgree is inductive together with TypeOK for       *)
(* callers that respect Supported; AttentionAssert, PositionsContinue and  *)
(* WritesInBounds follow from it.  Lockstep says moreover what the layers  *)
(* hold; LayersAgree follows from it, and, with what one layer does, that  *)
(* KVHistory implements Conversation.                                      *)
(*                                                                         *)
(* KVLayout, for any packing, size of a head, block of flash attention,    *)
(* buffer slack and length: the index formulas of the code agree on where  *)
(* a row lies.                                                             *)
(*                                                                         *)
(* RollbackDemo, for any tokens, any prompts and histories of any length:  *)
(* its rows are a Conversation, which is what KVHistory implements, and    *)
(* both callers find the rows they had.                                    *)
(***************************************************************************)
EXTENDS KVHistory, KVLayout, RollbackDemo, SequenceTheorems, TLAPS

-----------------------------------------------------------------------------
(* The tokens of a forward are a non-empty sequence.                       *)
LEMMA InputsAreSequences ==
  ASSUME NEW toks \in Inputs
  PROVE  /\ toks \in Seq(Token)
         /\ Len(toks) \in Nat \ {0}
         /\ toks # << >>
<1>1. PICK n \in 1 .. MaxAdd : toks \in [1 .. n -> Token]
  BY DEF Inputs
<1>2. n \in Nat \ {0}
  BY <1>1, HistoryAssumption
<1>3. toks \in Seq(Token)
  BY <1>1, <1>2, SeqDef
<1>4. Len(toks) = n
  BY <1>1, <1>2, <1>3, LenProperties
<1>5. QED
  BY <1>2, <1>3, <1>4, EmptySeq

(* moveKV() only rearranges rows.                                          *)
LEMMA MoveKVType ==
  ASSUME NEW cells \in [Pos -> Token \cup {Blank}],
         NEW src \in Int, NEW dst \in Int, NEW size \in Int
  PROVE  MoveKV(cells, src, dst, size) \in [Pos -> Token \cup {Blank}]
BY DEF MoveKV

(* onUpdateKV(): what it appends, and by how much the layer grows.         *)
LEMMA UpdateKVType ==
  ASSUME NEW c \in Cache, NEW toks \in Seq(Token)
  PROVE  /\ OnUpdateKV(c, toks) \in Cache
         /\ OnUpdateKV(c, toks).past = c.past + Len(toks)
         /\ OnUpdateKV(c, toks).max = c.max
<1>1. Len(toks) \in Nat
  BY LenProperties
<1>2. ASSUME NEW p \in Pos, p \in c.past .. c.past + Len(toks) - 1
      PROVE  toks[p - c.past + 1] \in Token
  <2>1. p \in Int /\ c.past \in Int
    BY <1>2, CacheAssumption DEF Pos, Cache
  <2>2. p - c.past + 1 \in 1 .. Len(toks)
    BY <1>1, <1>2, <2>1
  <2>3. QED
    BY <2>2, ElementOfSeq
<1>3. [ p \in Pos |-> IF p \in c.past .. c.past + Len(toks) - 1
                      THEN toks[p - c.past + 1]
                      ELSE c.cells[p] ] \in [Pos -> Token \cup {Blank}]
  BY <1>2 DEF Cache
<1> DEFINE cells == [ p \in Pos |-> IF p \in c.past .. c.past + Len(toks) - 1
                                     THEN toks[p - c.past + 1]
                                     ELSE c.cells[p] ]
<1>4. OnUpdateKV(c, toks)
        = [ c EXCEPT !.cells = cells, !.past = c.past + Len(toks) ]
  BY DEF OnUpdateKV
<1>5. cells \in [Pos -> Token \cup {Blank}]
  BY <1>3
<1>6. c.past + Len(toks) \in Int
  BY <1>1 DEF Cache
<1> DEFINE past == c.past + Len(toks)
<1> HIDE DEF cells, past
<1>7. [ c EXCEPT !.cells = cells, !.past = past ] \in Cache
  BY <1>5, <1>6 DEF Cache, past
<1>8. /\ [ c EXCEPT !.cells = cells, !.past = past ].past = past
      /\ [ c EXCEPT !.cells = cells, !.past = past ].max = c.max
  BY DEF Cache
<1>9. QED
  BY <1>4, <1>7, <1>8 DEF past

(* onRealloc(): the buffer never shrinks, and a plan that keeps part of    *)
(* the history leaves the layer with the rows that survive.                *)
LEMMA ReallocType ==
  ASSUME NEW c \in Cache, NEW m \in Meta
  PROVE  OnRealloc(c, m) \in Cache
<1> DEFINE kvSeqLen == m.previous + m.add - m.remove + ReverseSize(m)
           grown == IF kvSeqLen > c.max THEN kvSeqLen + ExpandChunk ELSE c.max
           start == c.past - m.remove
<1>1. kvSeqLen \in Int /\ start \in Int
  BY DEF Meta, Cache, ReverseSize
<1>2. grown \in Nat
  BY <1>1, CacheAssumption DEF Cache
<1>3. MoveKV(c.cells, start + m.begin, start, m.size)
        \in [Pos -> Token \cup {Blank}]
  BY <1>1, MoveKVType DEF Meta, Cache
<1>4. start + m.size \in Int
  BY <1>1 DEF Meta
<1>5. QED
  BY <1>1, <1>2, <1>3, <1>4 DEF OnRealloc, Cache

(* onRealloc leaves the planned length, within the buffer.                 *)
LEMMA ReallocLength ==
  ASSUME NEW c \in Cache, NEW m \in Meta,
         c.past = m.previous,
         m.nReserve = 0 => m.size = 0,
         m.nReserve = 1 => m.size >= 1 /\ ~Quantized
  PROVE  /\ OnRealloc(c, m).past = Effective(m)
         /\ Effective(m) + m.add <= OnRealloc(c, m).max
<1>1. m.nReserve \in {0, 1} /\ ReverseSize(m) = m.size
  BY DEF Meta, ReverseSize
<1>2. OnRealloc(c, m).past = Effective(m)
  BY <1>1 DEF OnRealloc, Effective, Meta, Cache
<1>3. Effective(m) + m.add <= OnRealloc(c, m).max
  BY <1>1, CacheAssumption DEF OnRealloc, Effective, Meta, Cache
<1>4. QED
  BY <1>2, <1>3

(* onAlloc() after onClear(): an empty layer with room for the padded      *)
(* sequence.                                                               *)
LEMMA AllocType ==
  ASSUME NEW c, NEW seqLen \in Nat
  PROVE  /\ OnAlloc(OnClear(c), seqLen) \in Cache
         /\ OnAlloc(OnClear(c), seqLen).past = 0
         /\ OnAlloc(OnClear(c), seqLen).max >= seqLen
<1> DEFINE blank == [ p \in Pos |-> Blank ]
           room == seqLen + ExpandChunk
<1>1. blank \in [Pos -> Token \cup {Blank}]
  OBVIOUS
<1>2. room \in Nat /\ room >= seqLen
  BY CacheAssumption
<1> HIDE DEF blank, room
<1>3. OnAlloc(OnClear(c), seqLen)
        = [ EmptyCache EXCEPT !.cells = blank, !.max = room ]
  BY DEF OnAlloc, OnClear, blank, room
<1>4. EmptyCache \in Cache /\ EmptyCache.past = 0
  BY <1>1 DEF EmptyCache, Cache, blank
<1> DEFINE new == [ EmptyCache EXCEPT !.cells = blank, !.max = room ]
<1>5. new \in Cache /\ new.past = 0 /\ new.max = room
  BY <1>1, <1>2, <1>4 DEF Cache
<1> HIDE DEF new
<1>6. OnAlloc(OnClear(c), seqLen) = new
  BY <1>3 DEF new
<1>7. QED
  BY <1>2, <1>5, <1>6

(* One layer runs one forward: a layer that must keep rows has to hold     *)
(* what the Llm thinks it holds; then it ends with exactly the surviving   *)
(* and the new rows, inside its buffer.                                    *)
LEMMA AttentionUpdateFacts ==
  ASSUME NEW c \in Cache, NEW m \in Meta, NEW toks \in Seq(Token),
         NEW seqLen \in Nat
  PROVE  /\ AttentionUpdate(c, m, toks, seqLen) \in Cache
         /\ ( /\ m.previous = m.remove
              /\ m.nReserve = 0
              /\ Len(toks) <= seqLen
              /\ m.add = Len(toks) )
            => /\ AttentionUpdate(c, m, toks, seqLen).past = Effective(m) + m.add
               /\ AttentionUpdate(c, m, toks, seqLen).past
                    \in 0 .. AttentionUpdate(c, m, toks, seqLen).max
         /\ ( /\ m.previous # m.remove
              /\ m.remove <= m.previous
              /\ c.past = m.previous
              /\ m.nReserve = 0 => m.size = 0
              /\ m.nReserve = 1 => m.size >= 1 /\ ~Quantized
              /\ m.add = Len(toks) )
            => /\ AttentionUpdate(c, m, toks, seqLen).past = Effective(m) + m.add
               /\ AttentionUpdate(c, m, toks, seqLen).past
                    \in 0 .. AttentionUpdate(c, m, toks, seqLen).max
<1>0. Len(toks) \in Nat
  BY LenProperties
<1>1. CASE m.previous = m.remove
  <2> DEFINE d == OnAlloc(OnClear(c), seqLen)
  <2>1. AttentionUpdate(c, m, toks, seqLen) = OnUpdateKV(d, toks)
    BY <1>1 DEF AttentionUpdate
  <2>2. d \in Cache /\ d.past = 0 /\ d.max >= seqLen
    BY AllocType
  <2>3. d.max \in Nat
    BY <2>2 DEF Cache
  <2> HIDE DEF d
  <2>4. /\ OnUpdateKV(d, toks) \in Cache
        /\ OnUpdateKV(d, toks).past = Len(toks)
        /\ OnUpdateKV(d, toks).max = d.max
    BY <1>0, <2>2, UpdateKVType
  <2>5. m.nReserve = 0 => Effective(m) = 0
    BY <1>1 DEF Effective, ReverseSize, Meta
  <2>6. QED
    BY <1>0, <1>1, <2>1, <2>2, <2>3, <2>4, <2>5
<1>2. CASE m.previous # m.remove
  <2> DEFINE d == OnRealloc(c, m)
  <2>1. AttentionUpdate(c, m, toks, seqLen) = OnUpdateKV(d, toks)
    BY <1>2 DEF AttentionUpdate
  <2>2. d \in Cache
    BY ReallocType
  <2>3. ASSUME c.past = m.previous,
               m.nReserve = 0 => m.size = 0,
               m.nReserve = 1 => m.size >= 1 /\ ~Quantized
        PROVE  d.past = Effective(m) /\ Effective(m) + m.add <= d.max
    BY <2>3, ReallocLength
  <2> HIDE DEF d
  <2>4. /\ OnUpdateKV(d, toks) \in Cache
        /\ OnUpdateKV(d, toks).past = d.past + Len(toks)
        /\ OnUpdateKV(d, toks).max = d.max
    BY <2>2, UpdateKVType
  <2>5. ASSUME m.remove <= m.previous,
               m.nReserve = 0 => m.size = 0,
               m.nReserve = 1 => m.size >= 1 /\ ~Quantized
        PROVE  Effective(m) \in Nat
    BY <2>5 DEF Effective, ReverseSize, Meta
  <2>6. d.max \in Nat
    BY <2>2 DEF Cache
  <2>7. QED
    BY <1>0, <1>2, <2>1, <2>3, <2>4, <2>5, <2>6
<1>3. QED
  BY <1>1, <1>2

-----------------------------------------------------------------------------
(* The inductive invariant.                                                *)

Inv == TypeOK /\ CountersAgree

(* A cleared cache has the type of a cache.                                *)
LEMMA EmptyCacheType == EmptyCache \in Cache
<1>1. [ p \in Pos |-> Blank ] \in [Pos -> Token \cup {Blank}]
  OBVIOUS
<1>2. QED
  BY <1>1 DEF EmptyCache, Cache

(* No row and no plan at the start.                                        *)
LEMMA InitInv ==
  ASSUME Init
  PROVE  Inv
<1>1. TypeOK
  <2>1. layer \in [Layers -> Cache]
    BY EmptyCacheType DEF Init
  <2>2. meta \in Meta
    BY DEF Init, EmptyMeta, Meta
  <2>3. fwd \in ForwardType
    BY EmptySeq, HistoryAssumption DEF Init, NoForward, ForwardType
  <2>4. torn \in BOOLEAN
    BY DEF Init
  <2>5. allSeqLen \in Int /\ status \in {"RUNNING", "INTERNAL_ERROR"}
    BY DEF Init
  <2>6. QED
    BY <2>1, <2>2, <2>3, <2>4, <2>5 DEF TypeOK
<1>2. PlanOK /\ PositionsInv
  BY DEF Init, EmptyMeta, PlanOK, PositionsInv, Effective, ReverseSize
<1>3. ForwardOK
  BY DEF Init, ForwardOK, Forwarding
<1>4. LayerLengths /\ WritesInBounds
  <2>1. \A l \in Layers : layer[l].past = 0 /\ layer[l].max = 0
    BY DEF Init, EmptyCache
  <2>2. fwd.done = 0 /\ meta.previous = 0 /\ ~torn
    BY DEF Init, NoForward, EmptyMeta
  <2>3. QED
    BY <2>1, <2>2, HistoryAssumption DEF LayerLengths, WritesInBounds, Layers
<1>5. QED
  BY <1>1, <1>2, <1>3, <1>4 DEF Inv, CountersAgree

(* Under Supported a waiting kept tail is never overridden.                *)
LEMMA NoOverride ==
  ASSUME Supported, MayOverride, meta \in Meta
  PROVE  meta.nReserve = 0
BY DEF Supported, MayOverride, KeepPending, Meta

(* An erase plans to remove rows that exist.                               *)
LEMMA EraseHistoryInv ==
  ASSUME Supported, Inv,
         NEW begin \in 0 .. MaxLen, NEW last \in 0 .. MaxLen,
         EraseHistory(begin, last)
  PROVE  Inv'
<1> DEFINE end == IF last = 0 THEN meta.previous ELSE last
           erased == EraseRange(meta, begin, end)
<1>1. /\ ~Forwarding
      /\ end <= meta.previous
      /\ begin < end
      /\ MayErase(begin, end)
      /\ meta' = erased
      /\ allSeqLen' = meta.previous - erased.remove
                        + (IF end # meta.previous THEN erased.size ELSE 0)
      /\ UNCHANGED << layer, status, fwd, torn >>
  BY DEF EraseHistory
<1>2. /\ meta \in Meta
      /\ begin \in Nat /\ end \in Nat
      /\ meta.nReserve = 0 => meta.size = 0
  BY CacheAssumption DEF Inv, TypeOK, Meta, CountersAgree, PlanOK
<1> HIDE DEF end
<1>3. CASE end = meta.previous
  <2>1. meta.nReserve = 0
    BY <1>1, <1>2, <1>3, NoOverride DEF MayErase
  <2>2. erased = [ meta EXCEPT !.remove = meta.previous - begin ]
    BY <1>3 DEF EraseRange
  <2>3. /\ erased \in Meta
        /\ erased.remove <= erased.previous
        /\ erased.previous = meta.previous
        /\ erased.remove = meta.previous - begin
        /\ erased.nReserve = 0
        /\ erased.size = 0
    BY <1>1, <1>2, <1>3, <2>1, <2>2 DEF Meta
  <2>4. meta' = erased /\ allSeqLen' = begin /\ UNCHANGED << layer, status, fwd, torn >>
    BY <1>1, <1>2, <1>3, <2>3 DEF Meta
  <2> HIDE DEF erased
  <2>5. TypeOK'
    BY <1>2, <2>3, <2>4 DEF Inv, TypeOK
  <2>6. PlanOK' /\ ForwardOK' /\ WritesInBounds'
    BY <1>1, <2>3, <2>4
    DEF Inv, CountersAgree, PlanOK, ForwardOK, WritesInBounds, Forwarding
  <2>7. PositionsInv'
    BY <1>2, <2>3, <2>4 DEF PositionsInv, Effective, ReverseSize, Meta
  <2>8. LayerLengths'
    BY <1>1, <2>3, <2>4
    DEF Inv, CountersAgree, LayerLengths, Forwarding, NoForward
  <2>9. QED
    BY <2>5, <2>6, <2>7, <2>8 DEF Inv, CountersAgree
<1>4. CASE end # meta.previous
  <2>1. begin > 0 /\ ~Quantized
    BY <1>1, <1>4 DEF MayErase, Supported
  <2>2. erased = [ meta EXCEPT !.remove = meta.previous - begin,
                               !.nReserve = 1,
                               !.begin = end - begin,
                               !.size = meta.previous - end ]
    BY <1>4 DEF EraseRange
  <2>3. /\ erased \in Meta
        /\ erased.previous = meta.previous
        /\ erased.remove = meta.previous - begin
        /\ erased.nReserve = 1
        /\ erased.begin = end - begin
        /\ erased.size = meta.previous - end
    <3> DEFINE remove == meta.previous - begin
               offset == end - begin
               size == meta.previous - end
    <3>1. remove \in Nat /\ offset \in Nat /\ size \in Nat
      BY <1>1, <1>2 DEF Meta
    <3> HIDE DEF erased, remove, offset, size
    <3>2. erased = [ meta EXCEPT !.remove = remove, !.nReserve = 1,
                                 !.begin = offset, !.size = size ]
      BY <2>2 DEF remove, offset, size
    <3>3. erased \in Meta
      BY <1>2, <3>1, <3>2 DEF Meta
    <3>4. /\ erased.previous = meta.previous
          /\ erased.remove = remove
          /\ erased.nReserve = 1
          /\ erased.begin = offset
          /\ erased.size = size
      BY <1>2, <3>2 DEF Meta
    <3>5. QED
      BY <3>3, <3>4 DEF remove, offset, size
  <2>4. /\ meta' = erased
        /\ allSeqLen' = begin + (meta.previous - end)
        /\ UNCHANGED << layer, status, fwd, torn >>
    <3>1. allSeqLen' = meta.previous - erased.remove + erased.size
      BY <1>1, <1>4
    <3>2. meta.previous \in Nat
      BY <1>2 DEF Meta
    <3> HIDE DEF erased
    <3>3. allSeqLen' = begin + (meta.previous - end)
      BY <1>2, <2>3, <3>1, <3>2
    <3>4. QED
      BY <1>1, <3>3
  <2> HIDE DEF erased
  <2>5. TypeOK'
    BY <1>2, <2>3, <2>4 DEF Inv, TypeOK, Meta
  <2>6. PlanOK'
    BY <1>1, <1>2, <1>4, <2>1, <2>3, <2>4 DEF PlanOK, Meta
  <2>7. ForwardOK' /\ WritesInBounds'
    BY <1>1, <2>4 DEF Inv, CountersAgree, ForwardOK, WritesInBounds, Forwarding
  <2>8. PositionsInv'
    BY <1>1, <1>2, <1>4, <2>3, <2>4 DEF PositionsInv, Effective, ReverseSize, Meta
  <2>9. LayerLengths'
    BY <1>1, <2>3, <2>4
    DEF Inv, CountersAgree, LayerLengths, Forwarding, NoForward
  <2>10. QED
    BY <2>5, <2>6, <2>7, <2>8, <2>9 DEF Inv, CountersAgree
<1>5. QED
  BY <1>3, <1>4

(* Dropping everything, common to reset() and generate_init().             *)
LEMMA RemoveAllInv ==
  ASSUME Supported, Inv, ~Forwarding, MayOverride,
         meta' = RemoveAll(meta), allSeqLen' = 0,
         status' \in {"RUNNING", "INTERNAL_ERROR"},
         UNCHANGED << layer, fwd, torn >>
  PROVE  Inv'
<1>1. meta \in Meta /\ meta.nReserve = 0 /\ meta.size = 0
  BY NoOverride DEF Inv, TypeOK, CountersAgree, PlanOK
<1>2. /\ meta' \in Meta
      /\ meta'.previous = meta.previous
      /\ meta'.remove = meta.previous
      /\ meta'.nReserve = 0
      /\ meta'.size = 0
  BY <1>1 DEF RemoveAll, Meta
<1>3. TypeOK'
  BY <1>2 DEF Inv, TypeOK
<1>4. PlanOK' /\ ForwardOK' /\ WritesInBounds'
  BY <1>2 DEF Inv, CountersAgree, PlanOK, ForwardOK, WritesInBounds, Forwarding, Meta
<1>5. PositionsInv'
  BY <1>2 DEF PositionsInv, Effective, ReverseSize, Meta
<1>6. LayerLengths'
  BY <1>2 DEF Inv, CountersAgree, LayerLengths, Forwarding, NoForward
<1>7. QED
  BY <1>3, <1>4, <1>5, <1>6 DEF Inv, CountersAgree

(* A reset plans to remove every row.                                      *)
LEMMA ResetInv ==
  ASSUME Supported, Inv, Reset
  PROVE  Inv'
BY RemoveAllInv DEF Reset, Inv, TypeOK

(* A response without reuse plans to remove every row.                     *)
LEMMA GenerateInitInv ==
  ASSUME Supported, Inv, NEW reuseKV \in BOOLEAN, GenerateInit(reuseKV)
  PROVE  Inv'
<1>1. CASE UNCHANGED << meta, allSeqLen >>
  <2>1. status' = "RUNNING" /\ UNCHANGED << meta, allSeqLen, layer, fwd, torn >>
    BY <1>1 DEF GenerateInit
  <2>2. QED
    BY <2>1
    DEF Inv, TypeOK, CountersAgree, PlanOK, ForwardOK, LayerLengths, Cleared,
        PositionsInv, WritesInBounds, Forwarding, KeepPending
<1>2. CASE MayOverride /\ meta' = RemoveAll(meta) /\ allSeqLen' = 0
  BY <1>2, RemoveAllInv DEF GenerateInit
<1>3. QED
  BY <1>1, <1>2 DEF GenerateInit

(* A forward starts from a plan that fits every layer.                     *)
LEMMA BeginForwardInv ==
  ASSUME Supported, Inv, NEW toks \in Inputs, NEW pad \in 0 .. MaxPad,
         BeginForward(toks, pad)
  PROVE  Inv'
<1> DEFINE n == Len(toks)
           started == [ toks |-> toks, seqLen |-> n + pad, done |-> 0 ]
<1>1. toks \in Seq(Token) /\ n \in Nat \ {0} /\ toks # << >>
  BY InputsAreSequences
<1>2. /\ ~Forwarding
      /\ MayForward
      /\ meta' = [ meta EXCEPT !.add = n ]
      /\ fwd' = started
      /\ UNCHANGED << layer, allSeqLen, status, torn >>
  BY DEF BeginForward
<1>3. /\ meta \in Meta
      /\ pad \in Nat
      /\ fwd.done = 0
  BY <1>2, HistoryAssumption DEF Inv, TypeOK, Forwarding, NoForward
<1> HIDE DEF n
<1>4. /\ meta' \in Meta
      /\ meta'.add = n
      /\ meta'.previous = meta.previous
      /\ meta'.remove = meta.remove
      /\ meta'.nReserve = meta.nReserve
      /\ meta'.begin = meta.begin
      /\ meta'.size = meta.size
  BY <1>1, <1>2, <1>3 DEF Meta
<1>5. started \in ForwardType /\ started # NoForward
  BY <1>1, <1>3, HistoryAssumption DEF ForwardType, NoForward
<1>6. TypeOK'
  BY <1>2, <1>4, <1>5 DEF Inv, TypeOK
<1>7. PlanOK' /\ PositionsInv' /\ WritesInBounds'
  BY <1>2, <1>4
  DEF Inv, CountersAgree, PlanOK, PositionsInv, WritesInBounds, Effective,
      ReverseSize
<1>8. ForwardOK'
  <2>1. n <= n + pad
    BY <1>1, <1>3
  <2>2. fwd'.toks = toks /\ fwd'.seqLen = n + pad
    BY <1>2
  <2>3. QED
    BY <1>1, <1>4, <2>1, <2>2 DEF ForwardOK, n
<1>9. LayerLengths'
  <2>1. fwd'.done = 0
    BY <1>2
  <2>2. torn => Cleared
    BY <1>2 DEF MayForward, Supported
  <2>3. Cleared' <=> Cleared
    BY <1>2, <1>4 DEF Cleared, KeepPending
  <2>4. \A l \in fwd.done + 1 .. NumLayers : ~torn => layer[l].past = meta.previous
    BY DEF Inv, CountersAgree, LayerLengths
  <2>5. QED
    BY <1>2, <1>3, <1>4, <2>1, <2>2, <2>3, <2>4 DEF LayerLengths
<1>10. QED
  BY <1>6, <1>7, <1>8, <1>9 DEF Inv, CountersAgree

(* The layer that runs next, and what it is given.                         *)
LEMMA LayerStepInv ==
  ASSUME Supported, Inv, LayerStep
  PROVE  Inv'
<1> DEFINE k == fwd.done + 1
           new == AttentionUpdate(layer[k], meta, fwd.toks, fwd.seqLen)
<1>1. /\ Forwarding
      /\ k \in Layers
      /\ layer' = [ layer EXCEPT ![k] = new ]
      /\ fwd' = [ fwd EXCEPT !.done = k ]
      /\ torn' = (torn /\ ~(k = NumLayers /\ Cleared))
      /\ UNCHANGED << meta, allSeqLen, status >>
  BY DEF LayerStep
<1>2. /\ meta \in Meta
      /\ layer \in [ Layers -> Cache ]
      /\ fwd \in ForwardType
      /\ fwd.toks \in Seq(Token) /\ fwd.seqLen \in Nat /\ fwd.done \in 0 .. NumLayers
      /\ NumLayers \in Nat
  BY HistoryAssumption DEF Inv, TypeOK, ForwardType
<1>3. /\ meta.remove <= meta.previous
      /\ meta.nReserve = 0 => meta.size = 0
      /\ meta.nReserve = 1 => meta.size >= 1 /\ ~Quantized
      /\ meta.nReserve = 1 => meta.remove < meta.previous
      /\ meta.add = Len(fwd.toks)
      /\ Len(fwd.toks) <= fwd.seqLen
      /\ fwd.toks # << >>
  BY <1>1 DEF Inv, CountersAgree, PlanOK, ForwardOK
<1>4. new \in Cache
  BY <1>1, <1>2, AttentionUpdateFacts
<1>5. new.past = Effective(meta) + meta.add /\ new.past \in 0 .. new.max
  <2>1. layer[k] \in Cache
    BY <1>1, <1>2
  <2>2. CASE meta.previous = meta.remove
    <3>1. meta.nReserve = 0
      BY <1>2, <1>3, <2>2 DEF Meta
    <3>2. QED
      BY <1>2, <1>3, <2>1, <2>2, <3>1, AttentionUpdateFacts
  <2>3. CASE meta.previous # meta.remove
    <3>1. ~torn
      BY <1>1, <2>3 DEF Inv, CountersAgree, LayerLengths, Cleared
    <3>2. layer[k].past = meta.previous
      BY <1>1, <1>2, <3>1 DEF Inv, CountersAgree, LayerLengths, Layers
    <3>3. QED
      BY <1>2, <1>3, <2>1, <2>3, <3>2, AttentionUpdateFacts
  <2>4. QED
    BY <2>2, <2>3
<1>6. /\ fwd' \in ForwardType
      /\ fwd'.done = k
      /\ fwd'.toks = fwd.toks
      /\ fwd'.seqLen = fwd.seqLen
  BY <1>1, <1>2 DEF ForwardType, Layers
<1> HIDE DEF new
<1>7. /\ layer' \in [ Layers -> Cache ]
      /\ layer'[k] = new
      /\ \A l \in Layers : l # k => layer'[l] = layer[l]
  BY <1>1, <1>2, <1>4
<1>8. TypeOK'
  <2>1. torn' \in BOOLEAN
    BY <1>1
  <2>2. QED
    BY <1>1, <1>6, <1>7, <2>1 DEF Inv, TypeOK
<1>9. PlanOK'
  BY <1>1 DEF Inv, CountersAgree, PlanOK
<1>10. ForwardOK'
  BY <1>1, <1>3, <1>6 DEF ForwardOK
<1>11. WritesInBounds'
  BY <1>5, <1>7 DEF Inv, CountersAgree, WritesInBounds
<1>12. Cleared' <=> Cleared
  BY <1>1 DEF Cleared, KeepPending
<1>13. torn => Cleared
  BY <1>1 DEF Inv, CountersAgree, LayerLengths
<1>14. PositionsInv'
  <2>1. Cleared => Effective(meta) = 0 /\ allSeqLen = 0
    BY <1>2 DEF Cleared, KeepPending, Effective, ReverseSize, Meta
  <2>2. QED
    BY <1>1, <1>13, <2>1 DEF Inv, CountersAgree, PositionsInv
<1>15. LayerLengths'
  <2>1. \A l \in 1 .. k : layer'[l].past = Effective(meta) + meta.add
    BY <1>1, <1>2, <1>5, <1>7 DEF Inv, CountersAgree, LayerLengths, Layers
  <2>2. ~torn' => \A l \in k + 1 .. NumLayers : layer'[l].past = meta.previous
    <3>1. CASE torn
      <4>1. ~torn' => k = NumLayers
        BY <1>1, <1>13, <3>1
      <4>2. k = NumLayers => k + 1 .. NumLayers = {}
        BY <1>2
      <4>3. QED
        BY <4>1, <4>2
    <3>2. CASE ~torn
      BY <1>1, <1>2, <1>7, <3>2 DEF Inv, CountersAgree, LayerLengths, Layers
    <3>3. QED
      BY <3>1, <3>2
  <2>3. torn' => Cleared'
    BY <1>1, <1>12, <1>13
  <2>4. QED
    BY <1>1, <1>6, <2>1, <2>2, <2>3 DEF LayerLengths
<1>16. QED
  BY <1>8, <1>9, <1>10, <1>11, <1>14, <1>15 DEF Inv, CountersAgree

(* sync(), and the removal of rejected drafts that may follow it.          *)
LEMMA SyncedPlan ==
  ASSUME NEW m \in Meta, NEW rejected \in Nat,
         Effective(m) \in Nat,
         m.nReserve = 0 => m.size = 0,
         m.nReserve = 1 => m.size >= 1
  PROVE  /\ [ Sync(m) EXCEPT !.remove = rejected ] \in Meta
         /\ [ Sync(m) EXCEPT !.remove = rejected ].previous = Effective(m) + m.add
         /\ [ Sync(m) EXCEPT !.remove = rejected ].remove = rejected
         /\ [ Sync(m) EXCEPT !.remove = rejected ].add = 0
         /\ [ Sync(m) EXCEPT !.remove = rejected ].nReserve = 0
         /\ [ Sync(m) EXCEPT !.remove = rejected ].size = 0
<1> DEFINE synced == [ Sync(m) EXCEPT !.remove = rejected ]
           total == m.previous - m.remove + m.add
                      + (IF m.nReserve = 0 THEN 0 ELSE m.size)
<1>1. Effective(m) = m.previous - m.remove + m.size
  BY DEF Effective, ReverseSize, Meta
<1>2. total = Effective(m) + m.add /\ total \in Nat
  BY <1>1 DEF Meta
<1> HIDE DEF total
<1>3. Sync(m) = [ m EXCEPT !.previous = total,
                           !.remove = 0, !.add = 0,
                           !.nReserve = 0, !.begin = 0, !.size = 0 ]
  BY DEF Sync, total
<1>4. synced = [ m EXCEPT !.previous = total,
                          !.remove = rejected, !.add = 0,
                          !.nReserve = 0, !.begin = 0, !.size = 0 ]
  BY <1>3 DEF Meta
<1> HIDE DEF synced
<1>5. synced \in Meta
  BY <1>2, <1>4 DEF Meta
<1>6. /\ synced.previous = total
      /\ synced.remove = rejected
      /\ synced.add = 0
      /\ synced.nReserve = 0
      /\ synced.size = 0
  BY <1>2, <1>4 DEF Meta
<1>7. QED
  BY <1>2, <1>5, <1>6 DEF synced

(* sync() counts what the layers hold.                                     *)
LEMMA EndForwardInv ==
  ASSUME Supported, Inv, NEW accepted \in 1 .. MaxAdd, EndForward(accepted)
  PROVE  Inv'
<1> DEFINE n == Len(fwd.toks)
           synced == [ Sync(meta) EXCEPT !.remove = n - accepted ]
<1>1. /\ Forwarding
      /\ fwd.done = NumLayers
      /\ accepted \in 1 .. n
      /\ meta' = synced
      /\ allSeqLen' = allSeqLen + accepted
      /\ fwd' = NoForward
      /\ UNCHANGED << layer, status, torn >>
  BY DEF EndForward
<1>2. /\ meta \in Meta
      /\ n \in Nat
      /\ meta.add = n
      /\ meta.remove <= meta.previous
      /\ meta.nReserve = 0 => meta.size = 0
      /\ meta.nReserve = 1 => meta.size >= 1
  BY <1>1, LenProperties
  DEF Inv, TypeOK, ForwardType, CountersAgree, PlanOK, ForwardOK
<1>3. /\ accepted \in Nat /\ n - accepted \in Nat /\ n - accepted < n
  BY <1>1, <1>2
<1>4. Effective(meta) \in Nat /\ Effective(meta) = meta.previous - meta.remove + meta.size
  BY <1>2 DEF Effective, ReverseSize, Meta
<1> HIDE DEF n
<1>5. /\ synced \in Meta
      /\ synced.previous = Effective(meta) + n
      /\ synced.remove = n - accepted
      /\ synced.add = 0
      /\ synced.nReserve = 0
      /\ synced.size = 0
  BY <1>2, <1>3, <1>4, SyncedPlan
<1> HIDE DEF synced
<1>6. NoForward \in ForwardType
  BY EmptySeq, HistoryAssumption DEF NoForward, ForwardType
<1>7. TypeOK'
  BY <1>1, <1>3, <1>5, <1>6 DEF Inv, TypeOK
<1>8. PlanOK'
  BY <1>1, <1>2, <1>3, <1>4, <1>5 DEF PlanOK
<1>9. ForwardOK' /\ WritesInBounds'
  BY <1>1 DEF Inv, CountersAgree, ForwardOK, WritesInBounds, Forwarding
<1>10. Effective(meta)' = Effective(meta) + accepted
  BY <1>1, <1>2, <1>3, <1>4, <1>5 DEF Effective, ReverseSize
<1>11. PositionsInv'
  BY <1>1, <1>10 DEF Inv, CountersAgree, PositionsInv
<1>12. LayerLengths'
  <2>1. fwd'.done = 0 /\ ~Forwarding'
    BY <1>1 DEF NoForward, Forwarding
  <2>2. \A l \in 1 .. NumLayers : layer[l].past = Effective(meta) + n
    BY <1>1, <1>2 DEF Inv, CountersAgree, LayerLengths
  <2>3. QED
    BY <1>1, <1>5, <2>1, <2>2 DEF LayerLengths
<1>13. QED
  BY <1>7, <1>8, <1>9, <1>11, <1>12 DEF Inv, CountersAgree

(* A forward that fails may leave layers of two lengths.                   *)
LEMMA FailForwardInv ==
  ASSUME Supported, Inv, FailForward
  PROVE  Inv'
<1>1. /\ Forwarding
      /\ status' = "INTERNAL_ERROR"
      /\ torn' = (torn \/ fwd.done > 0)
      /\ \/ allSeqLen' = allSeqLen
         \/ fwd.done = NumLayers /\ allSeqLen' = allSeqLen + meta.add
      /\ fwd' = NoForward
      /\ UNCHANGED << meta, layer >>
  BY DEF FailForward
<1>2. meta \in Meta /\ fwd.done \in 0 .. NumLayers /\ NumLayers \in Nat \ {0}
  BY HistoryAssumption DEF Inv, TypeOK, ForwardType
<1>3. TypeOK'
  <2>1. NoForward \in ForwardType
    BY EmptySeq, HistoryAssumption DEF NoForward, ForwardType
  <2>2. torn' \in BOOLEAN
    BY <1>1
  <2>3. allSeqLen' \in Int
    BY <1>1, <1>2 DEF Inv, TypeOK, Meta
  <2>4. QED
    BY <1>1, <2>1, <2>2, <2>3 DEF Inv, TypeOK
<1>4. PlanOK' /\ ForwardOK' /\ WritesInBounds'
  BY <1>1
  DEF Inv, CountersAgree, PlanOK, ForwardOK, WritesInBounds, Forwarding
<1>5. ~torn' => ~torn /\ fwd.done = 0 /\ allSeqLen' = allSeqLen
  <2>1. ~torn' => ~torn /\ ~(fwd.done > 0)
    BY <1>1
  <2>2. ~(fwd.done > 0) => fwd.done = 0 /\ fwd.done # NumLayers
    BY <1>2
  <2>3. QED
    BY <1>1, <2>1, <2>2
<1>6. PositionsInv'
  BY <1>1, <1>5 DEF Inv, CountersAgree, PositionsInv
<1>7. LayerLengths'
  <2>1. fwd'.done = 0 /\ ~Forwarding'
    BY <1>1 DEF NoForward, Forwarding
  <2>2. QED
    BY <1>1, <1>5, <2>1 DEF Inv, CountersAgree, LayerLengths
<1>8. QED
  BY <1>3, <1>4, <1>6, <1>7 DEF Inv, CountersAgree

(* A step that changes nothing.                                            *)
LEMMA StutterInv ==
  ASSUME Inv, UNCHANGED vars
  PROVE  Inv'
BY DEF Inv, TypeOK, CountersAgree, PlanOK, ForwardOK, LayerLengths, Cleared,
       PositionsInv, WritesInBounds, Forwarding, KeepPending, vars

-----------------------------------------------------------------------------
(* Type correctness and the agreement of lengths, plan and positions, for  *)
(* callers that respect Supported.                                         *)
THEOREM InvCorrect ==
  ASSUME Supported
  PROVE  Spec => []Inv
<1>1. Init => Inv
  BY InitInv
<1>2. Inv /\ [Next]_vars => Inv'
  <2> SUFFICES ASSUME Inv, [Next]_vars
               PROVE  Inv'
    OBVIOUS
  <2>1. ASSUME NEW begin \in 0 .. MaxLen, NEW last \in 0 .. MaxLen,
               EraseHistory(begin, last)
        PROVE  Inv'
    BY <2>1, EraseHistoryInv
  <2>2. CASE Reset
    BY <2>2, ResetInv
  <2>3. ASSUME NEW reuseKV \in BOOLEAN, GenerateInit(reuseKV)
        PROVE  Inv'
    BY <2>3, GenerateInitInv
  <2>4. ASSUME NEW toks \in Inputs, NEW pad \in 0 .. MaxPad,
               BeginForward(toks, pad)
        PROVE  Inv'
    BY <2>4, BeginForwardInv
  <2>5. CASE LayerStep
    BY <2>5, LayerStepInv
  <2>6. ASSUME NEW accepted \in 1 .. MaxAdd, EndForward(accepted)
        PROVE  Inv'
    BY <2>6, EndForwardInv
  <2>7. CASE FailForward
    BY <2>7, FailForwardInv
  <2>8. CASE UNCHANGED vars
    BY <2>8, StutterInv
  <2>9. QED
    BY <2>1, <2>2, <2>3, <2>4, <2>5, <2>6, <2>7, <2>8 DEF Next
<1>3. QED
  BY <1>1, <1>2, PTL DEF Spec

(* Every variable keeps its type: no operation on the history produces a   *)
(* negative count or a row that is not a token.                            *)
THEOREM TypeCorrect ==
  ASSUME Supported
  PROVE  Spec => []TypeOK
<1>1. Inv => TypeOK
  BY DEF Inv
<1>2. QED
  BY <1>1, InvCorrect, PTL

(* The assertion of CPUAttention::onExecute never fails.                   *)
THEOREM AssertionHolds ==
  ASSUME Supported
  PROVE  Spec => []AttentionAssert
<1>1. Inv => AttentionAssert
  <2> SUFFICES ASSUME Inv, Forwarding, fwd.done < NumLayers,
                      meta.previous # meta.remove
               PROVE  layer[fwd.done + 1].past = meta.previous
    BY DEF AttentionAssert
  <2>1. ~torn
    BY DEF Inv, CountersAgree, LayerLengths, Cleared
  <2>2. fwd.done + 1 \in fwd.done + 1 .. NumLayers
    BY HistoryAssumption DEF Inv, TypeOK, ForwardType
  <2>3. QED
    BY <2>1, <2>2 DEF Inv, CountersAgree, LayerLengths
<1>2. QED
  BY <1>1, InvCorrect, PTL

(* The next position is the number of rows the next token attends to.      *)
THEOREM PositionsCorrect ==
  ASSUME Supported
  PROVE  Spec => []PositionsContinue
<1>1. Inv => PositionsContinue
  BY DEF Inv, CountersAgree, PositionsInv, PositionsContinue
<1>2. QED
  BY <1>1, InvCorrect, PTL

(* No layer ever uses a row outside its buffer.                            *)
THEOREM BoundsCorrect ==
  ASSUME Supported
  PROVE  Spec => []WritesInBounds
<1>1. Inv => WritesInBounds
  BY DEF Inv, CountersAgree
<1>2. QED
  BY <1>1, InvCorrect, PTL

-----------------------------------------------------------------------------
(* What the layers hold: they agree, also while a forward is between two   *)
(* of them.                                                                *)

(* The parts of TypeOK that Lockstep rests on.                             *)
Shape ==
  /\ meta \in Meta
  /\ layer \in [ Layers -> Cache ]
  /\ fwd \in ForwardType
  /\ torn \in BOOLEAN

(* A plan that keeps nothing makes the same cache of every other.          *)
LEMMA RebuildForgets ==
  ASSUME NEW c, NEW d, NEW m, NEW toks, NEW seqLen, m.previous = m.remove
  PROVE  AttentionUpdate(c, m, toks, seqLen) = AttentionUpdate(d, m, toks, seqLen)
BY DEF AttentionUpdate, OnClear

(* Between forwards a change of the plan does not concern the layers.      *)
LEMMA IdleLockstep ==
  ASSUME Lockstep, ~Forwarding, UNCHANGED << layer, torn >>,
         fwd'.done = 0, torn' => (Forwarding' => meta'.remove = meta'.previous)
  PROVE  Lockstep'
<1>1. fwd.done = 0
  BY DEF Forwarding, NoForward
<1>2. QED
  BY <1>1 DEF Lockstep

(* A layer that runs joins those that have run.                            *)
LEMMA LayerStepLockstep ==
  ASSUME Shape, Lockstep, LayerStep
  PROVE  Lockstep'
<1> DEFINE d == fwd.done
           k == d + 1
           Outcome(l) == AttentionUpdate(layer[l], meta, fwd.toks, fwd.seqLen)
<1>1. /\ Forwarding
      /\ k \in Layers
      /\ layer' = [ layer EXCEPT ![k] = Outcome(k) ]
      /\ fwd' = [ fwd EXCEPT !.done = k ]
      /\ torn' = (torn /\ ~(k = NumLayers /\ Cleared))
      /\ UNCHANGED meta
  BY DEF LayerStep
<1>2. NumLayers \in Nat /\ d \in 0 .. NumLayers
  BY HistoryAssumption DEF Shape, ForwardType
<1>3. fwd'.done = k /\ fwd'.toks = fwd.toks /\ fwd'.seqLen = fwd.seqLen
  BY <1>1 DEF Shape, ForwardType
<1>4. /\ layer'[k] = Outcome(k)
      /\ \A l \in Layers : l # k => layer'[l] = layer[l]
  BY <1>1 DEF Shape
<1>5. torn => meta.previous = meta.remove
  BY <1>1 DEF Lockstep
<1>6. \A l \in k .. NumLayers : Outcome(l) = Outcome(k)
  <2>1. CASE torn
    BY <1>5, <2>1, RebuildForgets
  <2>2. CASE ~torn
    <3>1. \A l \in k .. NumLayers : layer[l] = layer[k]
      BY <1>1, <1>2, <2>2 DEF Lockstep, Layers
    <3>2. QED
      BY <3>1
  <2>3. QED
    BY <2>1, <2>2
<1>7. \A j \in 1 .. k : layer'[j] = Outcome(k)
  <2>1. \A j \in 1 .. d : layer[j] = Outcome(k)
    BY <1>1, <1>2 DEF Lockstep, Layers
  <2>2. \A j \in 1 .. d : j \in Layers /\ j # k
    BY <1>2 DEF Layers
  <2>3. \A j \in 1 .. k : j \in 1 .. d \/ j = k
    BY <1>2
  <2> HIDE DEF Outcome, k, d
  <2>4. QED
    BY <1>4, <2>1, <2>2, <2>3
<1>8. \A l \in k + 1 .. NumLayers : layer'[l] = layer[l] /\ l \in k .. NumLayers
  <2>1. \A l \in k + 1 .. NumLayers : l \in Layers /\ l # k /\ l \in k .. NumLayers
    BY <1>2 DEF Layers
  <2>2. QED
    BY <1>4, <2>1
<1> HIDE DEF Outcome
<1>9. \A i, j \in 1 .. k : layer'[i] = layer'[j]
  BY <1>7
<1>10. ~torn' => \A i, j \in k + 1 .. NumLayers : layer'[i] = layer'[j]
  <2>1. CASE torn
    <3>1. ~torn' => k = NumLayers
      BY <1>1, <2>1
    <3>2. k = NumLayers => k + 1 .. NumLayers = {}
      BY <1>2
    <3>3. QED
      BY <3>1, <3>2
  <2>2. CASE ~torn
    <3>1. \A i, j \in k .. NumLayers : layer[i] = layer[j]
      BY <2>2 DEF Lockstep
    <3>2. QED
      BY <1>8, <3>1
  <2>3. QED
    BY <2>1, <2>2
<1>11. \A i \in 1 .. k, j \in k + 1 .. NumLayers :
         layer'[i] = AttentionUpdate(layer'[j], meta', fwd'.toks, fwd'.seqLen)
  <2>1. \A j \in k + 1 .. NumLayers :
          AttentionUpdate(layer'[j], meta', fwd'.toks, fwd'.seqLen) = Outcome(k)
    <3>1. \A j \in k + 1 .. NumLayers : Outcome(j) = Outcome(k)
      BY <1>6, <1>8
    <3>2. QED
      BY <1>1, <1>3, <1>8, <3>1 DEF Outcome
  <2>2. QED
    BY <1>7, <2>1
<1>12. torn' => meta'.remove = meta'.previous
  BY <1>1, <1>5
<1>13. QED
  BY <1>3, <1>9, <1>10, <1>11, <1>12 DEF Lockstep

(* A forward that ends, completed or torn, leaves lockstep behind.         *)
LEMMA EndLockstep ==
  ASSUME Shape, Lockstep, Forwarding, UNCHANGED layer, fwd' = NoForward,
         torn' \in BOOLEAN,
         \/ fwd.done = NumLayers /\ torn' = torn
         \/ torn' = (torn \/ fwd.done > 0)
  PROVE  Lockstep'
<1>1. fwd'.done = 0 /\ ~Forwarding'
  BY DEF NoForward, Forwarding
<1>2. NumLayers \in Nat /\ fwd.done \in 0 .. NumLayers
  BY HistoryAssumption DEF Shape, ForwardType
<1>3. ~torn' => \A k, l \in 1 .. NumLayers : layer[k] = layer[l]
  <2>1. CASE fwd.done = NumLayers
    BY <2>1 DEF Lockstep
  <2>2. CASE fwd.done # NumLayers
    <3>1. ~torn' => ~torn /\ fwd.done = 0
      BY <1>2, <2>2
    <3>2. QED
      BY <3>1 DEF Lockstep
  <2>3. QED
    BY <2>1, <2>2
<1>4. QED
  BY <1>1, <1>3 DEF Lockstep

(* Given its types, Lockstep is inductive when callers clear after a torn  *)
(* forward; it needs no restriction on erases.                             *)
LEMMA LockstepStep ==
  ASSUME "retry" \notin Allowed, Shape, Lockstep, [Next]_vars
  PROVE  Lockstep'
<1>1. ASSUME NEW begin \in 0 .. MaxLen, NEW last \in 0 .. MaxLen,
             EraseHistory(begin, last)
      PROVE  Lockstep'
  <2>1. ~Forwarding /\ UNCHANGED << layer, fwd, torn >>
    BY <1>1 DEF EraseHistory
  <2>2. QED
    BY <2>1, IdleLockstep DEF Forwarding, NoForward
<1>2. CASE Reset
  <2>1. ~Forwarding /\ UNCHANGED << layer, fwd, torn >>
    BY <1>2 DEF Reset
  <2>2. QED
    BY <2>1, IdleLockstep DEF Forwarding, NoForward
<1>3. ASSUME NEW reuseKV \in BOOLEAN, GenerateInit(reuseKV)
      PROVE  Lockstep'
  <2>1. ~Forwarding /\ UNCHANGED << layer, fwd, torn >>
    BY <1>3 DEF GenerateInit
  <2>2. QED
    BY <2>1, IdleLockstep DEF Forwarding, NoForward
<1>4. ASSUME NEW toks \in Inputs, NEW pad \in 0 .. MaxPad,
             BeginForward(toks, pad)
      PROVE  Lockstep'
  <2>1. /\ ~Forwarding
        /\ torn => Cleared
        /\ meta' = [ meta EXCEPT !.add = Len(toks) ]
        /\ fwd'.done = 0
        /\ UNCHANGED << layer, torn >>
    BY <1>4 DEF BeginForward, MayForward
  <2>2. torn' => meta'.remove = meta'.previous
    BY <2>1 DEF Cleared, Shape, Meta
  <2>3. QED
    BY <2>1, <2>2, IdleLockstep
<1>5. CASE LayerStep
  BY <1>5, LayerStepLockstep
<1>6. ASSUME NEW accepted \in 1 .. MaxAdd, EndForward(accepted)
      PROVE  Lockstep'
  <2>1. /\ Forwarding /\ fwd.done = NumLayers /\ fwd' = NoForward
        /\ UNCHANGED << layer, torn >>
    BY <1>6 DEF EndForward
  <2>2. QED
    BY <2>1, EndLockstep DEF Shape
<1>7. CASE FailForward
  <2>1. /\ Forwarding /\ fwd' = NoForward /\ UNCHANGED layer
        /\ torn' = (torn \/ fwd.done > 0)
    BY <1>7 DEF FailForward
  <2>2. torn' \in BOOLEAN
    BY <2>1
  <2>3. QED
    BY <2>1, <2>2, EndLockstep
<1>8. CASE UNCHANGED vars
  BY <1>8 DEF vars, Lockstep, Forwarding
<1>9. QED
  BY <1>1, <1>2, <1>3, <1>4, <1>5, <1>6, <1>7, <1>8 DEF Next

(* Empty caches are equal.                                                 *)
LEMMA LockstepInit ==
  ASSUME Init
  PROVE  Lockstep
<1>1. fwd.done = 0 /\ ~Forwarding
  BY DEF Init, NoForward, Forwarding
<1>2. \A l \in 1 .. NumLayers : layer[l] = EmptyCache
  BY DEF Init, Layers
<1>3. QED
  BY <1>1, <1>2 DEF Lockstep

(* Between forwards lockstep is the agreement of the layers.               *)
LEMMA LockstepAgrees ==
  ASSUME Shape, Lockstep
  PROVE  LayersAgree
<1> SUFFICES ASSUME ~Forwarding, ~torn, NEW l \in Layers
             PROVE  Rows(layer[l]) = Rows(layer[1])
  BY DEF LayersAgree
<1>1. fwd.done = 0
  BY DEF Forwarding, NoForward
<1>2. 1 \in 1 .. NumLayers
  BY HistoryAssumption
<1>3. layer[l] = layer[1]
  BY <1>1, <1>2 DEF Lockstep, Layers
<1>4. QED
  BY <1>3

(* Lockstep of the layers, for callers that respect Supported.             *)
THEOREM LockstepCorrect ==
  ASSUME Supported
  PROVE  Spec => []Lockstep
<1>1. "retry" \notin Allowed
  BY DEF Supported
<1>2. TypeOK => Shape
  BY DEF TypeOK, Shape
<1>3. Init => Lockstep
  BY LockstepInit
<1>4. TypeOK /\ Lockstep /\ [Next]_vars => Lockstep'
  BY <1>1, <1>2, LockstepStep
<1>5. Spec => []TypeOK
  BY TypeCorrect
<1>6. QED
  BY <1>3, <1>4, <1>5, PTL DEF Spec

(* Between forwards all layers hold the same rows in the same order.       *)
THEOREM LayersCorrect ==
  ASSUME Supported
  PROVE  Spec => []LayersAgree
<1>1. TypeOK /\ Lockstep => LayersAgree
  BY LockstepAgrees DEF TypeOK, Shape
<1>2. QED
  BY <1>1, LockstepCorrect, TypeCorrect, PTL

-----------------------------------------------------------------------------
(* KVHistory implements Conversation: what a forward attends to is what    *)
(* was forwarded before, minus what was erased.                            *)

Row == Token \cup {Blank}

(* Rows of one layer.                                                      *)

(* What a layer holds is a sequence of rows.                               *)
LEMMA RowsAreSequences ==
  ASSUME NEW c \in Cache, c.past \in 0 .. MaxLen
  PROVE  /\ Rows(c) \in Seq(Row)
         /\ Len(Rows(c)) = c.past
         /\ \A i \in 1 .. c.past : Rows(c)[i] = c.cells[i - 1]
<1>1. c.past \in Nat /\ MaxLen \in Nat
  BY CacheAssumption
<1>2. \A i \in 1 .. c.past : i - 1 \in Pos
  BY <1>1 DEF Pos
<1>3. \A i \in 1 .. c.past : c.cells[i - 1] \in Row
  BY <1>2 DEF Cache, Row
<1>4. Rows(c) \in [1 .. c.past -> Row]
  BY <1>3 DEF Rows
<1>5. Rows(c) \in Seq(Row)
  BY <1>1, <1>4, SeqDef
<1>6. Len(Rows(c)) = c.past
  BY <1>1, <1>4, <1>5, LenProperties
<1>7. QED
  BY <1>5, <1>6 DEF Rows

(* The tokens that survive a plan.                                         *)
LEMMA SurvivorsAre ==
  ASSUME NEW S, NEW rows \in Seq(S), meta \in Meta, PlanOK,
         Len(rows) = meta.previous
  PROVE  /\ Survivors(rows) \in Seq(S)
         /\ Len(Survivors(rows)) = Effective(meta)
         /\ Effective(meta) \in Nat
         /\ \A i \in 1 .. Effective(meta) :
              Survivors(rows)[i] = IF i <= meta.previous - meta.remove
                                   THEN rows[i]
                                   ELSE rows[i + meta.begin]
<1> DEFINE start == meta.previous - meta.remove
           from == start + meta.begin + 1
           to == start + meta.begin + meta.size
           head == SubSeq(rows, 1, start)
           tail == SubSeq(rows, from, to)
<1>1. /\ start \in Nat /\ from \in Nat /\ to \in Nat
      /\ meta.begin \in Nat /\ meta.size \in Nat
      /\ start <= meta.previous
      /\ meta.size # 0 => to = meta.previous
      /\ to - from + 1 = meta.size
      /\ Effective(meta) = start + meta.size
  <2>1. /\ meta.previous \in Nat /\ meta.remove \in Nat
        /\ meta.begin \in Nat /\ meta.size \in Nat
        /\ meta.nReserve \in {0, 1}
    BY DEF Meta
  <2>2. /\ meta.remove <= meta.previous
        /\ meta.size # 0 => meta.begin + meta.size = meta.remove
        /\ meta.nReserve = 0 => meta.size = 0
        /\ meta.nReserve = 1 => meta.size >= 1
    BY <2>1 DEF PlanOK
  <2>3. ReverseSize(meta) = meta.size
    BY <2>1, <2>2 DEF ReverseSize
  <2>4. start \in Nat /\ start <= meta.previous
    BY <2>1, <2>2
  <2>5. Effective(meta) = start + meta.size
    BY <2>3 DEF Effective
  <2>6. meta.size # 0 => to = meta.previous
    BY <2>1, <2>2
  <2> HIDE DEF start
  <2>7. from \in Nat /\ to \in Nat /\ to - from + 1 = meta.size
    BY <2>1, <2>4, SMTT(30)
  <2>8. QED
    BY <2>1, <2>4, <2>5, <2>6, <2>7
<1>2. \A i \in 1 .. meta.previous : rows[i] \in S
  BY ElementOfSeq
<1> HIDE DEF start, from, to
<1>3. /\ head \in Seq(S)
      /\ Len(head) = start
      /\ \A i \in 1 .. start : head[i] = rows[i]
  <2>1. \A i \in 1 .. start : rows[i] \in S
    BY <1>1, <1>2 DEF Meta
  <2>2. /\ head \in Seq(S)
        /\ Len(head) = IF 1 <= start THEN start - 1 + 1 ELSE 0
        /\ \A i \in 1 .. start - 1 + 1 : head[i] = rows[1 + i - 1]
    BY <1>1, <2>1, SubSeqProperties
  <2>3. QED
    BY <1>1, <2>2
<1>4. /\ tail \in Seq(S)
      /\ Len(tail) = meta.size
      /\ \A i \in 1 .. meta.size : tail[i] = rows[start + meta.begin + i]
  <2>1. \A i \in from .. to : rows[i] \in S
    BY <1>1, <1>2, SMTT(30) DEF Meta, from
  <2>2. /\ tail \in Seq(S)
        /\ Len(tail) = IF from <= to THEN to - from + 1 ELSE 0
        /\ \A i \in 1 .. to - from + 1 : tail[i] = rows[from + i - 1]
    BY <1>1, <2>1, SubSeqProperties
  <2>3. \A i \in 1 .. meta.size : from + i - 1 = start + meta.begin + i
    BY <1>1 DEF from
  <2>4. QED
    BY <1>1, <2>2, <2>3
<1>5. Survivors(rows) = head \o tail
  BY DEF Survivors, start, from, to
<1> HIDE DEF head, tail
<1>6. /\ head \o tail \in Seq(S)
      /\ Len(head \o tail) = start + meta.size
      /\ \A i \in 1 .. start + meta.size :
           (head \o tail)[i] = IF i <= start THEN head[i] ELSE tail[i - start]
  <2>1. /\ head \o tail \in Seq(S)
        /\ Len(head \o tail) = Len(head) + Len(tail)
        /\ \A i \in 1 .. Len(head) + Len(tail) :
             (head \o tail)[i] = IF i <= Len(head) THEN head[i] ELSE tail[i - Len(head)]
    BY <1>3, <1>4, ConcatProperties
  <2>2. QED
    BY <1>3, <1>4, <2>1
<1>7. ASSUME NEW i \in 1 .. Effective(meta)
      PROVE  (head \o tail)[i] = IF i <= start THEN rows[i] ELSE rows[i + meta.begin]
  <2>1. CASE i <= start
    BY <1>1, <1>3, <1>6, <2>1
  <2>2. CASE ~(i <= start)
    <3>1. i - start \in 1 .. meta.size /\ start + meta.begin + (i - start) = i + meta.begin
      BY <1>1, <2>2
    <3>2. QED
      BY <1>1, <1>4, <1>6, <2>2, <3>1
  <2>3. QED
    BY <2>1, <2>2
<1>8. QED
  BY <1>1, <1>5, <1>6, <1>7 DEF start

(* onUpdateKV() appends.                                                   *)
LEMMA UpdateAppends ==
  ASSUME NEW c \in Cache, NEW toks \in Seq(Token),
         c.past \in Nat, c.past + Len(toks) <= MaxLen
  PROVE  Rows(OnUpdateKV(c, toks)) = Rows(c) \o toks
<1> DEFINE d == OnUpdateKV(c, toks)
           n == Len(toks)
<1>1. n \in Nat /\ MaxLen \in Nat
  BY LenProperties, CacheAssumption
<1>2. d \in Cache /\ d.past = c.past + n
  BY UpdateKVType
<1>3. \A p \in Pos : d.cells[p] = IF p \in c.past .. c.past + n - 1
                                  THEN toks[p - c.past + 1]
                                  ELSE c.cells[p]
  BY DEF OnUpdateKV, Cache
<1> HIDE DEF d, n
<1>4. /\ Rows(d) \in Seq(Row)
      /\ Len(Rows(d)) = c.past + n
      /\ \A i \in 1 .. c.past + n : Rows(d)[i] = d.cells[i - 1]
  BY <1>1, <1>2, RowsAreSequences DEF n
<1>5. /\ Rows(c) \in Seq(Row)
      /\ Len(Rows(c)) = c.past
      /\ \A i \in 1 .. c.past : Rows(c)[i] = c.cells[i - 1]
  BY <1>1, RowsAreSequences, SMTT(30) DEF n
<1>6. toks \in Seq(Row)
  BY SeqMonotonic DEF Row
<1>7. /\ Rows(c) \o toks \in Seq(Row)
      /\ Len(Rows(c) \o toks) = c.past + n
      /\ \A i \in 1 .. c.past + n :
           (Rows(c) \o toks)[i] = IF i <= c.past THEN Rows(c)[i] ELSE toks[i - c.past]
  <2> DEFINE old == Rows(c)
  <2>1. old \in Seq(Row) /\ Len(old) = c.past
    BY <1>5
  <2> HIDE DEF old
  <2>2. /\ old \o toks \in Seq(Row)
        /\ Len(old \o toks) = Len(old) + Len(toks)
        /\ \A i \in 1 .. Len(old) + Len(toks) :
             (old \o toks)[i] = IF i <= Len(old) THEN old[i] ELSE toks[i - Len(old)]
    BY <1>6, <2>1, ConcatProperties
  <2>3. QED
    BY <2>1, <2>2 DEF old, n
<1>8. ASSUME NEW i \in 1 .. c.past + n
      PROVE  Rows(d)[i] = (Rows(c) \o toks)[i]
  <2>1. i - 1 \in Pos
    BY <1>1 DEF Pos, n
  <2>2. CASE i <= c.past
    <3>1. i - 1 \notin c.past .. c.past + n - 1 /\ i \in 1 .. c.past
      BY <1>1, <2>2
    <3>2. QED
      BY <1>3, <1>4, <1>5, <1>7, <2>1, <2>2, <3>1
  <2>3. CASE ~(i <= c.past)
    <3>1. i - 1 \in c.past .. c.past + n - 1 /\ i - 1 - c.past + 1 = i - c.past
      BY <1>1, <2>3, SMTT(30)
    <3>2. QED
      BY <1>3, <1>4, <1>7, <2>1, <2>3, <3>1
  <2>4. QED
    BY <2>2, <2>3
<1>9. QED
  BY <1>4, <1>7, <1>8, SeqEqual DEF d

(* onRealloc() carries the plan out.                                       *)
LEMMA ReallocKeepsSurvivors ==
  ASSUME NEW c \in Cache, meta \in Meta, PlanOK, RowsFit,
         c.past = meta.previous
  PROVE  /\ OnRealloc(c, meta) \in Cache
         /\ OnRealloc(c, meta).past = Effective(meta)
         /\ Rows(OnRealloc(c, meta)) = Survivors(Rows(c))
<1> DEFINE d == OnRealloc(c, meta)
           start == meta.previous - meta.remove
<1>1. /\ meta.previous \in 0 .. MaxLen /\ meta.remove \in Nat
      /\ meta.begin \in Nat /\ meta.size \in Nat
      /\ meta.nReserve \in {0, 1}
      /\ MaxLen \in Nat
  BY CacheAssumption DEF Meta, RowsFit
<1>2. /\ meta.remove <= meta.previous
      /\ meta.nReserve = 0 => meta.size = 0
      /\ meta.nReserve = 1 => /\ meta.size >= 1
                              /\ meta.begin + meta.size = meta.remove
                              /\ ~Quantized
  BY <1>1 DEF PlanOK
<1>3. d \in Cache
  BY ReallocType
<1>4. d.past = Effective(meta)
  BY <1>2, ReallocLength
<1>5. /\ Rows(c) \in Seq(Row)
      /\ Len(Rows(c)) = meta.previous
      /\ \A i \in 1 .. meta.previous : Rows(c)[i] = c.cells[i - 1]
  BY <1>1, RowsAreSequences
<1>6. /\ Survivors(Rows(c)) \in Seq(Row)
      /\ Len(Survivors(Rows(c))) = Effective(meta)
      /\ Effective(meta) \in Nat
      /\ \A i \in 1 .. Effective(meta) :
           Survivors(Rows(c))[i] = IF i <= start
                                   THEN Rows(c)[i]
                                   ELSE Rows(c)[i + meta.begin]
  BY <1>5, SurvivorsAre
<1>7. Effective(meta) = start + meta.size /\ start \in Nat
  BY <1>1, <1>2 DEF Effective, ReverseSize
<1>8. Effective(meta) <= meta.previous
  BY <1>1, <1>2, <1>7
<1>9. /\ Rows(d) \in Seq(Row)
      /\ Len(Rows(d)) = Effective(meta)
      /\ \A i \in 1 .. Effective(meta) : Rows(d)[i] = d.cells[i - 1]
  BY <1>1, <1>3, <1>4, <1>6, <1>8, RowsAreSequences
<1>10. ASSUME NEW i \in 1 .. Effective(meta)
       PROVE  d.cells[i - 1] = IF i <= start
                               THEN c.cells[i - 1]
                               ELSE c.cells[i + meta.begin - 1]
  <2>1. i - 1 \in Pos /\ i \in Nat
    BY <1>1, <1>6, <1>8 DEF Pos
  <2>2. CASE meta.nReserve = 0
    <3>1. d.cells = c.cells
      BY <2>2 DEF OnRealloc, Cache
    <3>2. i <= start
      BY <1>2, <1>6, <1>7, <2>2
    <3>3. QED
      BY <3>1, <3>2
  <2>3. CASE meta.nReserve = 1
    <3>1. d.cells = MoveKV(c.cells, start + meta.begin, start, meta.size)
      BY <1>2, <2>3 DEF OnRealloc, Cache
    <3> HIDE DEF d
    <3>2. d.cells[i - 1] =
            IF i - 1 \in start .. start + meta.size - 1
               /\ i - 1 - start + (start + meta.begin) \in Pos
            THEN c.cells[i - 1 - start + (start + meta.begin)]
            ELSE c.cells[i - 1]
      BY <2>1, <3>1 DEF MoveKV
    <3>3. i - 1 - start + (start + meta.begin) = i + meta.begin - 1
      BY <1>1, <1>7, <2>1
    <3>4. CASE i <= start
      <4>1. i - 1 \notin start .. start + meta.size - 1
        BY <1>1, <1>7, <2>1, <3>4
      <4>2. QED
        BY <3>2, <3>4, <4>1
    <3>5. CASE ~(i <= start)
      <4>1. i - 1 \in start .. start + meta.size - 1
        BY <1>1, <1>6, <1>7, <2>1, <3>5
      <4>2. i + meta.begin - 1 \in Pos
        <5>1. /\ start \in Nat /\ i <= start + meta.size
              /\ start + meta.begin + meta.size = meta.previous
          BY <1>1, <1>2, <1>6, <1>7, <2>3, SMTT(30)
        <5>2. i + meta.begin - 1 \in 0 .. meta.previous - 1
          BY <1>1, <2>1, <3>5, <5>1
        <5>3. QED
          BY <1>1, <5>2 DEF Pos
      <4>3. QED
        BY <3>2, <3>3, <3>5, <4>1, <4>2
    <3>6. QED
      BY <3>4, <3>5
  <2>4. QED
    BY <1>1, <2>2, <2>3
<1>11. ASSUME NEW i \in 1 .. Effective(meta)
       PROVE  Rows(d)[i] = Survivors(Rows(c))[i]
  <2>1. CASE i <= start
    <3>1. i \in 1 .. meta.previous
      BY <1>1, <1>6, <1>8
    <3>2. QED
      BY <1>5, <1>6, <1>9, <1>10, <2>1, <3>1
  <2>2. CASE ~(i <= start)
    <3>1. meta.size # 0
      BY <1>1, <1>6, <1>7, <2>2
    <3>2. i + meta.begin \in 1 .. meta.previous
      <4>1. /\ start \in Nat /\ i \in Nat /\ i <= start + meta.size
            /\ start + meta.begin + meta.size = meta.previous
        BY <1>1, <1>2, <1>6, <1>7, <3>1, SMTT(30)
      <4>2. QED
        BY <1>1, <2>2, <4>1
    <3>3. Rows(c)[i + meta.begin] = c.cells[i + meta.begin - 1]
      <4>1. i \in Int /\ meta.begin \in Int
        BY <1>1, <1>6
      <4>2. QED
        BY <1>5, <3>2, <4>1
    <3>4. Survivors(Rows(c))[i] = Rows(c)[i + meta.begin]
      BY <1>6, <2>2
    <3>5. Rows(d)[i] = c.cells[i + meta.begin - 1]
      BY <1>9, <1>10, <2>2
    <3>6. QED
      BY <3>3, <3>4, <3>5
  <2>3. QED
    BY <2>1, <2>2
<1>12. QED
  BY <1>3, <1>4, <1>6, <1>9, <1>11, SeqEqual

(* One layer, one forward: what survives and the new tokens.               *)
LEMMA AttentionAppends ==
  ASSUME NEW c \in Cache, NEW toks \in Seq(Token), NEW seqLen \in Nat,
         meta \in Meta, PlanOK, RowsFit,
         Effective(meta) + Len(toks) <= MaxLen
  PROVE  /\ meta.previous = meta.remove =>
              Rows(AttentionUpdate(c, meta, toks, seqLen)) = toks
         /\ (meta.previous # meta.remove /\ c.past = meta.previous) =>
              Rows(AttentionUpdate(c, meta, toks, seqLen)) = Survivors(Rows(c)) \o toks
<1>1. Effective(meta) \in Nat
  <2>1. /\ meta.nReserve \in {0, 1} /\ meta.previous - meta.remove \in Nat
        /\ ReverseSize(meta) = meta.size /\ meta.size \in Nat
    BY DEF PlanOK, Meta, ReverseSize
  <2>2. QED
    BY <2>1 DEF Effective
<1>2. CASE meta.previous = meta.remove
  <2> DEFINE d == OnAlloc(OnClear(c), seqLen)
  <2>1. d \in Cache /\ d.past = 0
    BY AllocType
  <2>2. Rows(d) = << >>
    BY <2>1 DEF Rows
  <2>3. AttentionUpdate(c, meta, toks, seqLen) = OnUpdateKV(d, toks)
    BY <1>2 DEF AttentionUpdate
  <2> HIDE DEF d
  <2>4. Len(toks) \in Nat /\ MaxLen \in Nat
    BY LenProperties, CacheAssumption
  <2>5. d.past + Len(toks) <= MaxLen /\ d.past \in Nat
    BY <1>1, <2>1, <2>4
  <2>6. Rows(OnUpdateKV(d, toks)) = Rows(d) \o toks
    BY <2>1, <2>5, UpdateAppends
  <2>7. << >> \o toks = toks
    BY ConcatEmptySeq
  <2>8. QED
    BY <1>2, <2>2, <2>3, <2>6, <2>7
<1>3. CASE meta.previous # meta.remove /\ c.past = meta.previous
  <2> DEFINE d == OnRealloc(c, meta)
  <2>1. AttentionUpdate(c, meta, toks, seqLen) = OnUpdateKV(d, toks)
    BY <1>3 DEF AttentionUpdate
  <2>2. d \in Cache /\ d.past = Effective(meta) /\ Rows(d) = Survivors(Rows(c))
    BY <1>3, ReallocKeepsSurvivors
  <2> HIDE DEF d
  <2>3. Rows(OnUpdateKV(d, toks)) = Rows(d) \o toks
    BY <1>1, <2>2, UpdateAppends
  <2>4. QED
    BY <1>3, <2>1, <2>2, <2>3
<1>4. QED
  BY <1>2, <1>3

-----------------------------------------------------------------------------
(* The rows fit.                                                           *)

(* No rows fit.                                                            *)
LEMMA FitInit ==
  ASSUME Init
  PROVE  RowsFit
BY CacheAssumption DEF Init, EmptyMeta, RowsFit, Forwarding

(* Every step leaves what fits.                                            *)
LEMMA FitStep ==
  ASSUME Inv, RowsFit, [Next]_vars
  PROVE  RowsFit'
<1>0. meta \in Meta
  BY DEF Inv, TypeOK
<1>1. ASSUME NEW begin \in 0 .. MaxLen, NEW last \in 0 .. MaxLen,
             EraseHistory(begin, last)
      PROVE  RowsFit'
  <2>1. meta'.previous = meta.previous /\ ~Forwarding /\ fwd' = fwd
    BY <1>0, <1>1 DEF EraseHistory, EraseRange, Meta
  <2>2. QED
    BY <2>1 DEF RowsFit, Forwarding
<1>2. CASE Reset
  <2>1. meta'.previous = meta.previous /\ ~Forwarding /\ fwd' = fwd
    BY <1>0, <1>2 DEF Reset, RemoveAll, Meta
  <2>2. QED
    BY <2>1 DEF RowsFit, Forwarding
<1>3. ASSUME NEW reuseKV \in BOOLEAN, GenerateInit(reuseKV)
      PROVE  RowsFit'
  <2>1. meta'.previous = meta.previous /\ ~Forwarding /\ fwd' = fwd
    BY <1>0, <1>3 DEF GenerateInit, RemoveAll, Meta
  <2>2. QED
    BY <2>1 DEF RowsFit, Forwarding
<1>4. ASSUME NEW toks \in Inputs, NEW pad \in 0 .. MaxPad,
             BeginForward(toks, pad)
      PROVE  RowsFit'
  <2> DEFINE n == Len(toks)
  <2>1. n \in Nat
    BY InputsAreSequences
  <2>2. meta' = [ meta EXCEPT !.add = n ] /\ Effective(meta) + n <= MaxLen
    BY <1>4 DEF BeginForward
  <2> HIDE DEF n
  <2>3. /\ meta'.previous = meta.previous /\ meta'.add = n
        /\ Effective(meta') = Effective(meta)
    BY <1>0, <2>1, <2>2 DEF Meta, Effective, ReverseSize
  <2>4. QED
    BY <2>2, <2>3 DEF RowsFit
<1>5. CASE LayerStep
  BY <1>5 DEF LayerStep, RowsFit
<1>6. ASSUME NEW accepted \in 1 .. MaxAdd, EndForward(accepted)
      PROVE  RowsFit'
  <2> DEFINE rejected == Len(fwd.toks) - accepted
  <2>1. /\ Forwarding /\ accepted \in 1 .. Len(fwd.toks)
        /\ meta' = [ Sync(meta) EXCEPT !.remove = rejected ]
        /\ fwd' = NoForward
    BY <1>6 DEF EndForward
  <2>2. rejected \in Nat
    BY <2>1, LenProperties DEF Inv, TypeOK, ForwardType
  <2>3. /\ meta.nReserve = 0 => meta.size = 0
        /\ meta.nReserve = 1 => meta.size >= 1
        /\ Effective(meta) \in Nat
    <3>1. PlanOK
      BY DEF Inv, CountersAgree
    <3>2. QED
      BY <1>0, <3>1 DEF PlanOK, Effective, ReverseSize, Meta
  <2> HIDE DEF rejected
  <2>4. meta'.previous = Effective(meta) + meta.add
    BY <1>0, <2>1, <2>2, <2>3, SyncedPlan
  <2>5. QED
    BY <2>1, <2>4 DEF RowsFit, Forwarding
<1>7. CASE FailForward
  BY <1>7 DEF FailForward, RowsFit, Forwarding
<1>8. CASE UNCHANGED vars
  BY <1>8 DEF vars, RowsFit, Forwarding
<1>9. QED
  BY <1>1, <1>2, <1>3, <1>4, <1>5, <1>6, <1>7, <1>8 DEF Next

-----------------------------------------------------------------------------
(* Steps of KVHistory are steps of Conversation.                           *)

(* The rows of the last layer, before it runs and after.                   *)
LEMMA LastLayer ==
  ASSUME Inv, RowsFit, ~torn
  PROVE  /\ LastRows \in Seq(Row)
         /\ Len(LastRows) = IF fwd.done = NumLayers
                            THEN Effective(meta) + meta.add
                            ELSE meta.previous
         /\ Len(LastRows) \in Nat
<1>1. /\ NumLayers \in Nat \ {0} /\ NumLayers \in Layers
      /\ fwd.done \in 0 .. NumLayers
      /\ layer[NumLayers] \in Cache
      /\ meta \in Meta
      /\ MaxLen \in Nat
  BY HistoryAssumption, CacheAssumption DEF Inv, TypeOK, ForwardType, Layers
<1>2. CASE fwd.done = NumLayers
  <2>1. layer[NumLayers].past = Effective(meta) + meta.add
    BY <1>1, <1>2 DEF Inv, CountersAgree, LayerLengths
  <2>2. Forwarding
    BY <1>1, <1>2 DEF Forwarding, NoForward
  <2>3. layer[NumLayers].past \in 0 .. MaxLen
    <3>1. layer[NumLayers].past \in 0 .. layer[NumLayers].max
      BY <1>1 DEF Inv, CountersAgree, WritesInBounds
    <3>2. layer[NumLayers].past <= MaxLen
      BY <2>1, <2>2 DEF RowsFit
    <3>3. QED
      BY <1>1, <3>1, <3>2 DEF Cache
  <2>4. QED
    BY <1>1, <1>2, <2>1, <2>3, RowsAreSequences DEF LastRows
<1>3. CASE fwd.done # NumLayers
  <2>1. layer[NumLayers].past = meta.previous
    BY <1>1, <1>3 DEF Inv, CountersAgree, LayerLengths
  <2>2. layer[NumLayers].past \in 0 .. MaxLen
    BY <1>1, <2>1 DEF RowsFit, Meta
  <2>3. QED
    BY <1>1, <1>3, <2>1, <2>2, RowsAreSequences DEF LastRows
<1>4. QED
  BY <1>2, <1>3

(* A plan that keeps no tail keeps a prefix.                               *)
LEMMA SuffixPlan ==
  ASSUME NEW S, NEW rows \in Seq(S), meta \in Meta, meta.size = 0,
         meta.remove <= meta.previous, meta.previous = Len(rows)
  PROVE  Survivors(rows) = SubSeq(rows, 1, meta.previous - meta.remove)
<1> DEFINE start == meta.previous - meta.remove
           from == start + meta.begin + 1
           to == start + meta.begin + meta.size
           head == SubSeq(rows, 1, start)
<1>1. start \in Nat /\ start <= Len(rows) /\ from \in Int /\ to \in Int /\ to < from
  BY DEF Meta
<1>2. Survivors(rows) = head \o SubSeq(rows, from, to)
  BY DEF Survivors
<1> HIDE DEF start, from, to
<1>3. SubSeq(rows, from, to) = << >>
  BY <1>1, SubSeqEmpty
<1>4. head \in Seq(S)
  <2>1. \A i \in 1 .. start : rows[i] \in S
    BY <1>1, ElementOfSeq
  <2>2. QED
    BY <1>1, <2>1, SubSeqProperties
<1>5. head \o << >> = head
  BY <1>4, ConcatEmptySeq
<1>6. QED
  BY <1>2, <1>3, <1>5 DEF start

(* An erase is an erase of the conversation.                               *)
LEMMA EraseHistorySteps ==
  ASSUME Supported, Inv, RowsFit,
         NEW begin \in 0 .. MaxLen, NEW last \in 0 .. MaxLen,
         EraseHistory(begin, last)
  PROVE  [Conv!Next]_(Conv!vars)
<1> DEFINE end == IF last = 0 THEN meta.previous ELSE last
           erased == EraseRange(meta, begin, end)
<1>1. /\ ~Forwarding
      /\ end <= meta.previous
      /\ begin < end
      /\ MayErase(begin, end)
      /\ meta' = erased
      /\ UNCHANGED << layer, fwd, torn >>
  BY DEF EraseHistory
<1>2. /\ meta \in Meta /\ begin \in Nat /\ end \in Nat
      /\ fwd.done = 0 /\ NumLayers # 0
      /\ meta.nReserve = 0 => meta.size = 0
  BY <1>1, CacheAssumption, HistoryAssumption
  DEF Inv, TypeOK, CountersAgree, PlanOK, Meta, Forwarding, NoForward
<1>3. LastRows' = LastRows /\ fwd'.done = 0
  BY <1>1, <1>2 DEF LastRows
<1>4. Inv'
  BY EraseHistoryInv
<1>5. CASE torn
  BY <1>1, <1>5 DEF Stored, Kept, Conv!vars
<1>6. CASE ~torn
  <2>1. /\ LastRows \in Seq(Row)
        /\ Len(LastRows) = meta.previous
    BY <1>2, <1>6, LastLayer
  <2>2. Stored = LastRows /\ Stored' = LastRows /\ Kept' = Survivors(LastRows)'
    BY <1>1, <1>2, <1>3, <1>6 DEF Stored, Kept
  <2> HIDE DEF end
  <2>3. Survivors(LastRows)' =
          SubSeq(LastRows, 1, begin) \o SubSeq(LastRows, end + 1, Len(LastRows))
    <3>1. CASE end = meta.previous
      <4>1. meta.nReserve = 0
        BY <1>1, <1>2, <3>1, NoOverride DEF MayErase
      <4>2. erased = [ meta EXCEPT !.remove = meta.previous - begin ]
        BY <3>1 DEF EraseRange
      <4>3. /\ meta'.previous - meta'.remove = begin
            /\ meta'.begin = meta.begin
            /\ meta'.size = 0
        BY <1>1, <1>2, <3>1, <4>1, <4>2 DEF Meta
      <4>4. SubSeq(LastRows, begin + meta.begin + 1, begin + meta.begin + 0) = << >>
        <5>1. begin + meta.begin + 1 \in Int /\ begin + meta.begin + 0 \in Int
              /\ begin + meta.begin + 0 < begin + meta.begin + 1
          BY <1>2 DEF Meta
        <5>2. QED
          BY <5>1, SubSeqEmpty
      <4>5. SubSeq(LastRows, end + 1, Len(LastRows)) = << >>
        <5>1. end + 1 \in Int /\ Len(LastRows) \in Int /\ Len(LastRows) < end + 1
          BY <1>2, <2>1, <3>1 DEF Meta
        <5>2. QED
          BY <5>1, SubSeqEmpty
      <4>6. QED
        BY <1>3, <4>3, <4>4, <4>5 DEF Survivors
    <3>2. CASE end # meta.previous
      <4>1. erased = [ meta EXCEPT !.remove = meta.previous - begin,
                                   !.nReserve = 1,
                                   !.begin = end - begin,
                                   !.size = meta.previous - end ]
        BY <3>2 DEF EraseRange
      <4>2. /\ meta'.previous - meta'.remove = begin
            /\ begin + meta'.begin + 1 = end + 1
            /\ begin + meta'.begin + meta'.size = Len(LastRows)
        BY <1>1, <1>2, <2>1, <4>1 DEF Meta
      <4>3. QED
        BY <1>3, <4>2 DEF Survivors
    <3>3. QED
      BY <3>1, <3>2
  <2>4. begin \in 0 .. Len(Stored) /\ end \in 0 .. Len(Stored)
    BY <1>1, <1>2, <2>1, <2>2 DEF Meta
  <2>5. Conv!Erase(begin, end)
    BY <1>1, <2>1, <2>2, <2>3, <2>4 DEF Conv!Erase
  <2>6. QED
    BY <2>4, <2>5 DEF Conv!Next
<1>7. QED
  BY <1>5, <1>6

(* Dropping everything.                                                    *)
LEMMA RemoveAllSteps ==
  ASSUME Supported, Inv, RowsFit, ~Forwarding, MayOverride,
         meta' = RemoveAll(meta), UNCHANGED << layer, fwd, torn >>
  PROVE  [Conv!Next]_(Conv!vars)
<1>1. /\ meta \in Meta /\ meta.nReserve = 0 /\ meta.size = 0
      /\ fwd.done = 0 /\ NumLayers # 0
  BY NoOverride, HistoryAssumption
  DEF Inv, TypeOK, CountersAgree, PlanOK, Forwarding, NoForward
<1>2. LastRows' = LastRows /\ fwd'.done = 0
  BY <1>1 DEF LastRows
<1>3. Stored' = Stored
  BY <1>2 DEF Stored
<1>4. Kept' = << >>
  <2>1. CASE torn
    BY <2>1 DEF Kept
  <2>2. CASE ~torn
    <3>1. Kept' = Survivors(LastRows)'
      BY <1>1, <1>2, <2>2 DEF Kept
    <3>2. /\ meta'.previous - meta'.remove = 0
          /\ meta'.begin = meta.begin
          /\ meta'.size = 0
      BY <1>1 DEF RemoveAll, Meta
    <3>3. SubSeq(LastRows, 1, 0) = << >>
      BY SubSeqEmpty
    <3>4. SubSeq(LastRows, 0 + meta.begin + 1, 0 + meta.begin + 0) = << >>
      <4>1. 0 + meta.begin + 1 \in Int /\ 0 + meta.begin + 0 \in Int
            /\ 0 + meta.begin + 0 < 0 + meta.begin + 1
        BY <1>1 DEF Meta
      <4>2. QED
        BY <4>1, SubSeqEmpty
    <3>5. << >> \o << >> = << >>
      BY EmptySeq, ConcatEmptySeq
    <3>6. QED
      BY <1>2, <3>1, <3>2, <3>3, <3>4, <3>5 DEF Survivors
  <2>3. QED
    BY <2>1, <2>2
<1>5. Conv!Clear
  BY <1>3, <1>4 DEF Conv!Clear
<1>6. QED
  BY <1>5 DEF Conv!Next

(* Nothing that Stored and Kept are made of changes.                       *)
LEMMA SameConversation ==
  ASSUME UNCHANGED << layer, torn >>,
         fwd'.done = NumLayers <=> fwd.done = NumLayers,
         /\ meta'.previous = meta.previous /\ meta'.remove = meta.remove
         /\ meta'.begin = meta.begin /\ meta'.size = meta.size
  PROVE  UNCHANGED Conv!vars
<1>1. LastRows' = LastRows
  BY DEF LastRows
<1>2. Survivors(LastRows)' = Survivors(LastRows)
  BY <1>1 DEF Survivors
<1>3. QED
  BY <1>1, <1>2 DEF Stored, Kept, Conv!vars

(* A response without reuse forgets the conversation.                      *)
LEMMA GenerateInitSteps ==
  ASSUME Supported, Inv, RowsFit, NEW reuseKV \in BOOLEAN, GenerateInit(reuseKV)
  PROVE  [Conv!Next]_(Conv!vars)
<1>1. CASE UNCHANGED << meta, allSeqLen >>
  <2>1. UNCHANGED << layer, torn, fwd, meta >>
    BY <1>1 DEF GenerateInit
  <2>2. QED
    BY <2>1, SameConversation
<1>2. CASE MayOverride /\ meta' = RemoveAll(meta) /\ allSeqLen' = 0
  BY <1>2, RemoveAllSteps DEF GenerateInit
<1>3. QED
  BY <1>1, <1>2 DEF GenerateInit

(* A forward that begins has added nothing yet.                            *)
LEMMA BeginForwardSteps ==
  ASSUME Inv, NEW toks \in Inputs, NEW pad \in 0 .. MaxPad,
         BeginForward(toks, pad)
  PROVE  UNCHANGED Conv!vars
<1> DEFINE n == Len(toks)
<1>1. /\ meta' = [ meta EXCEPT !.add = n ]
      /\ fwd'.done = 0 /\ fwd.done = 0
      /\ UNCHANGED << layer, torn >>
  BY DEF BeginForward, Forwarding, NoForward
<1> HIDE DEF n
<1>2. /\ meta'.previous = meta.previous /\ meta'.remove = meta.remove
      /\ meta'.begin = meta.begin /\ meta'.size = meta.size
  BY <1>1 DEF Inv, TypeOK, Meta
<1>3. QED
  BY <1>1, <1>2, SameConversation

(* Appending ts to what is kept is a step of Conversation.                 *)
LEMMA AppendSteps ==
  ASSUME NEW S, NEW ts \in Seq(S), ts # << >>, Kept \in Seq(S),
         Stored' = Kept \o ts, Kept' = Kept \o ts
  PROVE  Conv!Next
<1> DEFINE all == Kept \o ts
           n == Len(Kept)
           k == Len(ts)
<1>1. /\ all \in Seq(S)
      /\ Len(all) = n + k
      /\ \A i \in 1 .. n + k : all[i] = IF i <= n THEN Kept[i] ELSE ts[i - n]
  BY ConcatProperties
<1>2. n \in Nat /\ k \in Nat \ {0}
  BY EmptySeq, LenProperties
<1> HIDE DEF n, k, all
<1> DEFINE new == SubSeq(all, n + 1, n + k)
<1>3. /\ new \in Seq(S)
      /\ Len(new) = k
      /\ \A i \in 1 .. k : new[i] = all[n + i]
  <2>1. \A i \in n + 1 .. n + k : all[i] \in S
    <3>1. \A i \in 1 .. Len(all) : all[i] \in S
      BY <1>1, ElementOfSeq
    <3>2. QED
      BY <1>1, <1>2, <3>1
  <2>2. /\ new \in Seq(S)
        /\ Len(new) = IF n + 1 <= n + k THEN n + k - (n + 1) + 1 ELSE 0
        /\ \A i \in 1 .. n + k - (n + 1) + 1 : new[i] = all[n + 1 + i - 1]
    BY <1>2, <2>1, SubSeqProperties
  <2>3. n + k - (n + 1) + 1 = k /\ n + 1 <= n + k
    BY <1>2
  <2>4. ASSUME NEW i \in 1 .. k
        PROVE  new[i] = all[n + i]
    <3>1. n + 1 + i - 1 = n + i
      BY <1>2
    <3>2. new[i] = all[n + 1 + i - 1]
      BY <2>2, <2>3
    <3> HIDE DEF new
    <3>3. QED
      BY <3>1, <3>2
  <2> HIDE DEF new
  <2>5. QED
    BY <2>2, <2>3, <2>4
<1>4. new = ts
  <2>1. ASSUME NEW i \in 1 .. k
        PROVE  all[n + i] = ts[i]
    <3> DEFINE j == n + i
    <3>1. j \in 1 .. n + k /\ ~(j <= n) /\ j - n = i
      BY <1>2
    <3> HIDE DEF j
    <3>2. all[j] = ts[j - n]
      BY <1>1, <3>1
    <3>3. QED
      BY <3>1, <3>2 DEF j
  <2>2. \A i \in 1 .. k : new[i] = ts[i]
    BY <1>3, <2>1
  <2>3. QED
    BY <1>3, <2>2, SeqEqual DEF k
<1>5. Conv!Forward(new)
  BY <1>4 DEF Conv!Forward, all
<1>6. n \in 0 .. Len(Stored')
  BY <1>1, <1>2 DEF all
<1>7. SubSeq(Stored', n + 1, Len(Stored')) = new
  BY <1>1 DEF all
<1>8. QED
  BY <1>5, <1>6, <1>7 DEF Conv!Next

(* A layer that is not the last changes nothing; the last one appends.     *)
LEMMA LayerStepSteps ==
  ASSUME Supported, Inv, RowsFit, LayerStep
  PROVE  [Conv!Next]_(Conv!vars)
<1> DEFINE k == fwd.done + 1
           Outcome(l) == AttentionUpdate(layer[l], meta, fwd.toks, fwd.seqLen)
<1>1. /\ Forwarding
      /\ k \in Layers
      /\ layer' = [ layer EXCEPT ![k] = Outcome(k) ]
      /\ fwd' = [ fwd EXCEPT !.done = k ]
      /\ torn' = (torn /\ ~(k = NumLayers /\ Cleared))
      /\ UNCHANGED meta
  BY DEF LayerStep
<1>2. /\ meta \in Meta /\ layer \in [ Layers -> Cache ]
      /\ fwd \in ForwardType /\ fwd.toks \in Seq(Token) /\ fwd.seqLen \in Nat
      /\ fwd.done \in 0 .. NumLayers
      /\ torn \in BOOLEAN
      /\ NumLayers \in Nat \ {0} /\ NumLayers \in Layers
  BY HistoryAssumption DEF Inv, TypeOK, ForwardType, Layers
<1>3. fwd'.done = k /\ fwd.done # NumLayers
  BY <1>1, <1>2 DEF ForwardType, Layers
<1>4. torn => Cleared
  BY <1>1 DEF Inv, CountersAgree, LayerLengths
<1>5. CASE k # NumLayers
  <2>1. layer'[NumLayers] = layer[NumLayers] /\ torn' = torn
    BY <1>1, <1>2, <1>5
  <2>2. LastRows' = LastRows
    BY <2>1 DEF LastRows
  <2>3. Survivors(LastRows)' = Survivors(LastRows)
    BY <1>1, <2>2 DEF Survivors
  <2>4. UNCHANGED Conv!vars
    BY <1>3, <1>5, <2>1, <2>2, <2>3 DEF Stored, Kept, Conv!vars
  <2>5. QED
    BY <2>4
<1>6. CASE k = NumLayers
  <2> DEFINE ts == fwd.toks
             c == layer[NumLayers]
  <2>1. ~torn'
    BY <1>1, <1>4, <1>6
  <2>2. LastRows' = Rows(Outcome(NumLayers))
    <3>1. layer'[NumLayers] = Outcome(NumLayers)
      BY <1>1, <1>2, <1>6
    <3>2. QED
      BY <3>1 DEF LastRows
  <2>3. Stored' = LastRows' /\ Kept' = LastRows'
    BY <1>3, <1>6, <2>1 DEF Stored, Kept
  <2>4. /\ PlanOK /\ ts # << >> /\ meta.add = Len(ts)
        /\ Effective(meta) + Len(ts) <= MaxLen
        /\ c \in Cache
    BY <1>1, <1>2 DEF Inv, CountersAgree, ForwardOK, RowsFit
  <2>5. ts \in Seq(Row)
    BY <1>2, SeqMonotonic DEF Row
  <2>6. << >> \in Seq(Row) /\ << >> \o ts = ts
    BY <2>5, EmptySeq, ConcatEmptySeq
  <2>7. /\ meta.previous = meta.remove => LastRows' = ts
        /\ (meta.previous # meta.remove /\ c.past = meta.previous)
             => LastRows' = Survivors(LastRows) \o ts
    BY <1>2, <2>2, <2>4, AttentionAppends DEF LastRows
  <2>8. Kept \in Seq(Row) /\ LastRows' = Kept \o ts
    <3>1. CASE torn
      <4>1. Kept = << >>
        BY <3>1 DEF Kept
      <4>2. LastRows' = ts
        BY <1>4, <2>7, <3>1 DEF Cleared
      <4>3. QED
        BY <2>6, <4>1, <4>2
    <3>2. CASE ~torn
      <4>1. Kept = Survivors(LastRows)
        BY <1>3, <3>2 DEF Kept
      <4>2. LastRows \in Seq(Row) /\ Len(LastRows) = meta.previous
        BY <1>3, <3>2, LastLayer
      <4>3. Survivors(LastRows) \in Seq(Row)
        BY <1>2, <2>4, <4>2, SurvivorsAre
      <4>4. CASE meta.previous = meta.remove
        <5>1. meta.size = 0
          BY <1>2, <2>4, <4>4 DEF PlanOK, Meta
        <5>2. Survivors(LastRows) = SubSeq(LastRows, 1, meta.previous - meta.remove)
          BY <1>2, <2>4, <4>2, <5>1, SuffixPlan DEF PlanOK
        <5>3. meta.previous - meta.remove = 0
          BY <1>2, <4>4 DEF Meta
        <5>4. Survivors(LastRows) = << >>
          BY <5>2, <5>3, SubSeqEmpty
        <5>5. QED
          BY <2>6, <2>7, <4>1, <4>4, <5>4
      <4>5. CASE meta.previous # meta.remove
        <5>1. c.past = meta.previous
          BY <1>2, <1>3, <1>6, <3>2 DEF Inv, CountersAgree, LayerLengths
        <5>2. QED
          BY <2>7, <4>1, <4>3, <4>5, <5>1
      <4>6. QED
        BY <4>4, <4>5
    <3>3. QED
      BY <3>1, <3>2
  <2>9. QED
    BY <2>3, <2>4, <2>5, <2>8, AppendSteps
<1>7. QED
  BY <1>5, <1>6

(* Rejected drafts are erased.                                             *)
LEMMA EndForwardSteps ==
  ASSUME Supported, Inv, RowsFit, NEW accepted \in 1 .. MaxAdd,
         EndForward(accepted)
  PROVE  [Conv!Next]_(Conv!vars)
<1> DEFINE rejected == Len(fwd.toks) - accepted
           size == Effective(meta) + meta.add
<1>1. /\ Forwarding /\ fwd.done = NumLayers
      /\ accepted \in 1 .. Len(fwd.toks)
      /\ meta' = [ Sync(meta) EXCEPT !.remove = rejected ]
      /\ fwd' = NoForward
      /\ UNCHANGED << layer, torn >>
  BY DEF EndForward
<1>2. /\ meta \in Meta /\ PlanOK /\ meta.add = Len(fwd.toks)
      /\ Len(fwd.toks) \in Nat
      /\ fwd'.done = 0 /\ NumLayers # 0
  BY <1>1, LenProperties, HistoryAssumption
  DEF Inv, TypeOK, CountersAgree, ForwardOK, ForwardType, NoForward
<1>3. Effective(meta) \in Nat
  <2>1. /\ meta.nReserve \in {0, 1} /\ meta.previous - meta.remove \in Nat
        /\ ReverseSize(meta) = meta.size /\ meta.size \in Nat
    BY <1>2 DEF PlanOK, Meta, ReverseSize
  <2>2. QED
    BY <2>1 DEF Effective
<1>4. rejected \in Nat /\ rejected < meta.add /\ size \in Nat /\ rejected <= size
  BY <1>1, <1>2, <1>3
<1> HIDE DEF rejected
<1>5. /\ meta' \in Meta /\ meta'.previous = size
      /\ meta'.remove = rejected /\ meta'.size = 0
  BY <1>1, <1>2, <1>3, <1>4, SyncedPlan DEF PlanOK
<1> HIDE DEF size
<1>6. LastRows' = LastRows
  BY <1>1 DEF LastRows
<1>7. CASE torn
  BY <1>1, <1>7 DEF Stored, Kept, Conv!vars
<1>8. CASE ~torn
  <2>1. LastRows \in Seq(Row) /\ Len(LastRows) = size
    BY <1>1, <1>8, LastLayer DEF size
  <2>2. /\ Stored = LastRows /\ Kept = LastRows
        /\ Stored' = LastRows /\ Kept' = Survivors(LastRows)'
    BY <1>1, <1>2, <1>6, <1>8 DEF Stored, Kept
  <2>3. Survivors(LastRows)' = SubSeq(LastRows, 1, size - rejected)
    <3> DEFINE at == meta'.begin
    <3>1. at \in Nat
      BY <1>5 DEF Meta
    <3>2. SubSeq(LastRows, size - rejected + at + 1, size - rejected + at + 0) = << >>
      <4>1. /\ size - rejected + at + 1 \in Int
            /\ size - rejected + at + 0 \in Int
            /\ size - rejected + at + 0 < size - rejected + at + 1
        BY <1>4, <3>1
      <4>2. QED
        BY <4>1, SubSeqEmpty
    <3>3. Survivors(LastRows)' =
            SubSeq(LastRows, 1, size - rejected)
            \o SubSeq(LastRows, size - rejected + at + 1, size - rejected + at + 0)
      BY <1>5, <1>6 DEF Survivors
    <3>4. SubSeq(LastRows, 1, size - rejected) \in Seq(Row)
      <4>1. \A i \in 1 .. size - rejected : LastRows[i] \in Row
        BY <1>4, <2>1, ElementOfSeq
      <4>2. size - rejected \in Int
        BY <1>4
      <4>3. QED
        BY <4>1, <4>2, SubSeqProperties
    <3>5. QED
      BY <3>2, <3>3, <3>4, ConcatEmptySeq
  <2>4. CASE rejected = 0
    <3>1. size - rejected = Len(LastRows)
      BY <1>4, <2>1, <2>4
    <3>2. Kept' = LastRows
      BY <2>1, <2>2, <2>3, <3>1, SubSeqFull
    <3>3. QED
      BY <2>2, <3>2 DEF Conv!vars
  <2>5. CASE rejected # 0
    <3> DEFINE begin == size - rejected
    <3>1. /\ begin \in 0 .. Len(Stored) /\ size \in 0 .. Len(Stored)
          /\ begin < size /\ size <= Len(Stored)
      BY <1>4, <2>1, <2>2, <2>5
    <3>2. SubSeq(LastRows, size + 1, size) = << >>
      BY <1>4, SubSeqEmpty
    <3>3. SubSeq(LastRows, 1, begin) \in Seq(Row)
      <4>1. \A i \in 1 .. begin : LastRows[i] \in Row
        BY <1>4, <2>1, ElementOfSeq
      <4>2. begin \in Int
        BY <1>4
      <4>3. QED
        BY <4>1, <4>2, SubSeqProperties
    <3> HIDE DEF begin
    <3>4. SubSeq(LastRows, 1, begin) \o << >> = SubSeq(LastRows, 1, begin)
      BY <3>3, ConcatEmptySeq
    <3>5. Kept' = SubSeq(Stored, 1, begin) \o SubSeq(Stored, size + 1, Len(Stored))
      BY <2>1, <2>2, <2>3, <3>2, <3>4 DEF begin
    <3>6. Conv!Erase(begin, size)
      BY <2>2, <3>1, <3>5 DEF Conv!Erase
    <3>7. QED
      BY <3>1, <3>6 DEF Conv!Next
  <2>6. QED
    BY <2>4, <2>5
<1>9. QED
  BY <1>7, <1>8

(* A forward that fails adds nothing, or loses the rows.                   *)
LEMMA FailForwardSteps ==
  ASSUME Inv, FailForward
  PROVE  [Conv!Next]_(Conv!vars)
<1>1. /\ torn' = (torn \/ fwd.done > 0)
      /\ fwd'.done = 0 /\ NumLayers \in Nat \ {0}
      /\ fwd.done \in 0 .. NumLayers
      /\ UNCHANGED << meta, layer >>
  BY HistoryAssumption DEF FailForward, NoForward, Inv, TypeOK, ForwardType
<1>2. CASE torn'
  BY <1>2 DEF Stored, Kept, Conv!Lose, Conv!Next
<1>3. CASE ~torn'
  <2>1. ~torn /\ ~(fwd.done > 0)
    BY <1>1, <1>3
  <2>2. torn' = torn
    <3>1. torn' \in BOOLEAN /\ torn \in BOOLEAN
      BY <1>1 DEF Inv, TypeOK
    <3>2. QED
      BY <1>3, <2>1, <3>1
  <2>3. fwd'.done # NumLayers /\ fwd.done # NumLayers
    BY <1>1, <2>1
  <2>4. UNCHANGED Conv!vars
    BY <1>1, <2>2, <2>3, SameConversation
  <2>5. QED
    BY <2>4
<1>4. QED
  BY <1>2, <1>3

(* The initial states map to those of Conversation.                        *)
LEMMA InitConversation ==
  ASSUME Init
  PROVE  Conv!Init
<1>1. /\ ~torn /\ fwd.done = 0 /\ NumLayers \in Nat \ {0}
      /\ meta = EmptyMeta
      /\ layer[NumLayers].past = 0
  BY HistoryAssumption DEF Init, NoForward, EmptyCache, Layers
<1>2. LastRows = << >>
  BY <1>1 DEF LastRows, Rows
<1>3. Survivors(<< >>) = << >>
  <2>1. SubSeq(<< >>, 1, 0) = << >>
    BY SubSeqEmpty
  <2>2. << >> \o << >> = << >>
    BY EmptySeq, ConcatEmptySeq
  <2>3. QED
    BY <1>1, <2>1, <2>2 DEF Survivors, EmptyMeta
<1>4. QED
  BY <1>1, <1>2, <1>3 DEF Conv!Init, Stored, Kept

-----------------------------------------------------------------------------
(* What a forward attends to is exactly what was forwarded before, in      *)
(* order, minus the erased ranges: every behaviour of eraseHistory, reset, *)
(* generate_init, forwardRaw and the attention layers is one of an abstract *)
(* store of tokens.                                                        *)
THEOREM Refinement ==
  ASSUME Supported
  PROVE  Spec => ImplementsConversation
<1>1. Init => Conv!Init
  BY InitConversation
<1>2. Init => RowsFit
  BY FitInit
<1>3. Inv /\ RowsFit /\ [Next]_vars => RowsFit'
  BY FitStep
<1>4. Inv /\ RowsFit /\ [Next]_vars => [Conv!Next]_(Conv!vars)
  <2> SUFFICES ASSUME Inv, RowsFit, [Next]_vars
               PROVE  [Conv!Next]_(Conv!vars)
    OBVIOUS
  <2>1. ASSUME NEW begin \in 0 .. MaxLen, NEW last \in 0 .. MaxLen,
               EraseHistory(begin, last)
        PROVE  [Conv!Next]_(Conv!vars)
    BY <2>1, EraseHistorySteps
  <2>2. CASE Reset
    BY <2>2, RemoveAllSteps DEF Reset
  <2>3. ASSUME NEW reuseKV \in BOOLEAN, GenerateInit(reuseKV)
        PROVE  [Conv!Next]_(Conv!vars)
    BY <2>3, GenerateInitSteps
  <2>4. ASSUME NEW toks \in Inputs, NEW pad \in 0 .. MaxPad,
               BeginForward(toks, pad)
        PROVE  [Conv!Next]_(Conv!vars)
    BY <2>4, BeginForwardSteps
  <2>5. CASE LayerStep
    BY <2>5, LayerStepSteps
  <2>6. ASSUME NEW accepted \in 1 .. MaxAdd, EndForward(accepted)
        PROVE  [Conv!Next]_(Conv!vars)
    BY <2>6, EndForwardSteps
  <2>7. CASE FailForward
    BY <2>7, FailForwardSteps
  <2>8. CASE UNCHANGED vars
    BY <2>8, SameConversation DEF vars
  <2>9. QED
    BY <2>1, <2>2, <2>3, <2>4, <2>5, <2>6, <2>7, <2>8 DEF Next
<1>5. QED
  BY <1>1, <1>2, <1>3, <1>4, InvCorrect, PTL
  DEF Spec, ImplementsConversation, Conv!Spec

-----------------------------------------------------------------------------
(* KVLayout.                                                               *)
(*                                                                         *)
(* An index is a number written in mixed radix: every term of a formula is *)
(* a digit with its place value.  Digits determine the number and the      *)
(* number its digits, so no two elements share an index, and an index is   *)
(* inside the buffer when its first digit is.                              *)

-----------------------------------------------------------------------------
(* Arithmetic.                                                             *)

(* Multiplication by a natural number is monotonic.                        *)
LEMMA Multiples ==
  ASSUME NEW i \in Int, NEW j \in Int, NEW b \in Nat, i <= j
  PROVE  i * b \in Int /\ j * b \in Int /\ i * b <= j * b
<1> DEFINE d == j - i
<1>1. d \in Nat /\ j = i + d
  OBVIOUS
<1>2. (i + d) * b = i * b + d * b /\ i * b \in Int
  BY <1>1
<1>3. d * b \in Nat
  BY <1>1
<1> HIDE DEF d
<1>4. QED
  BY <1>1, <1>2, <1>3

(* A digit and what is above it determine the number, and are inside when  *)
(* the part above is.                                                      *)
LEMMA Digit ==
  ASSUME NEW b \in Nat \ {0}, NEW n \in Nat, NEW q \in 0 .. n - 1, NEW r \in 0 .. b - 1
  PROVE  q * b + r \in 0 .. n * b - 1 /\ n * b \in Nat
<1>1. 0 * b <= q * b /\ q * b \in Int /\ 0 * b = 0
  BY Multiples
<1>2. (q + 1) * b <= n * b /\ n * b \in Int
  BY Multiples
<1>3. (q + 1) * b = q * b + b
  OBVIOUS
<1>4. PICK x \in Int, y \in Int : x = q * b /\ y = n * b
  BY <1>1, <1>2
<1>5. 0 <= x /\ x + b <= y
  BY <1>1, <1>2, <1>3, <1>4
<1>6. x + r \in 0 .. y - 1 /\ y \in Nat
  BY ONLY <1>4, <1>5, b \in Nat \ {0}, r \in 0 .. b - 1
<1>7. QED
  BY <1>4, <1>6

(* Equal numbers have equal digits.                                        *)
LEMMA SameDigit ==
  ASSUME NEW b \in Nat \ {0}, NEW q \in Nat, NEW q2 \in Nat,
         NEW r \in 0 .. b - 1, NEW r2 \in 0 .. b - 1,
         q * b + r = q2 * b + r2
  PROVE  q = q2 /\ r = r2
<1>1. ASSUME NEW x \in Nat, NEW y \in Nat, x < y, NEW s \in 0 .. b - 1, NEW t \in 0 .. b - 1
      PROVE  x * b + s # y * b + t
  <2>1. (x + 1) * b <= y * b /\ y * b \in Int /\ x * b \in Int
    BY <1>1, Multiples
  <2>2. (x + 1) * b = x * b + b
    OBVIOUS
  <2>3. PICK u \in Int, v \in Int : u = x * b /\ v = y * b
    BY <2>1
  <2>4. u + b <= v
    BY <2>1, <2>2, <2>3
  <2>5. u + s # v + t
    BY ONLY <2>3, <2>4, b \in Nat, s \in 0 .. b - 1, t \in 0 .. b - 1
  <2>6. QED
    BY <2>3, <2>5
<1>2. q = q2
  <2>1. ~(q < q2) /\ ~(q2 < q)
    BY <1>1
  <2>2. QED
    BY <2>1
<1>3. q * b \in Int
  BY Multiples
<1>4. QED
  BY <1>2, <1>3

(* Division leaves a digit.                                                *)
LEMMA Divided ==
  ASSUME NEW x \in Nat, NEW b \in Nat \ {0}
  PROVE  x \div b \in Nat /\ x % b \in 0 .. b - 1 /\ x = (x \div b) * b + (x % b)
<1>1. PICK q \in Int, r \in Int : q = x \div b /\ r = x % b
  OBVIOUS
<1>2. x = b * q + r /\ r \in 0 .. b - 1
  BY <1>1, SMTT(30)
<1>3. q >= 0
  <2> SUFFICES ASSUME q + 1 <= 0 PROVE FALSE
    BY <1>1
  <2>1. (q + 1) * b <= 0 * b /\ 0 * b = 0
    BY <1>1, Multiples
  <2>2. (q + 1) * b = b * q + b
    BY <1>1
  <2>3. QED
    BY <1>1, <1>2, <2>1, <2>2
<1>4. x = q * b + r
  <2>1. b * q = q * b
    BY <1>1
  <2>2. QED
    BY <1>2, <2>1
<1>5. q \in Nat
  BY <1>1, <1>3
<1>6. QED
  BY <1>1, <1>2, <1>4, <1>5

(* UP_DIV: the groups of b that x elements fill or begin.                  *)
LEMMA Groups ==
  ASSUME NEW x \in Nat, NEW b \in Nat \ {0}
  PROVE  /\ UpDiv(x, b) \in Nat
         /\ x <= UpDiv(x, b) * b
         /\ \A y \in 0 .. x - 1 : y \div b \in 0 .. UpDiv(x, b) - 1
<1> DEFINE n == (x + b - 1) \div b
           s == (x + b - 1) % b
<1>1. x + b - 1 \in Nat
  OBVIOUS
<1>2. n \in Nat /\ s \in 0 .. b - 1 /\ x + b - 1 = n * b + s
  BY <1>1, Divided
<1> HIDE DEF n, s
<1>3. PICK m \in Int : m = n * b
  BY <1>2
<1>4. x <= m
  BY <1>2, <1>3
<1>5. ASSUME NEW y \in 0 .. x - 1
      PROVE  y \div b \in 0 .. n - 1
  <2> DEFINE q == y \div b
             r == y % b
  <2>1. q \in Nat /\ r \in 0 .. b - 1 /\ y = q * b + r
    <3>1. y \in Nat
      OBVIOUS
    <3>2. QED
      BY <3>1, Divided
  <2> HIDE DEF q, r
  <2>2. q < n
    <3> SUFFICES ASSUME n <= q PROVE FALSE
      BY <1>2, <2>1
    <3>1. n * b <= q * b /\ q * b \in Int
      BY <1>2, <2>1, Multiples
    <3>2. QED
      BY <1>3, <1>4, <2>1, <3>1
  <2>3. QED
    BY <1>2, <2>1, <2>2 DEF q
<1>6. QED
  BY <1>2, <1>3, <1>4, <1>5 DEF UpDiv, n

(* More elements fill at least as many groups.                             *)
LEMMA MoreGroups ==
  ASSUME NEW x \in Nat, NEW y \in Nat, x <= y, NEW b \in Nat \ {0}
  PROVE  UpDiv(x, b) <= UpDiv(y, b)
<1> DEFINE m == UpDiv(x, b)
           n == UpDiv(y, b)
<1>1. m \in Nat /\ n \in Nat /\ y <= n * b
  BY Groups
<1>2. CASE x = 0
  <2>1. m = (b - 1) \div b
    BY <1>2 DEF UpDiv
  <2>2. b - 1 \in Nat
    OBVIOUS
  <2>3. /\ (b - 1) \div b \in Nat /\ (b - 1) % b \in 0 .. b - 1
        /\ b - 1 = ((b - 1) \div b) * b + ((b - 1) % b)
    BY <2>2, Divided
  <2>4. b - 1 = 0 * b + (b - 1) /\ b - 1 \in 0 .. b - 1
    OBVIOUS
  <2>5. (b - 1) \div b = 0
    BY <2>3, <2>4, SameDigit
  <2>6. QED
    BY <1>1, <2>1, <2>5
<1>3. CASE x # 0
  <2>1. x - 1 \in Nat /\ x - 1 \in 0 .. x - 1 /\ x - 1 \in 0 .. y - 1
    BY <1>3
  <2>2. (x - 1) \div b \in 0 .. m - 1 /\ (x - 1) \div b \in 0 .. n - 1
    BY <2>1, Groups
  <2>3. PICK q \in Nat, r \in 0 .. b - 1 :
          q = (x - 1) \div b /\ r = (x - 1) % b /\ x - 1 = q * b + r
    BY <2>1, Divided
  <2>4. m = (x + b - 1) \div b
    BY DEF UpDiv
  <2>5. x + b - 1 = (q + 1) * b + r
    <3>1. (q + 1) * b = q * b + b /\ q * b \in Int
      OBVIOUS
    <3>2. QED
      BY <2>3, <3>1
  <2>6. (x + b - 1) \div b = q + 1
    <3>1. x + b - 1 \in Nat
      OBVIOUS
    <3>2. /\ (x + b - 1) \div b \in Nat /\ (x + b - 1) % b \in 0 .. b - 1
          /\ x + b - 1 = ((x + b - 1) \div b) * b + ((x + b - 1) % b)
      BY <3>1, Divided
    <3>3. q + 1 \in Nat
      OBVIOUS
    <3> DEFINE u == (x + b - 1) \div b
               v == (x + b - 1) % b
    <3> HIDE DEF u, v
    <3>4. u \in Nat /\ v \in 0 .. b - 1 /\ (q + 1) * b + r = u * b + v
      BY <2>5, <3>2 DEF u, v
    <3>5. q + 1 = u
      BY <3>3, <3>4, SameDigit
    <3>6. QED
      BY <3>5 DEF u
  <2>7. m = q + 1 /\ q \in 0 .. n - 1
    BY ONLY <2>2, <2>3, <2>4, <2>6
  <2> HIDE DEF m, n
  <2>8. m <= n
    BY <1>1, <2>7
  <2>9. QED
    BY <2>8 DEF m, n
<1>4. QED
  BY <1>2, <1>3

(* The numbers of four and of five digits, the first without a radix.      *)
Four(u, h, l, a, b, c, d) == ((a * u + b) * h + c) * l + d
Five(g, v, h, l, a, b, c, d, e) == (((a * g + b) * v + c) * h + d) * l + e

(* They are inside the product of the radices when the first digit is.     *)
LEMMA FourDigits ==
  ASSUME NEW n \in Nat, NEW u \in Nat \ {0}, NEW h \in Nat \ {0}, NEW l \in Nat \ {0},
         NEW a \in 0 .. n - 1, NEW b \in 0 .. u - 1, NEW c \in 0 .. h - 1, NEW d \in 0 .. l - 1
  PROVE  Four(u, h, l, a, b, c, d) \in 0 .. ((n * u) * h) * l - 1
<1>1. a * u + b \in 0 .. n * u - 1 /\ n * u \in Nat
  BY Digit
<1>2. (a * u + b) * h + c \in 0 .. (n * u) * h - 1 /\ (n * u) * h \in Nat
  <2>1. PICK q \in Int, m \in Nat : q = a * u + b /\ m = n * u
    BY <1>1
  <2>2. q \in 0 .. m - 1
    BY <1>1, <2>1
  <2>3. q * h + c \in 0 .. m * h - 1 /\ m * h \in Nat
    BY <2>1, <2>2, Digit
  <2>4. QED
    BY <2>1, <2>3
<1>3. PICK q \in Int, m \in Nat : q = (a * u + b) * h + c /\ m = (n * u) * h
  BY <1>2
<1>4. q \in 0 .. m - 1
  BY <1>2, <1>3
<1>5. q * l + d \in 0 .. m * l - 1
  BY <1>3, <1>4, Digit
<1>6. QED
  BY <1>3, <1>5 DEF Four

(* A number written with five digits is less than the product of the bases. *)
LEMMA FiveDigits ==
  ASSUME NEW n \in Nat, NEW g \in Nat \ {0}, NEW v \in Nat \ {0},
         NEW h \in Nat \ {0}, NEW l \in Nat \ {0},
         NEW a \in 0 .. n - 1, NEW b \in 0 .. g - 1, NEW c \in 0 .. v - 1,
         NEW d \in 0 .. h - 1, NEW e \in 0 .. l - 1
  PROVE  Five(g, v, h, l, a, b, c, d, e) \in 0 .. (((n * g) * v) * h) * l - 1
<1>1. ((a * g + b) * v + c) * h + d \in 0 .. ((n * g) * v) * h - 1
  BY FourDigits DEF Four
<1>2. ((n * g) * v) * h \in Nat
  <2>1. n * g \in Nat
    OBVIOUS
  <2>2. (n * g) * v \in Nat
    BY <2>1
  <2>3. QED
    BY <2>2
<1>3. PICK q \in Int, m \in Nat :
        q = ((a * g + b) * v + c) * h + d /\ m = ((n * g) * v) * h
  BY <1>1, <1>2
<1>4. q \in 0 .. m - 1
  BY <1>1, <1>3
<1>5. q * l + e \in 0 .. m * l - 1
  BY <1>3, <1>4, Digit
<1>6. QED
  BY <1>3, <1>5 DEF Five

(* Equal numbers of four or of five digits are equal digit by digit.       *)
LEMMA FourDigitsApart ==
  \A u, h, l, a, b, c, d, a2, b2, c2, d2 :
    /\ Four(u, h, l, a, b, c, d) = Four(u, h, l, a2, b2, c2, d2)
    /\ u \in Nat \ {0} /\ h \in Nat \ {0} /\ l \in Nat \ {0}
    /\ a \in Nat /\ b \in 0 .. u - 1 /\ c \in 0 .. h - 1 /\ d \in 0 .. l - 1
    /\ a2 \in Nat /\ b2 \in 0 .. u - 1 /\ c2 \in 0 .. h - 1 /\ d2 \in 0 .. l - 1
    => a = a2 /\ b = b2 /\ c = c2 /\ d = d2
<1> TAKE u, h, l, a, b, c, d, a2, b2, c2, d2
<1> HAVE
      /\ Four(u, h, l, a, b, c, d) = Four(u, h, l, a2, b2, c2, d2)
      /\ u \in Nat \ {0} /\ h \in Nat \ {0} /\ l \in Nat \ {0}
      /\ a \in Nat /\ b \in 0 .. u - 1 /\ c \in 0 .. h - 1 /\ d \in 0 .. l - 1
      /\ a2 \in Nat /\ b2 \in 0 .. u - 1 /\ c2 \in 0 .. h - 1 /\ d2 \in 0 .. l - 1
<1>1. a * u + b \in Nat /\ a2 * u + b2 \in Nat
  <2>1. a * u \in Nat /\ a2 * u \in Nat
    OBVIOUS
  <2>2. QED
    BY <2>1
<1>2. PICK q \in Nat, q2 \in Nat : q = a * u + b /\ q2 = a2 * u + b2
  BY <1>1
<1>3. q * h + c \in Nat /\ q2 * h + c2 \in Nat
  <2>1. q * h \in Nat /\ q2 * h \in Nat
    OBVIOUS
  <2>2. QED
    BY <2>1
<1>4. PICK s \in Nat, s2 \in Nat : s = q * h + c /\ s2 = q2 * h + c2
  BY <1>3
<1>5. s * l + d = s2 * l + d2
  BY <1>2, <1>4 DEF Four
<1>6. s = s2 /\ d = d2
  BY <1>5, SameDigit
<1>7. q = q2 /\ c = c2
  BY <1>4, <1>6, SameDigit
<1>8. a = a2 /\ b = b2
  BY <1>2, <1>7, SameDigit
<1>9. QED
  BY <1>6, <1>7, <1>8

(* Two such numbers in the same bases are equal only when all digits are. *)
LEMMA FiveDigitsApart ==
  \A g, v, h, l, a, b, c, d, e, a2, b2, c2, d2, e2 :
    /\ Five(g, v, h, l, a, b, c, d, e) = Five(g, v, h, l, a2, b2, c2, d2, e2)
    /\ g \in Nat \ {0} /\ v \in Nat \ {0} /\ h \in Nat \ {0} /\ l \in Nat \ {0}
    /\ a \in Nat /\ b \in 0 .. g - 1 /\ c \in 0 .. v - 1 /\ d \in 0 .. h - 1 /\ e \in 0 .. l - 1
    /\ a2 \in Nat /\ b2 \in 0 .. g - 1 /\ c2 \in 0 .. v - 1 /\ d2 \in 0 .. h - 1 /\ e2 \in 0 .. l - 1
    => a = a2 /\ b = b2 /\ c = c2 /\ d = d2 /\ e = e2
<1> TAKE g, v, h, l, a, b, c, d, e, a2, b2, c2, d2, e2
<1> HAVE
      /\ Five(g, v, h, l, a, b, c, d, e) = Five(g, v, h, l, a2, b2, c2, d2, e2)
      /\ g \in Nat \ {0} /\ v \in Nat \ {0} /\ h \in Nat \ {0} /\ l \in Nat \ {0}
      /\ a \in Nat /\ b \in 0 .. g - 1 /\ c \in 0 .. v - 1 /\ d \in 0 .. h - 1 /\ e \in 0 .. l - 1
      /\ a2 \in Nat /\ b2 \in 0 .. g - 1 /\ c2 \in 0 .. v - 1 /\ d2 \in 0 .. h - 1 /\ e2 \in 0 .. l - 1
<1>1. a * g + b \in Nat /\ a2 * g + b2 \in Nat
  <2>1. a * g \in Nat /\ a2 * g \in Nat
    OBVIOUS
  <2>2. QED
    BY <2>1
<1>2. PICK q \in Nat, q2 \in Nat : q = a * g + b /\ q2 = a2 * g + b2
  BY <1>1
<1>3. q * v + c \in Nat /\ q2 * v + c2 \in Nat
  <2>1. q * v \in Nat /\ q2 * v \in Nat
    OBVIOUS
  <2>2. QED
    BY <2>1
<1>4. PICK s \in Nat, s2 \in Nat : s = q * v + c /\ s2 = q2 * v + c2
  BY <1>3
<1>5. s * h + d \in Nat /\ s2 * h + d2 \in Nat
  <2>1. s * h \in Nat /\ s2 * h \in Nat
    OBVIOUS
  <2>2. QED
    BY <2>1
<1>6. PICK t \in Nat, t2 \in Nat : t = s * h + d /\ t2 = s2 * h + d2
  BY <1>5
<1>7. t * l + e = t2 * l + e2
  BY <1>2, <1>4, <1>6 DEF Five
<1>8. t = t2 /\ e = e2
  BY <1>7, SameDigit
<1>9. s = s2 /\ d = d2
  BY <1>6, <1>8, SameDigit
<1>10. q = q2 /\ c = c2
  BY <1>4, <1>9, SameDigit
<1>11. a = a2 /\ b = b2
  BY <1>2, <1>10, SameDigit
<1>12. QED
  BY <1>8, <1>9, <1>10, <1>11

-----------------------------------------------------------------------------
(* Indices.                                                                *)

(* What the packing and the dimensions are.                                *)
LEMMA Packing ==
  /\ hP \in Nat \ {0} /\ lP \in Nat \ {0} /\ HeadDim \in Nat \ {0} /\ FlashBlock \in Nat \ {0}
  /\ \A dim \in Dims : dim \in Nat /\ dim \in 0 .. HeadDim - 1
  /\ UpDiv(HeadDim, lP) \in Nat /\ UpDiv(HeadDim, hP) \in Nat
<1>1. hP \in Nat \ {0} /\ lP \in Nat \ {0} /\ HeadDim \in Nat \ {0} /\ FlashBlock \in Nat \ {0}
  BY LayoutAssumption
<1>2. \A dim \in Dims : dim \in Nat /\ dim \in 0 .. HeadDim - 1
  BY <1>1 DEF Dims
<1>3. UpDiv(HeadDim, lP) \in Nat /\ UpDiv(HeadDim, hP) \in Nat
  BY <1>1, Groups
<1>4. QED
  BY <1>1, <1>2, <1>3

(* The formula of ProcessKey, digit by digit.                              *)
LEMMA KeyRadix ==
  ASSUME NEW a \in Int, NEW b \in Int, NEW c \in Int, NEW d \in Int,
         NEW u \in Int, NEW h \in Int, NEW l \in Int
  PROVE  a * (u * l) * h + b * h * l + c * l + d = ((a * u + b) * h + c) * l + d
OBVIOUS

(* The index of a key, written in mixed radix; moveKV computes the same.   *)
LEMMA KeyDigits ==
  ASSUME NEW seq \in Nat, NEW dim \in Dims
  PROVE  /\ KeyIndex(seq, dim) =
              Four(UpDiv(HeadDim, lP), hP, lP, seq \div hP, dim \div lP, seq % hP, dim % lP)
         /\ MovedKeyIndex(seq, dim) = KeyIndex(seq, dim)
<1> DEFINE a == seq \div hP
           b == dim \div lP
           c == seq % hP
           d == dim % lP
           u == UpDiv(HeadDim, lP)
<1>1. a \in Int /\ b \in Int /\ c \in Int /\ d \in Int /\ u \in Int /\ hP \in Int /\ lP \in Int
  <2>1. dim \in Nat
    BY Packing
  <2>2. seq \div hP \in Nat /\ seq % hP \in 0 .. hP - 1
    BY Packing, Divided
  <2>3. dim \div lP \in Nat /\ dim % lP \in 0 .. lP - 1
    BY <2>1, Packing, Divided
  <2>4. QED
    BY <2>2, <2>3, Packing
<1>2. KeyIndex(seq, dim) = a * (u * lP) * hP + b * hP * lP + c * lP + d
  BY DEF KeyIndex, RoundUp
<1>3. MovedKeyIndex(seq, dim) = KeyIndex(seq, dim)
  BY DEF KeyIndex, MovedKeyIndex
<1> HIDE DEF a, b, c, d, u
<1>4. KeyIndex(seq, dim) = Four(u, hP, lP, a, b, c, d)
  BY <1>1, <1>2, KeyRadix DEF Four
<1>5. QED
  BY <1>3, <1>4 DEF a, b, c, d, u

(* Where a key lies: inside the buffer, and apart from every other one.    *)
LEMMA KeyPlace ==
  ASSUME NEW max \in Nat
  PROVE  /\ KeySize(max) \in Nat
         /\ \A seq \in 0 .. max - 1, dim \in Dims : KeyIndex(seq, dim) \in 0 .. KeySize(max) - 1
<1> DEFINE n == UpDiv(max, hP)
           u == UpDiv(HeadDim, lP)
           size == ((n * u) * hP) * lP
<1>1. /\ n \in Nat /\ u \in Nat /\ n * u \in Nat /\ hP \in Nat \ {0} /\ lP \in Nat \ {0}
      /\ (n * u) * hP \in Nat /\ size \in Nat
  <2>1. n \in Nat /\ u \in Nat /\ hP \in Nat \ {0} /\ lP \in Nat \ {0}
    BY Packing, Groups
  <2> HIDE DEF n, u
  <2>2. n * u \in Nat
    BY <2>1
  <2>3. (n * u) * hP \in Nat
    BY <2>1, <2>2
  <2>4. size \in Nat
    BY <2>1, <2>3
  <2>5. QED
    BY <2>1, <2>2, <2>3, <2>4
<1>2. KeySize(max) = size
  <2>1. KeySize(max) = n * (u * lP) * hP
    BY DEF KeySize, RoundUp
  <2> HIDE DEF n, u
  <2>2. n * (u * lP) * hP = ((n * u) * hP) * lP
    BY <1>1
  <2>3. QED
    BY <2>1, <2>2
<1>3. ASSUME NEW seq \in 0 .. max - 1, NEW dim \in Dims
      PROVE  KeyIndex(seq, dim) \in 0 .. size - 1
  <2> DEFINE a == seq \div hP
             b == dim \div lP
             c == seq % hP
             d == dim % lP
  <2>1. seq \in Nat /\ dim \in Nat /\ dim \in 0 .. HeadDim - 1 /\ HeadDim \in Nat
    BY Packing
  <2>2. a \in 0 .. n - 1 /\ b \in 0 .. u - 1
    BY <2>1, Packing, Groups
  <2>3. c \in 0 .. hP - 1 /\ d \in 0 .. lP - 1
    BY <2>1, Packing, Divided
  <2>4. KeyIndex(seq, dim) = Four(u, hP, lP, a, b, c, d)
    BY <2>1, KeyDigits
  <2> HIDE DEF a, b, c, d, n, u
  <2>5. u \in Nat \ {0}
    BY <1>1, <2>2
  <2>6. Four(u, hP, lP, a, b, c, d) \in 0 .. ((n * u) * hP) * lP - 1
    BY <1>1, <2>2, <2>3, <2>5, FourDigits
  <2>7. QED
    BY <2>4, <2>6
<1>4. QED
  BY <1>1, <1>2, <1>3

(* Two different elements of the keys never share an index. *)
LEMMA KeyApart ==
  ASSUME NEW seq \in Nat, NEW seq2 \in Nat, NEW dim \in Dims, NEW dim2 \in Dims,
         KeyIndex(seq, dim) = KeyIndex(seq2, dim2)
  PROVE  seq = seq2 /\ dim = dim2
<1> DEFINE u == UpDiv(HeadDim, lP)
           a == seq \div hP
           a2 == seq2 \div hP
           b == dim \div lP
           b2 == dim2 \div lP
           c == seq % hP
           c2 == seq2 % hP
           d == dim % lP
           d2 == dim2 % lP
<1>1. /\ hP \in Nat \ {0} /\ lP \in Nat \ {0} /\ HeadDim \in Nat \ {0} /\ u \in Nat
      /\ dim \in 0 .. HeadDim - 1 /\ dim2 \in 0 .. HeadDim - 1 /\ dim \in Nat /\ dim2 \in Nat
  BY Packing
<1>2. /\ a \in Nat /\ c \in 0 .. hP - 1 /\ seq = a * hP + c
      /\ a2 \in Nat /\ c2 \in 0 .. hP - 1 /\ seq2 = a2 * hP + c2
  BY <1>1, Divided
<1>3. /\ d \in 0 .. lP - 1 /\ dim = b * lP + d
      /\ d2 \in 0 .. lP - 1 /\ dim2 = b2 * lP + d2
  BY <1>1, Divided
<1>4. b \in 0 .. u - 1 /\ b2 \in 0 .. u - 1
  BY <1>1, Groups
<1>5. /\ KeyIndex(seq, dim) = Four(u, hP, lP, a, b, c, d)
      /\ KeyIndex(seq2, dim2) = Four(u, hP, lP, a2, b2, c2, d2)
  BY KeyDigits
<1> HIDE DEF u, a, a2, b, b2, c, c2, d, d2
<1>6. u \in Nat \ {0}
  BY <1>1, <1>4
<1>7. a = a2 /\ b = b2 /\ c = c2 /\ d = d2
  <2>1. hP \in Nat \ {0} /\ lP \in Nat \ {0}
    BY <1>1
  <2>2. a \in Nat /\ a2 \in Nat /\ c \in 0 .. hP - 1 /\ c2 \in 0 .. hP - 1
    BY <1>2
  <2>3. d \in 0 .. lP - 1 /\ d2 \in 0 .. lP - 1
    BY <1>3
  <2>4. Four(u, hP, lP, a, b, c, d) = Four(u, hP, lP, a2, b2, c2, d2)
    BY <1>5
  <2>5. QED
    BY ONLY <1>4, <1>6, <2>1, <2>2, <2>3, <2>4, FourDigitsApart
<1>8. QED
  BY <1>2, <1>3, <1>7

(* A larger buffer of keys begins with the smaller one.                    *)
LEMMA KeySizeGrows ==
  ASSUME NEW old \in Nat, NEW new \in Nat, old <= new
  PROVE  KeySize(old) <= KeySize(new)
<1> DEFINE m == UpDiv(old, hP)
           n == UpDiv(new, hP)
           w == RoundUp(HeadDim, lP)
<1>1. m \in Nat /\ n \in Nat /\ m <= n /\ hP \in Nat
  BY Packing, Groups, MoreGroups
<1>2. w \in Nat
  BY Packing DEF RoundUp
<1>3. KeySize(old) = m * w * hP /\ KeySize(new) = n * w * hP
  BY DEF KeySize
<1> HIDE DEF m, n, w
<1>4. m * w <= n * w /\ m * w \in Int /\ n * w \in Int
  BY <1>1, <1>2, Multiples
<1>5. m * w * hP <= n * w * hP
  BY <1>1, <1>4, Multiples
<1>6. QED
  BY <1>3, <1>5

(* The formula of ProcessValue, digit by digit.                            *)
LEMMA ValueRadix ==
  ASSUME NEW a \in Int, NEW b \in Int, NEW c \in Int, NEW d \in Int, NEW e \in Int,
         NEW g \in Int, NEW v \in Int, NEW h \in Int, NEW l \in Int
  PROVE  a * (v * l * h) * g + b * (v * l * h) + c * l * h + d * l + e
           = (((a * g + b) * v + c) * h + d) * l + e
OBVIOUS

(* The index of a value, written in mixed radix.                           *)
LEMMA ValueDigits ==
  ASSUME NEW max, UpperKv(max) \in Nat \ {0}, NEW seq \in Nat, NEW dim \in Dims
  PROVE  ValueIndex(max, seq, dim)
           = Five(UpDiv(HeadDim, hP), UpDiv(UpperKv(max), lP), hP, lP,
                  seq \div UpperKv(max), dim \div hP,
                  (seq % UpperKv(max)) \div lP, dim % hP, (seq % UpperKv(max)) % lP)
<1> DEFINE inner == seq % UpperKv(max)
           a == seq \div UpperKv(max)
           b == dim \div hP
           c == inner \div lP
           d == dim % hP
           e == inner % lP
           g == UpDiv(HeadDim, hP)
           v == UpDiv(UpperKv(max), lP)
<1>1. a \in Nat /\ inner \in 0 .. UpperKv(max) - 1
  BY Divided
<1>2. inner \in Nat
  BY <1>1
<1>3. c \in Int /\ e \in Int
  <2> HIDE DEF inner
  <2>1. inner \div lP \in Nat /\ inner % lP \in 0 .. lP - 1
    BY <1>2, Packing, Divided
  <2>2. QED
    BY <2>1
<1>4. b \in Int /\ d \in Int
  <2>1. dim \in Nat
    BY Packing
  <2>2. dim \div hP \in Nat /\ dim % hP \in 0 .. hP - 1
    BY <2>1, Packing, Divided
  <2>3. QED
    BY <2>2
<1>5. g \in Int /\ v \in Int /\ hP \in Int /\ lP \in Int
  BY Packing, Groups
<1>6. ValueIndex(max, seq, dim)
        = a * (v * lP * hP) * g + b * (v * lP * hP) + c * lP * hP + d * lP + e
  BY DEF ValueIndex
<1> HIDE DEF inner, a, b, c, d, e, g, v
<1>7. ValueIndex(max, seq, dim) = (((a * g + b) * v + c) * hP + d) * lP + e
  BY <1>1, <1>3, <1>4, <1>5, <1>6, ValueRadix
<1>8. ValueIndex(max, seq, dim) = Five(g, v, hP, lP, a, b, c, d, e)
  BY <1>7 DEF Five
<1>9. QED
  BY <1>8 DEF inner, a, b, c, d, e, g, v

(* What the digits of an index are.                                        *)
LEMMA ValueDigitTypes ==
  ASSUME NEW max, UpperKv(max) \in Nat \ {0}, NEW seq \in Nat, NEW dim \in Dims
  PROVE  /\ seq \div UpperKv(max) \in Nat
         /\ dim \div hP \in 0 .. UpDiv(HeadDim, hP) - 1
         /\ (seq % UpperKv(max)) \div lP \in 0 .. UpDiv(UpperKv(max), lP) - 1
         /\ dim % hP \in 0 .. hP - 1
         /\ (seq % UpperKv(max)) % lP \in 0 .. lP - 1
         /\ UpDiv(HeadDim, hP) \in Nat \ {0}
         /\ UpDiv(UpperKv(max), lP) \in Nat \ {0}
<1> DEFINE u == UpperKv(max)
           inner == seq % u
           g == UpDiv(HeadDim, hP)
           v == UpDiv(u, lP)
<1>1. /\ hP \in Nat \ {0} /\ lP \in Nat \ {0} /\ HeadDim \in Nat
      /\ dim \in Nat /\ dim \in 0 .. HeadDim - 1 /\ g \in Nat
  BY Packing
<1> HIDE DEF u
<1>2. u \in Nat \ {0}
  BY DEF u
<1>3. seq \div u \in Nat /\ inner \in 0 .. u - 1
  BY <1>2, Divided
<1>4. dim \div hP \in 0 .. g - 1
  BY <1>1, Groups
<1>5. dim % hP \in 0 .. hP - 1
  BY <1>1, Divided
<1> HIDE DEF inner
<1>6. inner \in Nat
  BY <1>2, <1>3
<1>7. inner \div lP \in 0 .. v - 1 /\ v \in Nat
  BY <1>1, <1>2, <1>3, Groups
<1>8. inner % lP \in 0 .. lP - 1
  BY <1>1, <1>6, Divided
<1>9. g \in Nat \ {0} /\ v \in Nat \ {0}
  <2> DEFINE x == dim \div hP
             y == inner \div lP
  <2>1. x \in 0 .. g - 1 /\ y \in 0 .. v - 1
    BY <1>4, <1>7
  <2> HIDE DEF x, y, g, v
  <2>2. QED
    BY <1>1, <1>7, <2>1
<1>10. QED
  BY <1>3, <1>4, <1>5, <1>7, <1>8, <1>9 DEF inner, u

(* Where a value lies: inside the buffer, and apart from every other one.  *)
LEMMA ValuePlace ==
  ASSUME NEW max \in Nat, UpperKv(max) \in Nat \ {0}
  PROVE  /\ ValueSize(max) \in Nat
         /\ \A seq \in 0 .. max - 1, dim \in Dims :
              ValueIndex(max, seq, dim) \in 0 .. ValueSize(max) - 1
<1> DEFINE n == UpDiv(max, UpperKv(max))
           g == UpDiv(HeadDim, hP)
           v == UpDiv(UpperKv(max), lP)
           size == (((n * g) * v) * hP) * lP
<1>1. n \in Nat /\ g \in Nat /\ v \in Nat /\ hP \in Nat \ {0} /\ lP \in Nat \ {0}
  BY Packing, Groups
<1>2. size \in Nat
  <2> HIDE DEF n, g, v
  <2>1. n * g \in Nat
    BY <1>1
  <2>2. (n * g) * v \in Nat
    BY <1>1, <2>1
  <2>3. ((n * g) * v) * hP \in Nat
    BY <1>1, <2>2
  <2>4. QED
    BY <1>1, <2>3
<1>3. ValueSize(max) = size
  <2>1. ValueSize(max) = n * (g * hP) * (v * lP)
    BY DEF ValueSize, RoundUp
  <2> HIDE DEF n, g, v
  <2>2. n * (g * hP) * (v * lP) = (((n * g) * v) * hP) * lP
    BY <1>1
  <2>3. QED
    BY <2>1, <2>2
<1>4. ASSUME NEW seq \in 0 .. max - 1, NEW dim \in Dims
      PROVE  ValueIndex(max, seq, dim) \in 0 .. size - 1
  <2> DEFINE a == seq \div UpperKv(max)
             b == dim \div hP
             c == (seq % UpperKv(max)) \div lP
             d == dim % hP
             e == (seq % UpperKv(max)) % lP
  <2>1. seq \in Nat
    OBVIOUS
  <2>2. a \in 0 .. n - 1
    BY Groups
  <2>3. /\ b \in 0 .. g - 1 /\ c \in 0 .. v - 1 /\ d \in 0 .. hP - 1 /\ e \in 0 .. lP - 1
        /\ g \in Nat \ {0} /\ v \in Nat \ {0}
    BY <2>1, ValueDigitTypes
  <2>4. ValueIndex(max, seq, dim) = Five(g, v, hP, lP, a, b, c, d, e)
    BY <2>1, ValueDigits
  <2> HIDE DEF a, b, c, d, e, n, g, v
  <2>5. Five(g, v, hP, lP, a, b, c, d, e) \in 0 .. (((n * g) * v) * hP) * lP - 1
    BY <1>1, <2>2, <2>3, FiveDigits
  <2>6. QED
    BY <2>4, <2>5
<1>5. QED
  BY <1>2, <1>3, <1>4

(* Two different elements of the values never share an index. *)
LEMMA ValueApart ==
  ASSUME NEW max, UpperKv(max) \in Nat \ {0},
         NEW seq \in Nat, NEW seq2 \in Nat, NEW dim \in Dims, NEW dim2 \in Dims,
         ValueIndex(max, seq, dim) = ValueIndex(max, seq2, dim2)
  PROVE  seq = seq2 /\ dim = dim2
<1> DEFINE u == UpperKv(max)
           g == UpDiv(HeadDim, hP)
           v == UpDiv(u, lP)
           a == seq \div u
           a2 == seq2 \div u
           i == seq % u
           i2 == seq2 % u
           b == dim \div hP
           b2 == dim2 \div hP
           c == i \div lP
           c2 == i2 \div lP
           d == dim % hP
           d2 == dim2 % hP
           e == i % lP
           e2 == i2 % lP
<1>1. hP \in Nat \ {0} /\ lP \in Nat \ {0} /\ dim \in Nat /\ dim2 \in Nat
  BY Packing
<1>2. /\ a \in Nat /\ b \in 0 .. g - 1 /\ c \in 0 .. v - 1 /\ d \in 0 .. hP - 1 /\ e \in 0 .. lP - 1
      /\ g \in Nat \ {0} /\ v \in Nat \ {0}
  BY ValueDigitTypes
<1>3. a2 \in Nat /\ b2 \in 0 .. g - 1 /\ c2 \in 0 .. v - 1 /\ d2 \in 0 .. hP - 1 /\ e2 \in 0 .. lP - 1
  BY ValueDigitTypes
<1>4. /\ ValueIndex(max, seq, dim) = Five(g, v, hP, lP, a, b, c, d, e)
      /\ ValueIndex(max, seq2, dim2) = Five(g, v, hP, lP, a2, b2, c2, d2, e2)
  BY ValueDigits
<1>5. i \in Nat /\ i2 \in Nat /\ seq = a * u + i /\ seq2 = a2 * u + i2
  <2>1. /\ i \in 0 .. u - 1 /\ seq = a * u + i
        /\ i2 \in 0 .. u - 1 /\ seq2 = a2 * u + i2
    BY Divided
  <2>2. QED
    BY <2>1
<1>6. dim = b * hP + d /\ dim2 = b2 * hP + d2
  BY <1>1, Divided
<1> HIDE DEF i, i2
<1>7. i = c * lP + e /\ i2 = c2 * lP + e2
  BY <1>1, <1>5, Divided
<1> HIDE DEF u, g, v, a, a2, b, b2, c, c2, d, d2, e, e2
<1>8. a = a2 /\ b = b2 /\ c = c2 /\ d = d2 /\ e = e2
  <2>1. Five(g, v, hP, lP, a, b, c, d, e) = Five(g, v, hP, lP, a2, b2, c2, d2, e2)
    BY <1>4
  <2>2. hP \in Nat \ {0} /\ lP \in Nat \ {0}
    BY <1>1
  <2>3. QED
    BY ONLY <1>2, <1>3, <2>1, <2>2, FiveDigitsApart
<1>9. i = i2
  BY <1>7, <1>8
<1>10. QED
  BY <1>5, <1>6, <1>8, <1>9

(* With flash attention a larger buffer of values begins with the smaller  *)
(* one: the blocks do not depend on the length.                            *)
LEMMA ValueSizeGrows ==
  ASSUME flash, NEW old \in Nat, NEW new \in Nat, old <= new
  PROVE  /\ ValueSize(old) \in Int /\ ValueSize(new) \in Int
         /\ ValueSize(old) <= ValueSize(new)
         /\ \A seq, dim : ValueIndex(old, seq, dim) = ValueIndex(new, seq, dim)
<1> DEFINE m == UpDiv(old, FlashBlock)
           n == UpDiv(new, FlashBlock)
           g == RoundUp(HeadDim, hP)
           w == RoundUp(FlashBlock, lP)
<1>1. m \in Nat /\ n \in Nat /\ m <= n
  BY Packing, Groups, MoreGroups
<1>2. g \in Nat /\ w \in Nat
  <2>1. UpDiv(FlashBlock, lP) \in Nat /\ UpDiv(HeadDim, hP) \in Nat /\ hP \in Nat /\ lP \in Nat
    BY Packing, Groups
  <2>2. QED
    BY <2>1 DEF RoundUp
<1>3. ValueSize(old) = m * g * w /\ ValueSize(new) = n * g * w
  BY DEF ValueSize, UpperKv
<1> HIDE DEF m, n, g, w
<1>4. m * g <= n * g /\ m * g \in Int /\ n * g \in Int
  BY <1>1, <1>2, Multiples
<1>5. m * g * w <= n * g * w /\ m * g * w \in Int /\ n * g * w \in Int
  BY <1>2, <1>4, Multiples
<1>6. \A seq, dim : ValueIndex(old, seq, dim) = ValueIndex(new, seq, dim)
  BY DEF ValueIndex, UpperKv
<1>7. QED
  BY <1>3, <1>5, <1>6

(* The two halves of an index in a buffer of one block: its group of       *)
(* dimensions and the place in the group, which does not depend on the     *)
(* length of the buffer.                                                   *)
ValueOffset(seq, dim) == (seq \div lP) * lP * hP + (dim % hP) * lP + (seq % lP)

(* The offset within a block of values as a number of three digits. *)
LEMMA OffsetRadix ==
  ASSUME NEW c \in Int, NEW d \in Int, NEW e \in Int, NEW h \in Int, NEW l \in Int
  PROVE  c * l * h + d * l + e = (c * h + d) * l + e
OBVIOUS

(* Without flash attention the values are one block: the index splits into *)
(* those halves, and moveKV computes the same index.                       *)
LEMMA SingleBlock ==
  ASSUME flash = FALSE, NEW max \in Nat, NEW seq \in 0 .. max - 1, NEW dim \in Dims
  PROVE  /\ ValueIndex(max, seq, dim)
              = (dim \div hP) * (RoundUp(max, lP) * hP) + ValueOffset(seq, dim)
         /\ ValueOffset(seq, dim) \in 0 .. RoundUp(max, lP) * hP - 1
         /\ MovedValueIndex(max, seq, dim) = ValueIndex(max, seq, dim)
<1> DEFINE v == UpDiv(max, lP)
           b == dim \div hP
           c == seq \div lP
           d == dim % hP
           e == seq % lP
           g == UpDiv(HeadDim, hP)
<1>1. /\ hP \in Nat \ {0} /\ lP \in Nat \ {0} /\ dim \in Nat /\ g \in Nat
      /\ max \in Nat \ {0} /\ seq \in Nat
  BY Packing
<1>2. seq \div max = 0 /\ seq % max = seq
  <2>1. seq \div max \in Nat /\ seq % max \in 0 .. max - 1 /\ seq = (seq \div max) * max + (seq % max)
    BY <1>1, Divided
  <2> DEFINE q == seq \div max
             r == seq % max
  <2>2. q \in Nat /\ r \in 0 .. max - 1 /\ q * max + r = 0 * max + seq
    BY <1>1, <2>1
  <2> HIDE DEF q, r
  <2>3. 0 = q /\ r = seq
    BY <1>1, <2>2, SameDigit
  <2>4. QED
    BY <2>3 DEF q, r
<1>3. b \in Int /\ d \in 0 .. hP - 1
  <2>1. dim \div hP \in Nat /\ dim % hP \in 0 .. hP - 1
    BY <1>1, Divided
  <2>2. QED
    BY <2>1
<1>4. v \in Nat /\ c \in 0 .. v - 1
  BY <1>1, Groups
<1>5. e \in 0 .. lP - 1
  BY <1>1, Divided
<1>6. UpperKv(max) = max
  BY DEF UpperKv
<1>7. ValueIndex(max, seq, dim)
        = 0 * (v * lP * hP) * g + b * (v * lP * hP) + c * lP * hP + d * lP + e
  BY <1>2, <1>6 DEF ValueIndex
<1>8. MovedValueIndex(max, seq, dim) = b * (v * lP) * hP + c * hP * lP + d * lP + e
  BY DEF MovedValueIndex, RoundUp
<1>9. ValueOffset(seq, dim) = c * lP * hP + d * lP + e /\ RoundUp(max, lP) * hP = v * lP * hP
  BY DEF ValueOffset, RoundUp
<1> HIDE DEF v, b, c, d, e, g
<1>10. c \in Int /\ d \in Int /\ e \in Int /\ v \in Int /\ hP \in Int /\ lP \in Int /\ g \in Int
  BY <1>1, <1>3, <1>4, <1>5
<1>11. c * lP * hP + d * lP + e \in 0 .. v * lP * hP - 1
  <2>1. c * hP + d \in 0 .. v * hP - 1 /\ v * hP \in Nat
    BY <1>1, <1>3, <1>4, Digit
  <2>2. PICK q \in Int, m \in Nat : q = c * hP + d /\ m = v * hP
    BY <1>10, <2>1
  <2>3. q * lP + e \in 0 .. m * lP - 1
    BY <1>1, <1>5, <2>1, <2>2, Digit
  <2>4. m * lP = v * lP * hP
    BY <1>10, <2>2
  <2>5. q * lP + e = c * lP * hP + d * lP + e
    BY <1>10, <2>2, OffsetRadix
  <2>6. QED
    BY <2>3, <2>4, <2>5
<1>12. ValueIndex(max, seq, dim) = b * (v * lP * hP) + (c * lP * hP + d * lP + e)
  <2>1. 0 * (v * lP * hP) * g = 0
    BY <1>10
  <2>2. b * (v * lP * hP) \in Int /\ c * lP * hP \in Int /\ d * lP \in Int
    BY <1>3, <1>10
  <2>3. QED
    BY <1>7, <1>10, <2>1, <2>2
<1>13. MovedValueIndex(max, seq, dim) = b * (v * lP * hP) + (c * lP * hP + d * lP + e)
  <2>1. b * (v * lP) * hP = b * (v * lP * hP) /\ c * hP * lP = c * lP * hP
    BY <1>3, <1>10
  <2>2. b * (v * lP * hP) \in Int /\ c * lP * hP \in Int /\ d * lP \in Int
    BY <1>3, <1>10
  <2>3. QED
    BY <1>8, <1>10, <2>1, <2>2
<1>14. QED
  BY <1>9, <1>11, <1>12, <1>13 DEF b

-----------------------------------------------------------------------------
(* Buffers.                                                                *)

(* A buffer holds rows: each is where attention reads it.                  *)
KeysHold(buffer, max, rows, past) ==
  /\ DOMAIN buffer = 0 .. KeySize(max) - 1
  /\ \A p \in 0 .. past - 1, dim \in Dims : buffer[KeyIndex(p, dim)] = Element(rows[p], dim)

ValuesHold(buffer, max, rows, past) ==
  /\ DOMAIN buffer = 0 .. ValueSize(max) - 1
  /\ \A p \in 0 .. past - 1, dim \in Dims :
       buffer[ValueIndex(max, p, dim)] = Element(rows[p], dim)

(* What onUpdateKV and onRealloc do to the rows.                           *)
Appended(rows, past, toks, after) ==
  /\ \A p \in 0 .. past - 1 : after[p] = rows[p]
  /\ \A n \in 1 .. Len(toks) : after[past + n - 1] = toks[n]

MovedDown(rows, src, dst, size, after) ==
  /\ \A p \in 0 .. dst - 1 : after[p] = rows[p]
  /\ \A n \in 0 .. size - 1 : after[dst + n] = rows[src + n]

(* What ProcessKey, ProcessValue, moveKV and expandKVCacheInMem do to the  *)
(* buffers.                                                                *)
StoredKeys(buffer, past, toks) == Store(buffer, KeyIndex, past, toks)
StoredValues(buffer, max, past, toks) ==
  Store(buffer, LAMBDA seq, dim : ValueIndex(max, seq, dim), past, toks)

MovedKeys(buffer, src, dst, size) == Move(buffer, MovedKeyIndex, src, dst, size)
MovedValues(buffer, max, src, dst, size) ==
  Move(buffer, LAMBDA seq, dim : MovedValueIndex(max, seq, dim), src, dst, size)

GrownKeys(buffer, old, new) == IF new = old THEN buffer ELSE ExpandPrefix(buffer, KeySize(new))
GrownValues(old, new) == IF new = old THEN values ELSE ExpandValues(old, new)

(* New rows come where they are read, and those before them stay.          *)
LEMMA StoreKeys ==
  ASSUME NEW max \in Nat, NEW past \in Nat, NEW toks \in Seq(Token), past + Len(toks) <= max,
         NEW buffer, NEW rows, NEW after, KeysHold(buffer, max, rows, past),
         Appended(rows, past, toks, after)
  PROVE  KeysHold(StoredKeys(buffer, past, toks), max, after, past + Len(toks))
<1> DEFINE new == StoredKeys(buffer, past, toks)
           Hits(i, w) == KeyIndex(past + w[1] - 1, w[2]) = i
           W == (1 .. Len(toks)) \X Dims
<1>1. Len(toks) \in Nat
  BY LenProperties
<1>2. new = [ i \in DOMAIN buffer |->
                IF \E n \in 1 .. Len(toks), dim \in Dims : KeyIndex(past + n - 1, dim) = i
                THEN Element(toks[(CHOOSE w \in W : Hits(i, w))[1]], (CHOOSE w \in W : Hits(i, w))[2])
                ELSE buffer[i] ]
  BY DEF StoredKeys, Store
<1> HIDE DEF new
<1>3. /\ DOMAIN buffer = 0 .. KeySize(max) - 1 /\ DOMAIN new = 0 .. KeySize(max) - 1
      /\ \A p \in 0 .. past - 1, dim \in Dims : buffer[KeyIndex(p, dim)] = Element(rows[p], dim)
  BY <1>2 DEF KeysHold
<1>4. ASSUME NEW p \in 0 .. past - 1, NEW dim \in Dims
      PROVE  new[KeyIndex(p, dim)] = Element(after[p], dim)
  <2>1. p \in Nat /\ p \in 0 .. max - 1
    BY <1>1
  <2>2. KeyIndex(p, dim) \in DOMAIN buffer
    BY <1>3, <2>1, KeyPlace
  <2>3. ASSUME NEW n \in 1 .. Len(toks), NEW d \in Dims
        PROVE  KeyIndex(past + n - 1, d) # KeyIndex(p, dim)
    <3>1. past + n - 1 \in Nat /\ past + n - 1 # p
      BY <1>1
    <3>2. QED
      BY <2>1, <3>1, KeyApart
  <2>4. new[KeyIndex(p, dim)] = buffer[KeyIndex(p, dim)]
    BY <1>2, <2>2, <2>3
  <2>5. after[p] = rows[p]
    BY DEF Appended
  <2>6. QED
    BY <1>3, <2>4, <2>5
<1>5. ASSUME NEW n \in 1 .. Len(toks), NEW dim \in Dims
      PROVE  new[KeyIndex(past + n - 1, dim)] = Element(after[past + n - 1], dim)
  <2> DEFINE i == KeyIndex(past + n - 1, dim)
             w == CHOOSE w \in W : Hits(i, w)
  <2>1. past + n - 1 \in Nat /\ past + n - 1 \in 0 .. max - 1
    BY <1>1
  <2>2. i \in DOMAIN buffer
    BY <1>3, <2>1, KeyPlace
  <2>3. w \in W /\ Hits(i, w)
    <3>1. << n, dim >> \in W /\ Hits(i, << n, dim >>)
      OBVIOUS
    <3> HIDE DEF W, Hits, i
    <3>2. QED
      BY <3>1
  <2> HIDE DEF w
  <2>4. w[1] \in 1 .. Len(toks) /\ w[2] \in Dims /\ KeyIndex(past + w[1] - 1, w[2]) = i
    BY <2>3
  <2>5. w[1] = n /\ w[2] = dim
    <3>1. PICK m \in 1 .. Len(toks), d \in Dims : m = w[1] /\ d = w[2]
      BY <2>4
    <3>2. past + m - 1 \in Nat /\ KeyIndex(past + m - 1, d) = KeyIndex(past + n - 1, dim)
      BY <1>1, <2>4, <3>1
    <3>3. past + m - 1 = past + n - 1 /\ d = dim
      BY <2>1, <3>2, KeyApart
    <3>4. QED
      BY <1>1, <3>1, <3>3
  <2>6. new[i] = Element(toks[w[1]], w[2])
    BY <1>2, <2>2 DEF w
  <2>7. after[past + n - 1] = toks[n]
    BY DEF Appended
  <2>8. QED
    BY <2>5, <2>6, <2>7
<1>6. ASSUME NEW p \in 0 .. past + Len(toks) - 1, NEW dim \in Dims
      PROVE  new[KeyIndex(p, dim)] = Element(after[p], dim)
  <2>1. CASE p < past
    <3>1. p \in 0 .. past - 1
      BY <1>1, <2>1
    <3>2. QED
      BY <1>4, <3>1
  <2>2. CASE past <= p
    <3>1. p - past + 1 \in 1 .. Len(toks) /\ past + (p - past + 1) - 1 = p
      BY <1>1, <2>2
    <3>2. QED
      BY <1>5, <3>1
  <2>3. QED
    BY <1>1, <2>1, <2>2
<1>7. QED
  BY <1>3, <1>6 DEF KeysHold, new

(* The same of the values: storing new rows keeps those before them. *)
LEMMA StoreValues ==
  ASSUME NEW max \in Nat, UpperKv(max) \in Nat \ {0},
         NEW past \in Nat, NEW toks \in Seq(Token), past + Len(toks) <= max,
         NEW buffer, NEW rows, NEW after, ValuesHold(buffer, max, rows, past),
         Appended(rows, past, toks, after)
  PROVE  ValuesHold(StoredValues(buffer, max, past, toks), max, after, past + Len(toks))
<1> DEFINE new == StoredValues(buffer, max, past, toks)
           Hits(i, w) == ValueIndex(max, past + w[1] - 1, w[2]) = i
           W == (1 .. Len(toks)) \X Dims
<1>1. Len(toks) \in Nat
  BY LenProperties
<1>2. new = [ i \in DOMAIN buffer |->
                IF \E n \in 1 .. Len(toks), dim \in Dims : ValueIndex(max, past + n - 1, dim) = i
                THEN Element(toks[(CHOOSE w \in W : Hits(i, w))[1]], (CHOOSE w \in W : Hits(i, w))[2])
                ELSE buffer[i] ]
  BY DEF StoredValues, Store
<1> HIDE DEF new
<1>3. /\ DOMAIN buffer = 0 .. ValueSize(max) - 1 /\ DOMAIN new = 0 .. ValueSize(max) - 1
      /\ \A p \in 0 .. past - 1, dim \in Dims : buffer[ValueIndex(max, p, dim)] = Element(rows[p], dim)
  BY <1>2 DEF ValuesHold
<1>4. ASSUME NEW p \in 0 .. past - 1, NEW dim \in Dims
      PROVE  new[ValueIndex(max, p, dim)] = Element(after[p], dim)
  <2>1. p \in Nat /\ p \in 0 .. max - 1
    BY <1>1
  <2>2. ValueIndex(max, p, dim) \in DOMAIN buffer
    BY <1>3, <2>1, ValuePlace
  <2>3. ASSUME NEW n \in 1 .. Len(toks), NEW d \in Dims
        PROVE  ValueIndex(max, past + n - 1, d) # ValueIndex(max, p, dim)
    <3>1. past + n - 1 \in Nat /\ past + n - 1 # p
      BY <1>1
    <3>2. QED
      BY <2>1, <3>1, ValueApart
  <2>4. new[ValueIndex(max, p, dim)] = buffer[ValueIndex(max, p, dim)]
    BY <1>2, <2>2, <2>3
  <2>5. after[p] = rows[p]
    BY DEF Appended
  <2>6. QED
    BY <1>3, <2>4, <2>5
<1>5. ASSUME NEW n \in 1 .. Len(toks), NEW dim \in Dims
      PROVE  new[ValueIndex(max, past + n - 1, dim)] = Element(after[past + n - 1], dim)
  <2> DEFINE i == ValueIndex(max, past + n - 1, dim)
             w == CHOOSE w \in W : Hits(i, w)
  <2>1. past + n - 1 \in Nat /\ past + n - 1 \in 0 .. max - 1
    BY <1>1
  <2>2. i \in DOMAIN buffer
    BY <1>3, <2>1, ValuePlace
  <2>3. w \in W /\ Hits(i, w)
    <3>1. << n, dim >> \in W /\ Hits(i, << n, dim >>)
      OBVIOUS
    <3> HIDE DEF W, Hits, i
    <3>2. QED
      BY <3>1
  <2> HIDE DEF w
  <2>4. w[1] \in 1 .. Len(toks) /\ w[2] \in Dims /\ ValueIndex(max, past + w[1] - 1, w[2]) = i
    BY <2>3
  <2>5. w[1] = n /\ w[2] = dim
    <3>1. PICK m \in 1 .. Len(toks), d \in Dims : m = w[1] /\ d = w[2]
      BY <2>4
    <3>2. past + m - 1 \in Nat /\ ValueIndex(max, past + m - 1, d) = ValueIndex(max, past + n - 1, dim)
      BY <1>1, <2>4, <3>1
    <3>3. past + m - 1 = past + n - 1 /\ d = dim
      BY <2>1, <3>2, ValueApart
    <3>4. QED
      BY <1>1, <3>1, <3>3
  <2>6. new[i] = Element(toks[w[1]], w[2])
    BY <1>2, <2>2 DEF w
  <2>7. after[past + n - 1] = toks[n]
    BY DEF Appended
  <2>8. QED
    BY <2>5, <2>6, <2>7
<1>6. ASSUME NEW p \in 0 .. past + Len(toks) - 1, NEW dim \in Dims
      PROVE  new[ValueIndex(max, p, dim)] = Element(after[p], dim)
  <2>1. CASE p < past
    <3>1. p \in 0 .. past - 1
      BY <1>1, <2>1
    <3>2. QED
      BY <1>4, <3>1
  <2>2. CASE past <= p
    <3>1. p - past + 1 \in 1 .. Len(toks) /\ past + (p - past + 1) - 1 = p
      BY <1>1, <2>2
    <3>2. QED
      BY <1>5, <3>1
  <2>3. QED
    BY <1>1, <2>1, <2>2
<1>7. QED
  BY <1>3, <1>6 DEF ValuesHold, new

(* Rows are moved down to where they are read, and those below them stay.   *)
LEMMA MoveKeys ==
  ASSUME NEW max \in Nat, NEW past \in 0 .. max,
         NEW src \in Nat, NEW dst \in Nat, NEW size \in Nat,
         dst + size <= src + size, src + size <= past,
         NEW buffer, NEW rows, NEW after, KeysHold(buffer, max, rows, past),
         MovedDown(rows, src, dst, size, after)
  PROVE  KeysHold(MovedKeys(buffer, src, dst, size), max, after, dst + size)
<1> DEFINE new == MovedKeys(buffer, src, dst, size)
           Hits(i, w) == MovedKeyIndex(dst + w[1], w[2]) = i
           W == (0 .. size - 1) \X Dims
           Source(w) == MovedKeyIndex(src + w[1], w[2])
<1>1. new = [ i \in DOMAIN buffer |->
                IF \E n \in 0 .. size - 1, dim \in Dims : MovedKeyIndex(dst + n, dim) = i
                THEN buffer[Source(CHOOSE w \in W : Hits(i, w))]
                ELSE buffer[i] ]
  BY DEF MovedKeys, Move
<1> HIDE DEF new
<1>2. ASSUME NEW p \in 0 .. max - 1, NEW dim \in Dims
      PROVE  MovedKeyIndex(p, dim) = KeyIndex(p, dim)
  BY KeyDigits
<1>3. ASSUME NEW n \in 0 .. size - 1
      PROVE  /\ dst + n \in Nat /\ dst + n \in 0 .. max - 1
             /\ src + n \in 0 .. max - 1 /\ src + n \in 0 .. past - 1
  OBVIOUS
<1>4. /\ DOMAIN buffer = 0 .. KeySize(max) - 1 /\ DOMAIN new = 0 .. KeySize(max) - 1
      /\ \A p \in 0 .. past - 1, dim \in Dims : buffer[KeyIndex(p, dim)] = Element(rows[p], dim)
  BY <1>1 DEF KeysHold
<1>5. ASSUME NEW p \in 0 .. dst - 1, NEW dim \in Dims
      PROVE  new[KeyIndex(p, dim)] = Element(after[p], dim)
  <2>1. p \in Nat /\ p \in 0 .. max - 1 /\ p \in 0 .. past - 1
    OBVIOUS
  <2>2. KeyIndex(p, dim) \in DOMAIN buffer
    BY <1>4, <2>1, KeyPlace
  <2>3. ASSUME NEW n \in 0 .. size - 1, NEW d \in Dims
        PROVE  MovedKeyIndex(dst + n, d) # KeyIndex(p, dim)
    <3>1. dst + n # p
      OBVIOUS
    <3>2. MovedKeyIndex(dst + n, d) = KeyIndex(dst + n, d) /\ dst + n \in Nat
      BY <1>2, <1>3
    <3>3. QED
      BY <2>1, <3>1, <3>2, KeyApart
  <2>4. new[KeyIndex(p, dim)] = buffer[KeyIndex(p, dim)]
    BY <1>1, <2>2, <2>3
  <2>5. after[p] = rows[p]
    BY DEF MovedDown
  <2>6. QED
    BY <1>4, <2>1, <2>4, <2>5
<1>6. ASSUME NEW n \in 0 .. size - 1, NEW dim \in Dims
      PROVE  new[KeyIndex(dst + n, dim)] = Element(after[dst + n], dim)
  <2> DEFINE i == KeyIndex(dst + n, dim)
             w == CHOOSE w \in W : Hits(i, w)
  <2>1. /\ dst + n \in Nat /\ dst + n \in 0 .. max - 1
        /\ src + n \in 0 .. max - 1 /\ src + n \in 0 .. past - 1
    BY <1>3
  <2>2. i \in DOMAIN buffer
    BY <1>4, <2>1, KeyPlace
  <2>3. MovedKeyIndex(dst + n, dim) = i
    BY <1>2, <2>1
  <2>4. w \in W /\ Hits(i, w)
    <3>1. << n, dim >> \in W /\ Hits(i, << n, dim >>)
      BY <2>3
    <3> HIDE DEF W, Hits, i
    <3>2. QED
      BY <3>1
  <2> HIDE DEF w
  <2>5. w[1] \in 0 .. size - 1 /\ w[2] \in Dims /\ MovedKeyIndex(dst + w[1], w[2]) = i
    BY <2>4
  <2>6. w[1] = n /\ w[2] = dim
    <3>1. PICK m \in 0 .. size - 1, d \in Dims : m = w[1] /\ d = w[2]
      BY <2>5
    <3>2. dst + m \in Nat /\ dst + m \in 0 .. max - 1
      BY <1>3
    <3>3. KeyIndex(dst + m, d) = KeyIndex(dst + n, dim)
      BY <1>2, <2>5, <3>1, <3>2
    <3>4. dst + m = dst + n /\ d = dim
      BY <2>1, <3>2, <3>3, KeyApart
    <3>5. m = n
      BY <3>4
    <3>6. QED
      BY <3>1, <3>4, <3>5
  <2>7. new[i] = buffer[Source(w)]
    BY <1>1, <2>2, <2>3 DEF w
  <2>8. Source(w) = KeyIndex(src + n, dim)
    BY <1>2, <2>1, <2>6
  <2> HIDE DEF Source
  <2>9. after[dst + n] = rows[src + n]
    BY DEF MovedDown
  <2>10. new[i] = Element(rows[src + n], dim)
    BY <1>4, <2>1, <2>7, <2>8
  <2>11. QED
    BY <2>9, <2>10
<1>7. ASSUME NEW p \in 0 .. dst + size - 1, NEW dim \in Dims
      PROVE  new[KeyIndex(p, dim)] = Element(after[p], dim)
  <2>1. CASE p < dst
    <3>1. p \in 0 .. dst - 1
      BY <2>1
    <3>2. QED
      BY <1>5, <3>1
  <2>2. CASE dst <= p
    <3>1. p - dst \in 0 .. size - 1 /\ dst + (p - dst) = p
      BY <2>2
    <3>2. QED
      BY <1>6, <3>1
  <2>3. QED
    BY <2>1, <2>2
<1>8. QED
  BY <1>4, <1>7 DEF KeysHold, new

(* Values are, in a buffer of one block, ...                               *)
LEMMA MoveValues ==
  ASSUME flash = FALSE, NEW max \in Nat, UpperKv(max) \in Nat \ {0},
         NEW past \in 0 .. max,
         NEW src \in Nat, NEW dst \in Nat, NEW size \in Nat,
         dst + size <= src + size, src + size <= past,
         NEW buffer, NEW rows, NEW after, ValuesHold(buffer, max, rows, past),
         MovedDown(rows, src, dst, size, after)
  PROVE  ValuesHold(MovedValues(buffer, max, src, dst, size), max, after, dst + size)
<1> DEFINE new == MovedValues(buffer, max, src, dst, size)
           Hits(i, w) == MovedValueIndex(max, dst + w[1], w[2]) = i
           W == (0 .. size - 1) \X Dims
           Source(w) == MovedValueIndex(max, src + w[1], w[2])
<1>1. new = [ i \in DOMAIN buffer |->
                IF \E n \in 0 .. size - 1, dim \in Dims : MovedValueIndex(max, dst + n, dim) = i
                THEN buffer[Source(CHOOSE w \in W : Hits(i, w))]
                ELSE buffer[i] ]
  BY DEF MovedValues, Move
<1> HIDE DEF new
<1>2. ASSUME NEW p \in 0 .. max - 1, NEW dim \in Dims
      PROVE  MovedValueIndex(max, p, dim) = ValueIndex(max, p, dim)
  BY SingleBlock
<1>3. ASSUME NEW n \in 0 .. size - 1
      PROVE  /\ dst + n \in Nat /\ dst + n \in 0 .. max - 1
             /\ src + n \in 0 .. max - 1 /\ src + n \in 0 .. past - 1
  OBVIOUS
<1>4. /\ DOMAIN buffer = 0 .. ValueSize(max) - 1 /\ DOMAIN new = 0 .. ValueSize(max) - 1
      /\ \A p \in 0 .. past - 1, dim \in Dims : buffer[ValueIndex(max, p, dim)] = Element(rows[p], dim)
  BY <1>1 DEF ValuesHold
<1>5. ASSUME NEW p \in 0 .. dst - 1, NEW dim \in Dims
      PROVE  new[ValueIndex(max, p, dim)] = Element(after[p], dim)
  <2>1. p \in Nat /\ p \in 0 .. max - 1 /\ p \in 0 .. past - 1
    OBVIOUS
  <2>2. ValueIndex(max, p, dim) \in DOMAIN buffer
    BY <1>4, <2>1, ValuePlace
  <2>3. ASSUME NEW n \in 0 .. size - 1, NEW d \in Dims
        PROVE  MovedValueIndex(max, dst + n, d) # ValueIndex(max, p, dim)
    <3>1. dst + n # p
      OBVIOUS
    <3>2. MovedValueIndex(max, dst + n, d) = ValueIndex(max, dst + n, d) /\ dst + n \in Nat
      BY <1>2, <1>3
    <3>3. QED
      BY <2>1, <3>1, <3>2, ValueApart
  <2>4. new[ValueIndex(max, p, dim)] = buffer[ValueIndex(max, p, dim)]
    BY <1>1, <2>2, <2>3
  <2>5. after[p] = rows[p]
    BY DEF MovedDown
  <2>6. QED
    BY <1>4, <2>1, <2>4, <2>5
<1>6. ASSUME NEW n \in 0 .. size - 1, NEW dim \in Dims
      PROVE  new[ValueIndex(max, dst + n, dim)] = Element(after[dst + n], dim)
  <2> DEFINE i == ValueIndex(max, dst + n, dim)
             w == CHOOSE w \in W : Hits(i, w)
  <2>1. /\ dst + n \in Nat /\ dst + n \in 0 .. max - 1
        /\ src + n \in 0 .. max - 1 /\ src + n \in 0 .. past - 1
    BY <1>3
  <2>2. i \in DOMAIN buffer
    BY <1>4, <2>1, ValuePlace
  <2>3. MovedValueIndex(max, dst + n, dim) = i
    BY <1>2, <2>1
  <2>4. w \in W /\ Hits(i, w)
    <3>1. << n, dim >> \in W /\ Hits(i, << n, dim >>)
      BY <2>3
    <3> HIDE DEF W, Hits, i
    <3>2. QED
      BY <3>1
  <2> HIDE DEF w
  <2>5. w[1] \in 0 .. size - 1 /\ w[2] \in Dims /\ MovedValueIndex(max, dst + w[1], w[2]) = i
    BY <2>4
  <2>6. w[1] = n /\ w[2] = dim
    <3>1. PICK m \in 0 .. size - 1, d \in Dims : m = w[1] /\ d = w[2]
      BY <2>5
    <3>2. dst + m \in Nat /\ dst + m \in 0 .. max - 1
      BY <1>3
    <3>3. ValueIndex(max, dst + m, d) = ValueIndex(max, dst + n, dim)
      BY <1>2, <2>5, <3>1, <3>2
    <3>4. dst + m = dst + n /\ d = dim
      BY <2>1, <3>2, <3>3, ValueApart
    <3>5. m = n
      BY <3>4
    <3>6. QED
      BY <3>1, <3>4, <3>5
  <2>7. new[i] = buffer[Source(w)]
    BY <1>1, <2>2, <2>3 DEF w
  <2>8. Source(w) = ValueIndex(max, src + n, dim)
    BY <1>2, <2>1, <2>6
  <2> HIDE DEF Source
  <2>9. after[dst + n] = rows[src + n]
    BY DEF MovedDown
  <2>10. new[i] = Element(rows[src + n], dim)
    BY <1>4, <2>1, <2>7, <2>8
  <2>11. QED
    BY <2>9, <2>10
<1>7. ASSUME NEW p \in 0 .. dst + size - 1, NEW dim \in Dims
      PROVE  new[ValueIndex(max, p, dim)] = Element(after[p], dim)
  <2>1. CASE p < dst
    <3>1. p \in 0 .. dst - 1
      BY <2>1
    <3>2. QED
      BY <1>5, <3>1
  <2>2. CASE dst <= p
    <3>1. p - dst \in 0 .. size - 1 /\ dst + (p - dst) = p
      BY <2>2
    <3>2. QED
      BY <1>6, <3>1
  <2>3. QED
    BY <2>1, <2>2
<1> DEFINE more == dst + size
<1>8. \A p \in 0 .. more - 1, dim \in Dims : new[ValueIndex(max, p, dim)] = Element(after[p], dim)
  BY <1>7
<1> HIDE DEF more
<1>9. ValuesHold(new, max, after, more)
  BY ONLY <1>4, <1>8 DEF ValuesHold
<1>10. QED
  BY <1>9 DEF new, more

(* ... and everywhere when a plan keeps no tail: nothing is moved.         *)
LEMMA MoveNothing ==
  ASSUME NEW max \in Nat, UpperKv(max) \in Nat \ {0}, NEW past \in 0 .. max,
         NEW src \in Nat, NEW dst \in Nat, dst <= past,
         NEW buffer, NEW rows, NEW after, ValuesHold(buffer, max, rows, past),
         MovedDown(rows, src, dst, 0, after)
  PROVE  ValuesHold(MovedValues(buffer, max, src, dst, 0), max, after, dst + 0)
<1> DEFINE new == MovedValues(buffer, max, src, dst, 0)
<1>1. 0 .. 0 - 1 = {}
  OBVIOUS
<1>2. new = [ i \in DOMAIN buffer |-> buffer[i] ]
  BY <1>1 DEF MovedValues, Move
<1> HIDE DEF new
<1>3. /\ DOMAIN buffer = 0 .. ValueSize(max) - 1 /\ DOMAIN new = 0 .. ValueSize(max) - 1
      /\ \A p \in 0 .. past - 1, dim \in Dims :
           buffer[ValueIndex(max, p, dim)] = Element(rows[p], dim)
  BY <1>2 DEF ValuesHold
<1>4. ASSUME NEW p \in 0 .. dst - 1, NEW dim \in Dims
      PROVE  new[ValueIndex(max, p, dim)] = Element(after[p], dim)
  <2>1. p \in 0 .. max - 1 /\ p \in 0 .. past - 1
    OBVIOUS
  <2>2. ValueIndex(max, p, dim) \in DOMAIN buffer
    BY <1>3, <2>1, ValuePlace
  <2>3. new[ValueIndex(max, p, dim)] = buffer[ValueIndex(max, p, dim)]
    BY <1>2, <2>2
  <2>4. after[p] = rows[p]
    BY DEF MovedDown
  <2>5. QED
    BY <1>3, <2>1, <2>3, <2>4
<1>5. dst + 0 = dst
  OBVIOUS
<1>6. QED
  BY <1>3, <1>4, <1>5 DEF ValuesHold, new

(* The rows of the old buffer are where they are read in the new one.      *)
LEMMA GrowKeys ==
  ASSUME NEW old \in Nat, NEW new \in Nat, old <= new, NEW past \in 0 .. old,
         NEW buffer, NEW rows, KeysHold(buffer, old, rows, past)
  PROVE  KeysHold(GrownKeys(buffer, old, new), new, rows, past)
<1> DEFINE grown == ExpandPrefix(buffer, KeySize(new))
<1>1. KeySize(old) \in Nat /\ KeySize(new) \in Nat /\ KeySize(old) <= KeySize(new)
  BY KeyPlace, KeySizeGrows
<1>2. /\ DOMAIN buffer = 0 .. KeySize(old) - 1
      /\ \A p \in 0 .. past - 1, dim \in Dims : buffer[KeyIndex(p, dim)] = Element(rows[p], dim)
  BY DEF KeysHold
<1>3. /\ DOMAIN grown = 0 .. KeySize(new) - 1
      /\ \A i \in 0 .. KeySize(new) - 1 : i \in DOMAIN buffer => grown[i] = buffer[i]
  BY DEF ExpandPrefix
<1> HIDE DEF grown
<1>4. ASSUME NEW p \in 0 .. past - 1, NEW dim \in Dims
      PROVE  grown[KeyIndex(p, dim)] = Element(rows[p], dim)
  <2>1. p \in 0 .. old - 1
    OBVIOUS
  <2>2. KeyIndex(p, dim) \in 0 .. KeySize(old) - 1
    BY <2>1, KeyPlace
  <2>3. KeyIndex(p, dim) \in DOMAIN buffer /\ KeyIndex(p, dim) \in 0 .. KeySize(new) - 1
    BY <1>1, <1>2, <2>2
  <2>4. QED
    BY <1>2, <1>3, <2>3
<1>5. QED
  BY <1>3, <1>4 DEF KeysHold, GrownKeys, grown

(* The same of the values: a larger buffer holds the rows of the old one. *)
LEMMA GrowValues ==
  ASSUME flash \in BOOLEAN, NEW old \in Nat \ {0}, NEW new \in Nat, old <= new,
         NEW past \in 0 .. old, NEW rows, ValuesHold(values, old, rows, past)
  PROVE  ValuesHold(GrownValues(old, new), new, rows, past)
<1>1. CASE new = old
  BY <1>1 DEF GrownValues
<1> SUFFICES ASSUME new # old
             PROVE  /\ DOMAIN GrownValues(old, new) = 0 .. ValueSize(new) - 1
                    /\ \A p \in 0 .. old - 1, dim \in Dims :
                         GrownValues(old, new)[ValueIndex(new, p, dim)]
                           = values[ValueIndex(old, p, dim)]
  <2>1. \A p \in 0 .. past - 1 : p \in 0 .. old - 1
    OBVIOUS
  <2>2. QED
    BY <1>1, <2>1 DEF ValuesHold
<1> DOMAIN values = 0 .. ValueSize(old) - 1
  BY DEF ValuesHold
<1>2. CASE flash = TRUE
  <2> DEFINE grown == ExpandPrefix(values, ValueSize(new))
  <2>1. /\ ValueSize(old) \in Int /\ ValueSize(new) \in Int /\ ValueSize(old) <= ValueSize(new)
        /\ \A seq, dim : ValueIndex(old, seq, dim) = ValueIndex(new, seq, dim)
    BY <1>2, ValueSizeGrows
  <2>2. UpperKv(old) \in Nat \ {0}
    BY <1>2, Packing DEF UpperKv
  <2>3. ASSUME NEW p \in 0 .. old - 1, NEW dim \in Dims
        PROVE  /\ ValueIndex(old, p, dim) \in DOMAIN values
               /\ ValueIndex(old, p, dim) \in 0 .. ValueSize(new) - 1
    <3>1. ValueIndex(old, p, dim) \in 0 .. ValueSize(old) - 1
      BY <2>2, ValuePlace
    <3>2. QED
      BY <2>1, <3>1
  <2>4. /\ DOMAIN grown = 0 .. ValueSize(new) - 1
        /\ \A i \in 0 .. ValueSize(new) - 1 : i \in DOMAIN values => grown[i] = values[i]
    BY DEF ExpandPrefix
  <2>5. GrownValues(old, new) = grown
    BY <1>2 DEF GrownValues, ExpandValues
  <2> HIDE DEF grown
  <2>6. QED
    BY <2>1, <2>3, <2>4, <2>5
<1>3. CASE flash = FALSE
  <2> DEFINE inner == RoundUp(old, lP) * hP
             outer == RoundUp(new, lP) * hP
             grown == ExpandValues(old, new)
  <2>1. inner \in Nat /\ outer \in Nat /\ inner <= outer
    <3> DEFINE m == UpDiv(old, lP)
               n == UpDiv(new, lP)
    <3>1. m \in Nat /\ n \in Nat /\ m <= n /\ lP \in Nat /\ hP \in Nat
      BY Packing, Groups, MoreGroups
    <3>2. inner = m * lP * hP /\ outer = n * lP * hP
      BY DEF RoundUp
    <3> HIDE DEF inner, outer, m, n
    <3>3. m * lP <= n * lP /\ m * lP \in Nat /\ n * lP \in Nat
      BY <3>1, Multiples
    <3>4. m * lP * hP <= n * lP * hP /\ m * lP * hP \in Nat /\ n * lP * hP \in Nat
      BY <3>1, <3>3, Multiples
    <3>5. QED
      BY <3>2, <3>4
  <2>2. /\ DOMAIN grown = 0 .. ValueSize(new) - 1
        /\ \A i \in 0 .. ValueSize(new) - 1 :
             i % outer < inner => grown[i] = values[(i \div outer) * inner + (i % outer)]
    BY <1>3 DEF ExpandValues
  <2>3. GrownValues(old, new) = grown
    BY <1>3 DEF GrownValues
  <2>4. ASSUME NEW p \in 0 .. old - 1, NEW dim \in Dims
        PROVE  grown[ValueIndex(new, p, dim)] = values[ValueIndex(old, p, dim)]
    <3> DEFINE b == dim \div hP
               r == ValueOffset(p, dim)
               i == ValueIndex(new, p, dim)
    <3>1. p \in 0 .. new - 1 /\ UpperKv(new) \in Nat \ {0}
      BY <1>3 DEF UpperKv
    <3>2. i \in 0 .. ValueSize(new) - 1 /\ ValueSize(new) \in Nat
      BY <3>1, ValuePlace
    <3>3. i = b * outer + r /\ ValueIndex(old, p, dim) = b * inner + r /\ r \in 0 .. inner - 1
      BY <1>3, <3>1, SingleBlock
    <3>4. b \in Nat
      <4>1. dim \in Nat
        BY Packing
      <4>2. QED
        BY <4>1, Packing, Divided
    <3> DEFINE q == i \div outer
               s == i % outer
    <3> HIDE DEF inner, outer, grown, b, r, i
    <3>5. outer \in Nat \ {0} /\ r \in 0 .. outer - 1
      BY <2>1, <3>3
    <3>6. i \in Nat
      BY <3>2
    <3>7. q \in Nat /\ s \in 0 .. outer - 1 /\ i = q * outer + s
      BY <3>5, <3>6, Divided
    <3>8. s < inner => grown[i] = values[q * inner + s]
      BY <2>2, <3>2
    <3> HIDE DEF q, s
    <3>9. q * outer + s = b * outer + r
      BY <3>3, <3>7
    <3>10. q = b /\ s = r
      BY <3>4, <3>5, <3>7, <3>9, SameDigit
    <3>11. r < inner
      BY <2>1, <3>3
    <3>12. grown[i] = values[b * inner + r]
      BY <3>8, <3>10, <3>11
    <3>13. QED
      BY <3>3, <3>12 DEF i
  <2>5. QED
    BY <2>2, <2>3, <2>4
<1>4. QED
  BY <1>2, <1>3

-----------------------------------------------------------------------------
(* Plans and rows.                                                         *)

(* The inputs of a forward.                                                *)
LEMMA PiecesAreSequences ==
  ASSUME NEW toks \in Pieces
  PROVE  /\ toks \in Seq(Token) /\ Len(toks) \in 1 .. MaxPiece
         /\ \A n \in 1 .. Len(toks) : toks[n] \in Token
<1>1. PICK n \in 1 .. MaxPiece : toks \in [1 .. n -> Token]
  BY DEF Pieces
<1>2. n \in Nat /\ n >= 1
  BY LayoutAssumption, CacheAssumption
<1>3. toks \in Seq(Token) /\ Len(toks) = n
  BY <1>1, <1>2, SeqDef, LenProperties
<1>4. QED
  BY <1>1, <1>2, <1>3

(* The plans of eraseHistory: the kept tail is the end of the history, and *)
(* there is one only where callers keep tails.                             *)
LEMMA PlanFacts ==
  ASSUME NEW past \in Nat, NEW add \in Nat, NEW m \in Plans(past, add)
  PROVE  /\ m \in Meta /\ m.previous = past /\ m.add = add
         /\ m.remove <= past /\ m.begin + m.size <= m.remove
         /\ m.nReserve = 0 => m.size = 0
         /\ m.nReserve # 0 => m.size > 0 /\ flash \in KeepsTailIn
<1> DEFINE plain == [ EmptyMeta EXCEPT !.previous = past, !.add = add ]
           ends == IF flash \in KeepsTailIn THEN 2 .. past ELSE {past}
<1>1. /\ plain \in Meta /\ plain.previous = past /\ plain.add = add
      /\ plain.remove = 0 /\ plain.nReserve = 0 /\ plain.begin = 0 /\ plain.size = 0
  BY DEF EmptyMeta, Meta
<1>2. CASE m = plain
  BY <1>1, <1>2
<1>3. CASE m # plain
  <2>1. \E range \in { r \in (1 .. past) \X ends : r[1] < r[2] } :
          m = EraseRange(plain, range[1], range[2])
    BY <1>3 DEF Plans
  <2>2. PICK b \in 1 .. past, e \in ends : b < e /\ m = EraseRange(plain, b, e)
    BY <2>1
  <2> HIDE DEF plain
  <2>3. CASE e = past
    BY <1>1, <2>2, <2>3 DEF EraseRange, Meta
  <2>4. CASE e # past
    <3>1. flash \in KeepsTailIn /\ e \in 2 .. past
      BY <2>2, <2>4
    <3>2. m = [ plain EXCEPT !.remove = past - b, !.nReserve = 1,
                             !.begin = e - b, !.size = past - e ]
      BY <1>1, <2>2, <2>4 DEF EraseRange
    <3>3. past - b \in Nat /\ e - b \in Nat /\ past - e \in Nat /\ past - e > 0
      BY <2>2, <2>4, <3>1
    <3>4. /\ m.previous = past /\ m.add = add /\ m.remove = past - b /\ m.nReserve = 1
          /\ m.begin = e - b /\ m.size = past - e /\ m \in Meta
      BY <1>1, <3>2, <3>3 DEF Meta
    <3>5. QED
      BY <2>2, <3>1, <3>3, <3>4
  <2>5. QED
    BY <2>3, <2>4
<1>4. QED
  BY <1>2, <1>3

(* onRealloc: room for the rows to come, the kept rows at their new        *)
(* positions.                                                              *)
LEMMA ReallocFacts ==
  ASSUME NEW c \in Cache, NEW m \in Meta, c.past \in Nat, c.past <= MaxLen,
         m.previous = c.past, m.remove <= c.past, m.begin + m.size <= m.remove,
         m.nReserve = 0 => m.size = 0, m.nReserve # 0 => m.size > 0
  PROVE  LET start == c.past - m.remove
             moved == OnRealloc(c, m)
         IN /\ moved \in Cache /\ start \in Nat
            /\ moved.past = start + m.size /\ Effective(m) = start + m.size
            /\ moved.past + m.add <= moved.max /\ c.max <= moved.max
            /\ MovedDown(c.cells, start + m.begin, start, m.size, moved.cells)
<1> DEFINE start == c.past - m.remove
           moved == OnRealloc(c, m)
           kvSeqLen == m.previous + m.add - m.remove + ReverseSize(m)
           grown == IF kvSeqLen > c.max THEN kvSeqLen + ExpandChunk ELSE c.max
           src == start + m.begin
           cells == IF m.nReserve = 0 THEN c.cells ELSE MoveKV(c.cells, src, start, m.size)
<1>1. m.nReserve \in {0, 1} /\ m.size \in Nat /\ m.begin \in Nat /\ m.remove \in Nat /\ m.add \in Nat
  BY DEF Meta
<1>2. ReverseSize(m) = m.size
  BY <1>1 DEF ReverseSize
<1>3. start \in Nat /\ kvSeqLen = start + m.size + m.add /\ kvSeqLen \in Nat /\ Effective(m) = start + m.size
  BY <1>1, <1>2 DEF Effective
<1>4. grown \in Nat /\ kvSeqLen <= grown /\ c.max <= grown
  BY <1>3, CacheAssumption DEF Cache
<1>5. cells \in [Pos -> Token \cup {Blank}]
  BY DEF MoveKV, Cache
<1>6. moved = [ c EXCEPT !.max = grown, !.cells = cells, !.past = start + m.size ]
  <2>1. CASE m.nReserve = 0
    <3>1. moved = [ c EXCEPT !.max = grown, !.past = start ]
      BY <2>1 DEF OnRealloc
    <3>2. cells = c.cells /\ start + m.size = start
      BY <1>1, <1>3, <2>1
    <3> HIDE DEF grown, moved, cells, start
    <3>3. QED
      BY <3>1, <3>2 DEF Cache
  <2>2. CASE m.nReserve # 0
    <3>1. ~Quantized
      BY LayoutAssumption
    <3>2. moved = [ c EXCEPT !.max = grown, !.cells = MoveKV(c.cells, src, start, m.size),
                             !.past = start + m.size ]
      BY <2>2, <3>1 DEF OnRealloc
    <3>3. cells = MoveKV(c.cells, src, start, m.size)
      BY <2>2
    <3> HIDE DEF grown, moved, cells, start, src
    <3>4. QED
      BY <3>2, <3>3
  <2>3. QED
    BY <2>1, <2>2
<1>7. MovedDown(c.cells, src, start, m.size, cells)
  <2>1. CASE m.nReserve = 0
    BY <1>1, <2>1 DEF MovedDown
  <2>2. CASE m.nReserve # 0
    <3>1. cells = MoveKV(c.cells, src, start, m.size)
      BY <2>2
    <3> HIDE DEF cells
    <3>2. ASSUME NEW p \in 0 .. start - 1
          PROVE  cells[p] = c.cells[p]
      <4>1. p \in Pos /\ p \notin start .. start + m.size - 1
        BY <1>1, <1>3, CacheAssumption DEF Pos
      <4>2. QED
        BY <3>1, <4>1 DEF MoveKV
    <3>3. ASSUME NEW n \in 0 .. m.size - 1
          PROVE  cells[start + n] = c.cells[src + n]
      <4>1. /\ start + n \in Pos /\ start + n \in start .. start + m.size - 1
            /\ (start + n) - start + src = src + n /\ src + n \in Pos
        BY <1>1, <1>3, CacheAssumption DEF Pos
      <4> HIDE DEF start, src
      <4>2. QED
        BY <3>1, <4>1 DEF MoveKV
    <3>4. QED
      BY <3>2, <3>3 DEF MovedDown
  <2>3. QED
    BY <2>1, <2>2
<1> HIDE DEF moved, grown, cells
<1>8. start + m.size \in Int
  BY <1>1, <1>3
<1>9. moved \in Cache /\ moved.max = grown /\ moved.cells = cells /\ moved.past = start + m.size
  BY <1>4, <1>5, <1>6, <1>8 DEF Cache
<1>10. QED
  BY <1>3, <1>4, <1>7, <1>9 DEF moved

(* onUpdateKV: the rows of the new tokens come behind the others.          *)
LEMMA UpdateFacts ==
  ASSUME NEW c \in Cache, c.past \in Nat, NEW toks \in Pieces, c.past + Len(toks) <= MaxLen
  PROVE  /\ OnUpdateKV(c, toks) \in Cache
         /\ OnUpdateKV(c, toks).past = c.past + Len(toks)
         /\ OnUpdateKV(c, toks).max = c.max
         /\ Appended(c.cells, c.past, toks, OnUpdateKV(c, toks).cells)
<1> DEFINE end == c.past + Len(toks)
           cells == [ p \in Pos |-> IF p \in c.past .. c.past + Len(toks) - 1
                                     THEN toks[p - c.past + 1]
                                     ELSE c.cells[p] ]
<1>1. Len(toks) \in Nat /\ end \in Int /\ end <= MaxLen
  BY PiecesAreSequences, LayoutAssumption
<1>2. cells \in [Pos -> Token \cup {Blank}]
  <2>1. ASSUME NEW p \in Pos, p \in c.past .. end - 1
        PROVE  toks[p - c.past + 1] \in Token
    <3>1. p - c.past + 1 \in 1 .. Len(toks)
      BY <1>1, <2>1
    <3>2. QED
      BY <3>1, PiecesAreSequences
  <2>2. QED
    BY <2>1 DEF Cache
<1>3. \A p \in 0 .. c.past - 1 : cells[p] = c.cells[p]
  <2>1. ASSUME NEW p \in 0 .. c.past - 1
        PROVE  p \in Pos /\ p \notin c.past .. end - 1
    BY <1>1, CacheAssumption DEF Pos
  <2>2. QED
    BY <2>1
<1>4. \A n \in 1 .. Len(toks) : cells[c.past + n - 1] = toks[n]
  <2>1. ASSUME NEW n \in 1 .. Len(toks)
        PROVE  /\ c.past + n - 1 \in Pos /\ c.past + n - 1 \in c.past .. end - 1
               /\ (c.past + n - 1) - c.past + 1 = n
    BY <1>1, CacheAssumption DEF Pos
  <2>2. QED
    BY <2>1
<1>5. OnUpdateKV(c, toks) = [ c EXCEPT !.cells = cells, !.past = end ]
  BY Zenon DEF OnUpdateKV
<1> HIDE DEF cells, end
<1>6. /\ OnUpdateKV(c, toks) \in Cache /\ OnUpdateKV(c, toks).past = end
      /\ OnUpdateKV(c, toks).max = c.max /\ OnUpdateKV(c, toks).cells = cells
  BY <1>1, <1>2, <1>5 DEF Cache
<1>7. QED
  BY <1>3, <1>4, <1>6 DEF end, Appended

-----------------------------------------------------------------------------
(* The inductive invariant.                                                *)

(* The history fits in the layer.                                          *)
Layout ==
  /\ flash \in BOOLEAN
  /\ cache \in Cache
  /\ cache.past \in 0 .. cache.max
  /\ cache.past <= MaxLen

(* Once there is a history the buffers hold it, and have the sizes that    *)
(* the length of the layer asks for.  (Before, the buffer of values has no *)
(* size the code would compute: without flash attention it divides by the  *)
(* length.)                                                                *)
KeysInv == Layout /\ (cache.past > 0 => KeysHold(keys, cache.max, cache.cells, cache.past))

ValuesInv == Layout /\ (cache.past > 0 => ValuesHold(values, cache.max, cache.cells, cache.past))

(* flash does not change, so what holds of the next buffers with the       *)
(* layout of this state is the invariant of the next one.                  *)
LEMMA NextInv ==
  ASSUME UNCHANGED flash, flash \in BOOLEAN, cache' \in Cache,
         cache'.past \in 0 .. cache'.max, cache'.past <= MaxLen
  PROVE  /\ KeysHold(keys', cache'.max, cache'.cells, cache'.past) => KeysInv'
         /\ ValuesHold(values', cache'.max, cache'.cells, cache'.past) => ValuesInv'
<1>1. Layout'
  BY DEF Layout
<1>2. KeysHold(keys', cache'.max, cache'.cells, cache'.past) => KeysInv'
  BY <1>1 DEF KeysInv, KeysHold, KeyIndex, KeySize
<1>3. ValuesHold(values', cache'.max, cache'.cells, cache'.past) => ValuesInv'
  BY <1>1 DEF ValuesInv, ValuesHold, ValueIndex, ValueSize, UpperKv
<1>4. QED
  BY <1>2, <1>3

(* What a forward that keeps rows starts from, after onRealloc.            *)
LEMMA ExtendStart ==
  ASSUME Layout, NEW toks \in Pieces, NEW m \in Plans(cache.past, Len(toks)),
         Effective(m) + Len(toks) <= MaxLen, Extend(m, toks)
  PROVE  LET start == cache.past - m.remove
             src == start + m.begin
             moved == OnRealloc(cache, m)
         IN /\ cache.past \in Nat \ {0} /\ cache.past <= cache.max /\ cache.max \in Nat \ {0}
            /\ toks \in Seq(Token) /\ Len(toks) \in Nat
            /\ start \in Nat /\ src \in Nat /\ m.size \in Nat
            /\ start + m.size <= src + m.size /\ src + m.size <= cache.past
            /\ m.size # 0 => flash \in KeepsTailIn
            /\ moved \in Cache /\ moved.past = start + m.size
            /\ moved.max \in Nat \ {0} /\ cache.max <= moved.max
            /\ moved.past + Len(toks) <= moved.max /\ moved.past + Len(toks) <= MaxLen
            /\ MovedDown(cache.cells, src, start, m.size, moved.cells)
            /\ UNCHANGED flash
            /\ cache' = OnUpdateKV(moved, toks)
            /\ keys' = StoredKeys(MovedKeys(GrownKeys(keys, cache.max, moved.max),
                                            src, start, m.size),
                                  moved.past, toks)
            /\ values' = StoredValues(MovedValues(GrownValues(cache.max, moved.max), moved.max,
                                                  src, start, m.size),
                                      moved.max, moved.past, toks)
<1> DEFINE start == cache.past - m.remove
           src == start + m.begin
           moved == OnRealloc(cache, m)
<1>1. cache \in Cache /\ cache.past \in Nat /\ cache.past <= cache.max /\ cache.max \in Nat /\ cache.past <= MaxLen
  BY DEF Layout, Cache
<1>2. toks \in Seq(Token) /\ Len(toks) \in Nat
  BY PiecesAreSequences, LayoutAssumption, CacheAssumption
<1>3. /\ m \in Meta /\ m.previous = cache.past /\ m.add = Len(toks)
      /\ m.remove <= cache.past /\ m.begin + m.size <= m.remove
      /\ m.nReserve = 0 => m.size = 0
      /\ m.nReserve # 0 => m.size > 0 /\ flash \in KeepsTailIn
  BY <1>1, <1>2, PlanFacts
<1>4. m.previous # m.remove /\ m.remove \in Nat /\ m.begin \in Nat /\ m.size \in Nat
  BY <1>3 DEF Extend, Meta
<1>5. /\ moved \in Cache /\ start \in Nat
      /\ moved.past = start + m.size /\ Effective(m) = start + m.size
      /\ moved.past + m.add <= moved.max /\ cache.max <= moved.max
      /\ MovedDown(cache.cells, src, start, m.size, moved.cells)
  BY <1>1, <1>3, ReallocFacts
<1>6. UNCHANGED flash /\ cache' = OnUpdateKV(moved, toks)
  BY DEF Extend
<1>7. keys' = StoredKeys(MovedKeys(GrownKeys(keys, cache.max, moved.max), src, start, m.size),
                         moved.past, toks)
  BY DEF Extend, StoredKeys, MovedKeys, GrownKeys, Store, Move
<1>8. values' = StoredValues(MovedValues(GrownValues(cache.max, moved.max), moved.max,
                                         src, start, m.size),
                             moved.max, moved.past, toks)
  BY DEF Extend, StoredValues, MovedValues, GrownValues, Store, Move
<1> HIDE DEF moved
<1>9. moved.max \in Nat
  BY <1>5 DEF Cache
<1>10. /\ cache.past \in Nat \ {0} /\ cache.max \in Nat \ {0} /\ moved.max \in Nat \ {0}
       /\ src \in Nat /\ start + m.size <= src + m.size /\ src + m.size <= cache.past
       /\ moved.past + Len(toks) <= MaxLen
  <2>1. cache.past > 0
    BY <1>1, <1>3, <1>4
  <2>2. cache.max > 0 /\ moved.max > 0
    BY <1>1, <1>5, <1>9, <2>1
  <2>3. src \in Nat /\ start + m.size <= src + m.size /\ src + m.size <= cache.past
    <3>1. /\ cache.past \in Nat /\ m.remove \in Nat /\ m.begin \in Nat /\ m.size \in Nat
          /\ m.remove <= cache.past /\ m.begin + m.size <= m.remove
      BY <1>1, <1>3, <1>4
    <3>2. QED
      BY ONLY <3>1
  <2>4. moved.past + Len(toks) <= MaxLen
    BY <1>5
  <2>5. QED
    BY <1>1, <1>9, <2>1, <2>2, <2>3, <2>4
<1>11. QED
  BY <1>1, <1>2, <1>3, <1>4, <1>5, <1>6, <1>7, <1>8, <1>10 DEF moved

(* A forward that keeps rows leaves every key where it is read, ...        *)
LEMMA ExtendKeys ==
  ASSUME KeysInv, NEW toks \in Pieces, NEW m \in Plans(cache.past, Len(toks)),
         Effective(m) + Len(toks) <= MaxLen, Extend(m, toks)
  PROVE  KeysInv'
<1> DEFINE moved == OnRealloc(cache, m)
<1>1. Layout
  BY DEF KeysInv
<1>2. PICK old \in Nat \ {0}, past \in Nat : old = cache.max /\ past = cache.past /\ 0 < past /\ past <= old
  BY <1>1, ExtendStart
<1>3. PICK start \in Nat, src \in Nat :
        start = cache.past - m.remove /\ src = cache.past - m.remove + m.begin
  BY <1>1, ExtendStart
<1>4. PICK size \in Nat, add \in Nat : size = m.size /\ add = Len(toks)
  BY <1>1, ExtendStart
<1>5. PICK larger \in Nat \ {0}, held \in Nat : larger = moved.max /\ held = moved.past
  <2>1. /\ moved.max \in Nat \ {0} /\ moved.past = (cache.past - m.remove) + m.size
        /\ cache.past - m.remove \in Nat /\ m.size \in Nat
    BY <1>1, ExtendStart
  <2>2. moved.past \in Nat
    BY <2>1
  <2>3. QED
    BY <2>1, <2>2
<1>6. /\ start + size <= src + size /\ src + size <= past
      /\ held = start + size /\ old <= larger /\ held + add <= larger
  BY <1>1, <1>2, <1>3, <1>4, <1>5, ExtendStart
<1>7. /\ moved \in Cache /\ moved.past + Len(toks) <= MaxLen /\ UNCHANGED flash
      /\ cache' = OnUpdateKV(moved, toks) /\ toks \in Seq(Token)
  BY <1>1, ExtendStart
<1>8. MovedDown(cache.cells, src, start, size, moved.cells)
  BY <1>1, <1>3, <1>4, ExtendStart
<1> DEFINE grown == GrownKeys(keys, old, larger)
           below == MovedKeys(grown, src, start, size)
           filled == StoredKeys(below, held, toks)
<1>9. keys' = filled
  BY <1>1, <1>2, <1>3, <1>4, <1>5, ExtendStart
<1> HIDE DEF moved, grown, below, filled
<1>10. /\ cache' \in Cache /\ cache'.past = held + add /\ cache'.max = larger
       /\ Appended(moved.cells, held, toks, cache'.cells)
  BY <1>4, <1>5, <1>7, UpdateFacts
<1>11. past \in 0 .. old /\ past \in 0 .. larger /\ held \in 0 .. larger
  <2>1. past <= old /\ old <= larger /\ held + add <= larger
    BY <1>2, <1>6
  <2>2. QED
    BY <2>1
<1>12. KeysHold(keys, old, cache.cells, past)
  BY <1>2 DEF KeysInv
<1>13. KeysHold(grown, larger, cache.cells, past)
  BY <1>6, <1>11, <1>12, GrowKeys DEF grown
<1>14. KeysHold(below, larger, moved.cells, held)
  <2>1. KeysHold(below, larger, moved.cells, start + size)
    BY <1>6, <1>8, <1>11, <1>13, MoveKeys DEF below
  <2>2. QED
    BY <1>6, <2>1
<1>15. KeysHold(filled, larger, cache'.cells, held + add)
  <2>1. held + Len(toks) <= larger
    BY <1>4, <1>6
  <2>2. KeysHold(filled, larger, cache'.cells, held + Len(toks))
    BY <1>7, <1>10, <1>14, <2>1, StoreKeys DEF filled
  <2>3. QED
    BY <1>4, <2>2
<1>16. /\ KeysHold(keys', cache'.max, cache'.cells, cache'.past)
       /\ cache'.past \in 0 .. cache'.max /\ cache'.past <= MaxLen
  <2>1. held + add \in 0 .. larger /\ held + add <= MaxLen
    <3>1. held + add <= larger /\ moved.past + Len(toks) <= MaxLen
      BY <1>6, <1>7
    <3>2. QED
      BY <1>4, <1>5, <3>1
  <2>2. QED
    BY <1>9, <1>10, <1>15, <2>1
<1>17. QED
  BY <1>1, <1>7, <1>10, <1>16, NextInv DEF Layout

(* ... and every value, provided that a held tail is moved in buffers of   *)
(* one block alone.                                                        *)
LEMMA ExtendValues ==
  ASSUME ValuesInv, NEW toks \in Pieces, NEW m \in Plans(cache.past, Len(toks)),
         Effective(m) + Len(toks) <= MaxLen, Extend(m, toks),
         KeepsTailIn \subseteq {FALSE}
  PROVE  ValuesInv'
<1> DEFINE moved == OnRealloc(cache, m)
<1>1. Layout
  BY DEF ValuesInv
<1>2. PICK old \in Nat \ {0}, past \in Nat : old = cache.max /\ past = cache.past /\ 0 < past /\ past <= old
  BY <1>1, ExtendStart
<1>3. PICK start \in Nat, src \in Nat :
        start = cache.past - m.remove /\ src = cache.past - m.remove + m.begin
  BY <1>1, ExtendStart
<1>4. PICK size \in Nat, add \in Nat : size = m.size /\ add = Len(toks)
  BY <1>1, ExtendStart
<1>5. PICK larger \in Nat \ {0}, held \in Nat : larger = moved.max /\ held = moved.past
  <2>1. /\ moved.max \in Nat \ {0} /\ moved.past = (cache.past - m.remove) + m.size
        /\ cache.past - m.remove \in Nat /\ m.size \in Nat
    BY <1>1, ExtendStart
  <2>2. moved.past \in Nat
    BY <2>1
  <2>3. QED
    BY <2>1, <2>2
<1>6. /\ start + size <= src + size /\ src + size <= past
      /\ held = start + size /\ old <= larger /\ held + add <= larger
  BY <1>1, <1>2, <1>3, <1>4, <1>5, ExtendStart
<1>7. /\ moved \in Cache /\ moved.past + Len(toks) <= MaxLen /\ UNCHANGED flash
      /\ cache' = OnUpdateKV(moved, toks) /\ toks \in Seq(Token)
  BY <1>1, ExtendStart
<1>8. MovedDown(cache.cells, src, start, size, moved.cells)
  BY <1>1, <1>3, <1>4, ExtendStart
<1> DEFINE grown == GrownValues(old, larger)
           below == MovedValues(grown, larger, src, start, size)
           filled == StoredValues(below, larger, held, toks)
<1>9. values' = filled
  BY <1>1, <1>2, <1>3, <1>4, <1>5, ExtendStart
<1> HIDE DEF moved, grown, below, filled
<1>10. /\ cache' \in Cache /\ cache'.past = held + add /\ cache'.max = larger
       /\ Appended(moved.cells, held, toks, cache'.cells)
  BY <1>4, <1>5, <1>7, UpdateFacts
<1>11. past \in 0 .. old /\ past \in 0 .. larger /\ held \in 0 .. larger
  <2>1. past <= old /\ old <= larger /\ held + add <= larger
    BY <1>2, <1>6
  <2>2. QED
    BY <2>1
<1>12. ValuesHold(values, old, cache.cells, past)
  BY <1>2 DEF ValuesInv
<1>13. ValuesHold(grown, larger, cache.cells, past)
  BY <1>1, <1>6, <1>11, <1>12, GrowValues DEF grown, Layout
<1>14. ValuesHold(below, larger, moved.cells, held)
  <2>1. size # 0 => flash = FALSE
    BY <1>1, <1>4, ExtendStart
  <2>2. UpperKv(larger) \in Nat \ {0}
    BY Packing DEF UpperKv
  <2>3. CASE size = 0
    <3>1. start <= past /\ held = start + 0 /\ MovedDown(cache.cells, src, start, 0, moved.cells)
      BY <1>6, <1>8, <2>3
    <3>2. below = MovedValues(grown, larger, src, start, 0)
      BY <2>3 DEF below
    <3>3. ValuesHold(MovedValues(grown, larger, src, start, 0), larger, moved.cells, start + 0)
      BY <1>11, <1>13, <2>2, <3>1, MoveNothing
    <3>4. QED
      BY <3>1, <3>2, <3>3
  <2>4. CASE size # 0
    <3>1. flash = FALSE
      BY <2>1, <2>4
    <3>2. ValuesHold(below, larger, moved.cells, start + size)
      BY <1>6, <1>8, <1>11, <1>13, <2>2, <3>1, MoveValues DEF below
    <3>3. QED
      BY <1>6, <3>2
  <2>5. QED
    BY <2>3, <2>4
<1>15. ValuesHold(filled, larger, cache'.cells, held + add)
  <2>1. UpperKv(larger) \in Nat \ {0}
    BY Packing DEF UpperKv
  <2>2. held + Len(toks) <= larger
    BY <1>4, <1>6
  <2>3. ValuesHold(filled, larger, cache'.cells, held + Len(toks))
    BY <1>7, <1>10, <1>14, <2>1, <2>2, StoreValues DEF filled
  <2>4. QED
    BY <1>4, <2>3
<1>16. /\ ValuesHold(values', cache'.max, cache'.cells, cache'.past)
       /\ cache'.past \in 0 .. cache'.max /\ cache'.past <= MaxLen
  <2>1. held + add \in 0 .. larger /\ held + add <= MaxLen
    <3>1. held + add <= larger /\ moved.past + Len(toks) <= MaxLen
      BY <1>6, <1>7
    <3>2. QED
      BY <1>4, <1>5, <3>1
  <2>2. QED
    BY <1>9, <1>10, <1>15, <2>1
<1>17. QED
  BY <1>1, <1>7, <1>10, <1>16, NextInv DEF Layout

(* A forward that keeps nothing starts with buffers of its own length.     *)
LEMMA RebuildInv ==
  ASSUME flash \in BOOLEAN, NEW toks \in Pieces, Rebuild(toks)
  PROVE  KeysInv' /\ ValuesInv'
<1> DEFINE c == OnAlloc(EmptyCache, Len(toks))
           max == c.max
           blank == [ p \in Pos |-> Blank ]
           room == Len(toks) + ExpandChunk
<1>1. /\ toks \in Seq(Token) /\ Len(toks) \in Nat /\ Len(toks) > 0 /\ Len(toks) <= MaxLen
  BY PiecesAreSequences, LayoutAssumption, CacheAssumption
<1>2. c \in Cache /\ c.past = 0 /\ max \in Nat \ {0} /\ Len(toks) <= max
  <2>1. room \in Nat \ {0} /\ Len(toks) <= room
    BY <1>1, CacheAssumption
  <2>2. blank \in [Pos -> Token \cup {Blank}]
    OBVIOUS
  <2>3. c = [ EmptyCache EXCEPT !.cells = blank, !.max = room ]
    BY DEF OnAlloc
  <2>4. EmptyCache \in Cache /\ EmptyCache.past = 0
    BY <2>2 DEF EmptyCache, Cache
  <2> HIDE DEF c, blank, room
  <2>5. c \in Cache /\ c.past = 0 /\ c.max = room
    BY <2>1, <2>2, <2>3, <2>4 DEF Cache
  <2>6. QED
    BY <2>1, <2>5
<1>3. /\ UNCHANGED flash /\ cache' = OnUpdateKV(c, toks)
      /\ keys' = StoredKeys(Buffer(KeySize(max)), 0, toks)
      /\ values' = StoredValues(Buffer(ValueSize(max)), max, 0, toks)
  BY DEF Rebuild, OnClear, StoredKeys, StoredValues, Store
<1> HIDE DEF c
<1>4. /\ cache' \in Cache /\ cache'.past = 0 + Len(toks) /\ cache'.max = max
      /\ Appended(c.cells, 0, toks, cache'.cells)
  <2>1. c.past \in Nat /\ c.past + Len(toks) <= MaxLen
    BY <1>1, <1>2
  <2>2. QED
    BY <1>2, <1>3, <2>1, UpdateFacts
<1>5. UpperKv(max) \in Nat \ {0}
  BY <1>2, Packing DEF UpperKv
<1>6. KeysHold(Buffer(KeySize(max)), max, c.cells, 0) /\ ValuesHold(Buffer(ValueSize(max)), max, c.cells, 0)
  <2>1. 0 .. 0 - 1 = {}
    OBVIOUS
  <2>2. QED
    BY <2>1 DEF KeysHold, ValuesHold, Buffer
<1> HIDE DEF max
<1>7. 0 + Len(toks) <= max
  BY <1>1, <1>2
<1>8. KeysHold(keys', max, cache'.cells, 0 + Len(toks))
  BY <1>1, <1>2, <1>3, <1>4, <1>6, <1>7, StoreKeys
<1>9. ValuesHold(values', max, cache'.cells, 0 + Len(toks))
  BY <1>1, <1>2, <1>3, <1>4, <1>5, <1>6, <1>7, StoreValues
<1>10. cache'.past \in 0 .. cache'.max /\ cache'.past <= MaxLen
  BY <1>1, <1>2, <1>4
<1>11. QED
  BY <1>3, <1>4, <1>8, <1>9, <1>10, NextInv

-----------------------------------------------------------------------------
(* The theorems.                                                           *)

(* Before the first forward there is no history.                           *)
LEMMA LayoutStart ==
  ASSUME LayoutInit
  PROVE  KeysInv /\ ValuesInv
<1>1. [ p \in Pos |-> Blank ] \in [Pos -> Token \cup {Blank}]
  OBVIOUS
<1>2. EmptyCache \in Cache /\ EmptyCache.past = 0 /\ EmptyCache.max = 0
  BY <1>1 DEF EmptyCache, Cache
<1>3. MaxLen \in Nat
  BY CacheAssumption
<1>4. flash \in BOOLEAN /\ cache = EmptyCache
  BY DEF LayoutInit
<1>5. QED
  BY <1>2, <1>3, <1>4 DEF KeysInv, ValuesInv, Layout

(* Whatever tails callers keep, every key stays where it is read: the      *)
(* index formulas of ProcessKey and of moveKV are the same.                *)
THEOREM KeysCorrect == LayoutSpec => []KeysMatch
<1>1. LayoutInit => KeysInv
  BY LayoutStart
<1>2. KeysInv /\ [LayoutNext]_layoutVars => KeysInv'
  <2> SUFFICES ASSUME KeysInv, [LayoutNext]_layoutVars
               PROVE  KeysInv'
    OBVIOUS
  <2>1. flash \in BOOLEAN
    BY DEF KeysInv, Layout
  <2>2. ASSUME NEW toks \in Pieces, Rebuild(toks)
        PROVE  KeysInv'
    BY <2>1, <2>2, RebuildInv
  <2>3. ASSUME NEW toks \in Pieces, NEW m \in Plans(cache.past, Len(toks)),
               Effective(m) + Len(toks) <= MaxLen, Extend(m, toks)
        PROVE  KeysInv'
    BY <2>3, ExtendKeys
  <2>4. CASE UNCHANGED layoutVars
    BY <2>4 DEF layoutVars, KeysInv, Layout, KeysHold, KeyIndex, KeySize
  <2>5. QED
    BY <2>2, <2>3, <2>4 DEF LayoutNext
<1>3. KeysInv => KeysMatch
  <2> SUFFICES ASSUME KeysInv, NEW p \in 0 .. cache.past - 1, NEW dim \in Dims
               PROVE  keys[KeyIndex(p, dim)] = Element(cache.cells[p], dim)
    BY DEF KeysMatch
  <2>1. cache.past > 0
    BY DEF KeysInv, Layout, Cache
  <2>2. QED
    BY <2>1 DEF KeysInv, KeysHold
<1>4. QED
  BY <1>1, <1>2, <1>3, PTL DEF LayoutSpec

(* Every value stays where it is read, as long as a tail is kept in        *)
(* buffers of a single block alone: moveKV knows no other.                 *)
THEOREM ValuesCorrect ==
  ASSUME KeepsTailIn \subseteq {FALSE}
  PROVE  LayoutSpec => []ValuesMatch
<1>1. LayoutInit => ValuesInv
  BY LayoutStart
<1>2. ValuesInv /\ [LayoutNext]_layoutVars => ValuesInv'
  <2> SUFFICES ASSUME ValuesInv, [LayoutNext]_layoutVars
               PROVE  ValuesInv'
    OBVIOUS
  <2>1. flash \in BOOLEAN
    BY DEF ValuesInv, Layout
  <2>2. ASSUME NEW toks \in Pieces, Rebuild(toks)
        PROVE  ValuesInv'
    BY <2>1, <2>2, RebuildInv
  <2>3. ASSUME NEW toks \in Pieces, NEW m \in Plans(cache.past, Len(toks)),
               Effective(m) + Len(toks) <= MaxLen, Extend(m, toks)
        PROVE  ValuesInv'
    BY <2>3, ExtendValues
  <2>4. CASE UNCHANGED layoutVars
    BY <2>4 DEF layoutVars, ValuesInv, Layout, ValuesHold, ValueIndex, ValueSize, UpperKv
  <2>5. QED
    BY <2>2, <2>3, <2>4 DEF LayoutNext
<1>3. ValuesInv => ValuesMatch
  <2> SUFFICES ASSUME ValuesInv, NEW p \in 0 .. cache.past - 1, NEW dim \in Dims
               PROVE  values[ValueIndex(cache.max, p, dim)] = Element(cache.cells[p], dim)
    BY DEF ValuesMatch
  <2>1. cache.past > 0
    BY DEF ValuesInv, Layout, Cache
  <2>2. QED
    BY <2>1 DEF ValuesInv, ValuesHold
<1>4. QED
  BY <1>1, <1>2, <1>3, PTL DEF LayoutSpec

-----------------------------------------------------------------------------
(* The interactive callers (RollbackDemo), which name rows by a length of  *)
(* the stored history, also while the model attends to less: what is kept  *)
(* is a prefix of what is stored, what was saved is a prefix of what is    *)
(* kept, and no marker is below the length of what was saved with it.      *)

DemoTypes ==
  /\ stored \in Seq(Id) /\ kept \in Seq(Id)
  /\ caller \in {"agent", "chat"}
  /\ pc \in {"prompt", "prefill", "decode", "verify", "exit"}
  /\ pc = "verify" => stored # << >>
  /\ input \in Seq(Id)
  /\ markers \in Seq(Nat) /\ prefix \in Nat \cup {None}
  /\ saved \in Seq(Seq(Id)) /\ settled \in Seq(BOOLEAN)

Begins(rows, longer) ==
  Len(rows) <= Len(longer) /\ \A i \in 1 .. Len(rows) : longer[i] = rows[i]

(* Erases take rows from the end only, and at least one row has been       *)
(* stored since the last marker when drafts can be rejected.               *)
RowsNested ==
  /\ Begins(kept, stored)
  /\ pc = "verify" => kept = stored
  /\ \A i \in 1 .. Len(saved) :
       /\ Begins(saved[i], kept)
       /\ pc = "verify" => Len(saved[i]) < Len(kept)

MarkersMatch ==
  caller = "chat" =>
    /\ Len(markers) = Len(saved) /\ Len(settled) = Len(saved)
    /\ \A i \in 1 .. Len(saved) :
         /\ Len(saved[i]) <= markers[i]
         /\ settled[i] => markers[i] = Len(saved[i])
    /\ \A i, j \in 1 .. Len(saved) : i <= j => Len(saved[i]) <= Len(saved[j])

PrefixMatches ==
  caller = "agent" =>
    /\ markers = << >>
    /\ prefix # None => Len(saved) = 1 /\ prefix = Len(saved[1])
    /\ prefix = None => pc \in {"prompt", "prefill", "exit"}
    /\ pc = "prefill" /\ prefix # None => Len(kept) = prefix

Matched == RowsNested /\ MarkersMatch /\ PrefixMatches

DemoInv == DemoTypes /\ Matched

-----------------------------------------------------------------------------
(* What the history does.                                                  *)

(* A forward appends to what is kept.                                      *)
LEMMA ForwardAppends ==
  ASSUME DemoTypes, NEW ts \in Seq(Id), Talk!Forward(ts)
  PROVE  /\ kept' \in Seq(Id) /\ stored' = kept'
         /\ Len(kept) < Len(kept')
         /\ Begins(kept, kept')
<1>1. kept \in Seq(Id) /\ ts # << >> /\ kept' = kept \o ts /\ stored' = kept'
  BY DEF DemoTypes, Talk!Forward
<1>2. /\ kept \o ts \in Seq(Id)
      /\ Len(kept \o ts) = Len(kept) + Len(ts)
      /\ \A i \in 1 .. Len(kept) + Len(ts) :
           (kept \o ts)[i] = IF i <= Len(kept) THEN kept[i] ELSE ts[i - Len(kept)]
  BY <1>1, ConcatProperties
<1>3. Len(kept) \in Nat /\ Len(ts) \in Nat \ {0}
  BY <1>1, LenProperties, EmptySeq
<1>4. QED
  BY <1>1, <1>2, <1>3 DEF Begins

(* Erasing from n to the end keeps rows that are stored, among them all    *)
(* that were kept before n, whether the Llm plans an erase or refuses      *)
(* because nothing lies behind n; and no other if n rows were kept.        *)
LEMMA EraseKeeps ==
  ASSUME DemoTypes, Begins(kept, stored), NEW n \in Nat,
         NEW end \in {0, Len(stored)}, Erase(n, end)
  PROVE  /\ kept' \in Seq(Id) /\ stored' = stored
         /\ Begins(kept', stored)
         /\ n <= Len(kept) => Len(kept') = n
         /\ n > Len(kept) => Len(kept') >= Len(kept)
<1> DEFINE last == IF end = 0 THEN Len(stored) ELSE end
<1>1. /\ kept \in Seq(Id) /\ stored \in Seq(Id)
      /\ Len(kept) \in Nat /\ Len(stored) \in Nat /\ Len(kept) <= Len(stored)
      /\ last = Len(stored)
  BY LenProperties DEF DemoTypes, Begins
<1>2. CASE n < Len(stored)
  <2>1. Talk!Erase(n, last)
    BY <1>1, <1>2 DEF Erase
  <2>2. /\ kept' = SubSeq(stored, 1, n) \o SubSeq(stored, Len(stored) + 1, Len(stored))
        /\ stored' = stored
    BY <1>1, <2>1 DEF Talk!Erase
  <2>3. SubSeq(stored, Len(stored) + 1, Len(stored)) = << >>
    BY <1>1, SubSeqEmpty
  <2>4. \A i \in 1 .. n : stored[i] \in Id
    BY <1>1, <1>2, ElementOfSeq
  <2>5. /\ SubSeq(stored, 1, n) \in Seq(Id)
        /\ Len(SubSeq(stored, 1, n)) = n
        /\ \A i \in 1 .. n : SubSeq(stored, 1, n)[i] = stored[i]
    BY <2>4, SubSeqProperties
  <2>6. kept' = SubSeq(stored, 1, n)
    BY <2>2, <2>3, <2>5, ConcatEmptySeq
  <2>7. Begins(kept', stored)
    BY <1>1, <1>2, <2>5, <2>6 DEF Begins
  <2>8. QED
    BY <1>1, <2>2, <2>5, <2>6, <2>7
<1>3. CASE n >= Len(stored)
  <2>1. UNCHANGED << stored, kept >>
    BY <1>1, <1>3 DEF Erase, history
  <2>2. QED
    BY <1>1, <1>3, <2>1
<1>4. QED
  BY <1>1, <1>2, <1>3

(* Whatever lengths it is given, an erase leaves sequences of tokens.      *)
LEMMA EraseType ==
  ASSUME DemoTypes, NEW n \in Nat, NEW end \in Nat, Erase(n, end)
  PROVE  kept' \in Seq(Id) /\ stored' = stored
<1> DEFINE last == IF end = 0 THEN Len(stored) ELSE end
<1>1. stored \in Seq(Id) /\ kept \in Seq(Id) /\ Len(stored) \in Nat /\ last \in Nat
  BY LenProperties DEF DemoTypes
<1>2. CASE n < last /\ last <= Len(stored)
  <2>1. /\ kept' = SubSeq(stored, 1, n) \o SubSeq(stored, last + 1, Len(stored))
        /\ stored' = stored
    BY <1>2 DEF Erase, Talk!Erase
  <2>2. \A i \in 1 .. Len(stored) : stored[i] \in Id
    BY <1>1, ElementOfSeq
  <2>3. \A i \in 1 .. n : stored[i] \in Id
    BY <1>1, <1>2, <2>2
  <2>4. \A i \in last + 1 .. Len(stored) : stored[i] \in Id
    BY <1>1, <2>2
  <2>5. SubSeq(stored, 1, n) \in Seq(Id)
    BY <1>1, <2>3, SubSeqProperties
  <2>6. SubSeq(stored, last + 1, Len(stored)) \in Seq(Id)
    <3>1. last + 1 \in Int /\ Len(stored) \in Int
      BY <1>1
    <3> HIDE DEF last
    <3>2. QED
      BY <2>4, <3>1, SubSeqProperties
  <2>7. QED
    BY <2>1, <2>5, <2>6, ConcatProperties
<1>3. CASE ~(n < last /\ last <= Len(stored))
  BY <1>1, <1>3 DEF Erase, history
<1>4. QED
  BY <1>2, <1>3

(* A sequence without its last element.                                    *)
LEMMA FrontOf ==
  ASSUME NEW S, NEW s \in Seq(S)
  PROVE  /\ Front(s) \in Seq(S)
         /\ s # << >> => Len(Front(s)) = Len(s) - 1 /\ Last(s) \in S
         /\ \A i \in 1 .. Len(s) - 1 : Front(s)[i] = s[i]
<1>1. Len(s) \in Nat /\ (s # << >> => Len(s) > 0)
  BY LenProperties, EmptySeq
<1>2. \A i \in 1 .. Len(s) - 1 : s[i] \in S
  BY <1>1, ElementOfSeq
<1> DEFINE n == Len(s) - 1
<1>3. /\ SubSeq(s, 1, n) \in Seq(S)
      /\ n \in Nat => Len(SubSeq(s, 1, n)) = n
      /\ \A i \in 1 .. n : SubSeq(s, 1, n)[i] = s[i]
  <2>1. n \in Int /\ \A i \in 1 .. n : s[i] \in S
    BY <1>1, <1>2
  <2> HIDE DEF n
  <2>2. QED
    BY <2>1, SubSeqProperties
<1>4. s # << >> => Last(s) \in S
  BY <1>1, ElementOfSeq DEF Last
<1>5. QED
  BY <1>1, <1>3, <1>4 DEF Front

(* Rejecting the last draft is an erase of the last row.                   *)
LEMMA RejectIsErase ==
  ASSUME DemoTypes, Reject
  PROVE  /\ Len(stored) \in Nat \ {0} /\ Len(stored) - 1 \in Nat
         /\ Erase(Len(stored) - 1, Len(stored))
<1>1. Len(stored) \in Nat
  BY LenProperties DEF DemoTypes
<1>2. Talk!Erase(Len(stored) - 1, Len(stored))
  BY DEF Reject
<1>3. Len(stored) \in Nat \ {0}
  BY <1>1, EmptySeq DEF DemoTypes, Reject
<1>4. QED
  BY <1>1, <1>2, <1>3 DEF Erase

(* What a decode adds are tokens.                                          *)
LEMMA DecodedTokens ==
  ASSUME NEW ts \in { << t >> : t \in Id } \cup { << t, t >> : t \in Id }
  PROVE  ts \in Seq(Id)
<1>1. \A t \in Id : << t >> \in Seq(Id)
  OBVIOUS
<1>2. \A t \in Id : << t, t >> \in Seq(Id)
  OBVIOUS
<1>3. QED
  BY <1>1, <1>2

-----------------------------------------------------------------------------
(* Every action keeps the types.                                           *)
LEMMA DemoTypesNext ==
  ASSUME DemoTypes, [DemoNext]_demoVars
  PROVE  DemoTypes' /\ caller' = caller
<1>1. ASSUME NEW ids \in Prompts, Ask(ids)
      PROVE  DemoTypes' /\ caller' = caller
  <2>1. Len(stored) \in Nat /\ ids \in Seq(Id)
    BY LenProperties, RollbackAssumption DEF DemoTypes
  <2>2. /\ markers' \in Seq(Nat) /\ saved' \in Seq(Seq(Id))
        /\ settled' \in Seq(BOOLEAN)
    <3>1. (kept = stored) \in BOOLEAN
      OBVIOUS
    <3>2. settled' \in Seq(BOOLEAN)
      BY <1>1, <3>1, AppendProperties DEF Ask, AskAt, DemoTypes
    <3>3. QED
      BY <1>1, <2>1, <3>2, AppendProperties DEF Ask, AskAt, DemoTypes
  <2>3. QED
    BY <1>1, <2>1, <2>2 DEF Ask, AskAt, DemoTypes, history
<1>2. ASSUME NEW ids \in Prompts, SendPrefix(ids)
      PROVE  DemoTypes' /\ caller' = caller
  BY <1>2, RollbackAssumption DEF SendPrefix, DemoTypes, history
<1>3. ASSUME NEW ids \in Prompts, Step(ids)
      PROVE  DemoTypes' /\ caller' = caller
  <2>1. kept' \in Seq(Id) /\ stored' = stored
    BY <1>3, EraseType DEF Step, EraseStep, DemoTypes
  <2>2. QED
    BY <1>3, <2>1, RollbackAssumption DEF Step, DemoTypes
<1>4. CASE Rollback
  <2>1. Last(markers) \in Nat /\ Len(stored) \in Nat
    BY <1>4, FrontOf, LenProperties DEF Rollback, DemoTypes
  <2>2. kept' \in Seq(Id) /\ stored' = stored
    <3> DEFINE n == Last(markers)
    <3>1. Erase(n, Len(stored))
      BY <1>4 DEF Rollback
    <3> HIDE DEF n
    <3>2. n \in Nat => kept' \in Seq(Id) /\ stored' = stored
      BY <2>1, <3>1, EraseType
    <3>3. QED
      BY <2>1, <3>2 DEF n
  <2>3. /\ markers' \in Seq(Nat) /\ saved' \in Seq(Seq(Id))
        /\ settled' \in Seq(BOOLEAN)
    BY <1>4, FrontOf DEF Rollback, DemoTypes
  <2>4. QED
    BY <1>4, <2>2, <2>3 DEF Rollback, DemoTypes
<1>5. CASE Prefill
  <2>1. kept' \in Seq(Id) /\ stored' = kept'
    BY <1>5, ForwardAppends DEF Prefill, DemoTypes
  <2>2. Len(stored') \in Nat
    BY <2>1, LenProperties
  <2>3. << kept' >> \in Seq(Seq(Id)) /\ << >> \in Seq(Id)
    BY <2>1
  <2>4. QED
    BY <1>5, <2>1, <2>2, <2>3 DEF Prefill, DemoTypes
<1>6. ASSUME NEW ts \in Seq(Id), Decode(ts)
      PROVE  DemoTypes' /\ caller' = caller
  <2>1. kept' \in Seq(Id) /\ stored' = kept' /\ stored' # << >>
    <3>1. /\ kept' \in Seq(Id) /\ stored' = kept'
          /\ Len(kept) < Len(kept')
      BY <1>6, ForwardAppends DEF Decode
    <3>2. Len(kept) \in Nat
      BY LenProperties DEF DemoTypes
    <3>3. QED
      BY <3>1, <3>2, EmptySeq
  <2>2. QED
    BY <1>6, <2>1 DEF Decode, DemoTypes
<1>7. CASE Reject
  <2>1. kept' \in Seq(Id) /\ stored' = stored
    BY <1>7, RejectIsErase, EraseType
  <2>2. QED
    BY <1>7, <2>1 DEF Reject, DemoTypes
<1>8. CASE Accept \/ EndTurn \/ Exit \/ UNCHANGED demoVars
  <2>1. << >> \in Seq(Id)
    BY EmptySeq
  <2>2. QED
    BY <1>8, <2>1 DEF Accept, EndTurn, Exit, demoVars, history, DemoTypes
<1>9. QED
  BY <1>1, <1>2, <1>3, <1>4, <1>5, <1>6, <1>7, <1>8, DecodedTokens DEF DemoNext

-----------------------------------------------------------------------------
(* Every action keeps rows, markers and the prefix matched.                *)

(* The lengths in play.                                                    *)
LEMMA Lengths ==
  ASSUME DemoTypes
  PROVE  /\ Len(stored) \in Nat /\ Len(kept) \in Nat
         /\ Len(markers) \in Nat /\ Len(saved) \in Nat
         /\ \A i \in 1 .. Len(saved) : saved[i] \in Seq(Id) /\ Len(saved[i]) \in Nat
         /\ \A i \in 1 .. Len(markers) : markers[i] \in Nat
<1>1. /\ Len(stored) \in Nat /\ Len(kept) \in Nat
      /\ Len(markers) \in Nat /\ Len(saved) \in Nat
  BY LenProperties DEF DemoTypes
<1>2. \A i \in 1 .. Len(saved) : saved[i] \in Seq(Id)
  BY ElementOfSeq DEF DemoTypes
<1>3. \A i \in 1 .. Len(saved) : Len(saved[i]) \in Nat
  BY <1>2, LenProperties
<1>4. \A i \in 1 .. Len(markers) : markers[i] \in Nat
  BY ElementOfSeq DEF DemoTypes
<1>5. QED
  BY <1>1, <1>2, <1>3, <1>4

(* A forward.                                                              *)
LEMMA ForwardNested ==
  ASSUME DemoTypes, RowsNested, NEW ts \in Seq(Id), Talk!Forward(ts), UNCHANGED saved
  PROVE  RowsNested'
<1>1. /\ kept' \in Seq(Id) /\ stored' = kept'
      /\ Len(kept) < Len(kept') /\ Begins(kept, kept')
  BY ForwardAppends
<1>2. Len(kept') \in Nat /\ Len(kept) \in Nat
  BY <1>1, LenProperties, Lengths
<1>3. ASSUME NEW i \in 1 .. Len(saved)
      PROVE  Begins(saved[i], kept') /\ Len(saved[i]) < Len(kept')
  <2>1. Begins(saved[i], kept) /\ Len(saved[i]) \in Nat
    BY Lengths DEF RowsNested
  <2>2. QED
    BY <1>1, <1>2, <2>1 DEF Begins
<1>4. Begins(kept', kept')
  BY <1>2 DEF Begins
<1>5. QED
  BY <1>1, <1>3, <1>4 DEF RowsNested

(* Rows saved that are not longer than n survive an erase from n.          *)
LEMMA KeptStays ==
  ASSUME DemoTypes, RowsNested, NEW n \in Nat,
         NEW end \in {0, Len(stored)}, Erase(n, end),
         NEW i \in 1 .. Len(saved), Len(saved[i]) <= n
  PROVE  Begins(saved[i], kept')
<1>1. /\ kept' \in Seq(Id) /\ Begins(kept', stored)
      /\ n <= Len(kept) => Len(kept') = n
      /\ n > Len(kept) => Len(kept') >= Len(kept)
  BY EraseKeeps DEF RowsNested
<1>2. /\ Begins(saved[i], kept) /\ Begins(kept, stored)
      /\ Len(saved[i]) \in Nat /\ Len(kept) \in Nat /\ Len(kept') \in Nat
  BY <1>1, Lengths, LenProperties DEF RowsNested
<1>3. Len(saved[i]) <= Len(kept')
  BY <1>1, <1>2 DEF Begins
<1>4. \A j \in 1 .. Len(saved[i]) : kept'[j] = saved[i][j]
  <2> SUFFICES ASSUME NEW j \in 1 .. Len(saved[i])
               PROVE  kept'[j] = saved[i][j]
    OBVIOUS
  <2>1. j \in 1 .. Len(kept) /\ j \in 1 .. Len(kept')
    BY <1>2, <1>3 DEF Begins
  <2>2. kept'[j] = stored[j] /\ stored[j] = kept[j] /\ kept[j] = saved[i][j]
    BY <1>1, <1>2, <2>1 DEF Begins
  <2>3. QED
    BY <2>2
<1>5. QED
  BY <1>3, <1>4 DEF Begins

(* An erase of all behind n, when everything that stays saved is not       *)
(* longer than n.                                                          *)
LEMMA EraseNested ==
  ASSUME DemoTypes, RowsNested, NEW n \in Nat,
         NEW end \in {0, Len(stored)}, Erase(n, end),
         pc' # "verify",
         \A i \in 1 .. Len(saved') :
           i \in 1 .. Len(saved) /\ saved'[i] = saved[i] /\ Len(saved[i]) <= n
  PROVE  RowsNested' /\ (n <= Len(kept) => Len(kept') = n)
<1>1. /\ kept' \in Seq(Id) /\ stored' = stored /\ Begins(kept', stored)
      /\ n <= Len(kept) => Len(kept') = n
      /\ n > Len(kept) => Len(kept') >= Len(kept)
  BY EraseKeeps DEF RowsNested
<1>2. ASSUME NEW i \in 1 .. Len(saved')
      PROVE  Begins(saved'[i], kept')
  BY <1>1, KeptStays
<1>3. Begins(kept', stored')
  BY <1>1
<1>4. QED
  BY <1>1, <1>2, <1>3 DEF RowsNested

(* What a sequence begins with is a prefix of it.                          *)
LEMMA BeginsIsPrefix ==
  ASSUME NEW s \in Seq(Id), NEW t \in Seq(Id), Begins(s, t)
  PROVE  IsPrefix(s, t)
<1>1. Len(s) \in Nat /\ Len(t) \in Nat /\ Len(s) <= Len(t)
  BY LenProperties DEF Begins
<1>2. \A i \in 1 .. Len(s) : s[i] \in Id /\ t[i] \in Id /\ t[i] = s[i]
  BY <1>1, ElementOfSeq DEF Begins
<1>3. /\ SubSeq(s, 1, Len(s)) \in Seq(Id) /\ SubSeq(t, 1, Len(s)) \in Seq(Id)
      /\ Len(SubSeq(s, 1, Len(s))) = Len(s) /\ Len(SubSeq(t, 1, Len(s))) = Len(s)
      /\ \A i \in 1 .. Len(s) : /\ SubSeq(s, 1, Len(s))[i] = s[i]
                                /\ SubSeq(t, 1, Len(s))[i] = t[i]
  BY <1>1, <1>2, SubSeqProperties
<1>4. SubSeq(s, 1, Len(s)) = SubSeq(t, 1, Len(s))
  BY <1>2, <1>3, SeqEqual
<1>5. QED
  BY <1>1, <1>4 DEF IsPrefix

(* A turn adds a marker, not below the rows it starts from.                *)
LEMMA AskMatched ==
  ASSUME DemoTypes, Matched, NEW ids \in Prompts, Ask(ids)
  PROVE  Matched'
<1>1. /\ caller = "chat" /\ caller' = caller /\ pc' = "prefill"
      /\ markers' = Append(markers, Len(stored)) /\ saved' = Append(saved, kept)
      /\ settled' = Append(settled, kept = stored)
      /\ UNCHANGED << stored, kept, prefix >>
  BY DEF Ask, AskAt, history
<1> DEFINE n == Len(saved)
           still == kept = stored
<1>2. /\ n \in Nat /\ Len(stored) \in Nat /\ Len(kept) \in Nat
      /\ Len(markers) = n /\ Len(settled) = n
      /\ Len(saved') = n + 1 /\ saved'[n + 1] = kept
      /\ \A i \in 1 .. n : saved'[i] = saved[i]
  BY <1>1, AppendProperties, Lengths DEF DemoTypes, Matched, MarkersMatch
<1>3. /\ Len(markers') = n + 1 /\ markers'[n + 1] = Len(stored)
      /\ \A i \in 1 .. n : markers'[i] = markers[i]
  BY <1>1, <1>2, AppendProperties DEF DemoTypes
<1>4. /\ Len(settled') = n + 1 /\ settled'[n + 1] = still
      /\ \A i \in 1 .. n : settled'[i] = settled[i]
  <2>1. still \in BOOLEAN /\ settled \in Seq(BOOLEAN) /\ settled' = Append(settled, still)
    BY <1>1 DEF DemoTypes
  <2> HIDE DEF still, n
  <2>2. QED
    BY <1>2, <2>1, AppendProperties
<1>5. Len(kept) <= Len(stored) /\ (still => Len(stored) = Len(kept))
  BY DEF Matched, RowsNested, Begins
<1>6. \A i \in 1 .. n : /\ Begins(saved[i], kept) /\ Len(saved[i]) \in Nat
                        /\ Len(saved[i]) <= Len(kept) /\ Len(saved[i]) <= markers[i]
                        /\ settled[i] => markers[i] = Len(saved[i])
                        /\ \A j \in 1 .. n : i <= j => Len(saved[i]) <= Len(saved[j])
  BY <1>1, <1>2, Lengths DEF Matched, RowsNested, MarkersMatch, Begins
<1> HIDE DEF n, still
<1>7. \A i \in 1 .. n + 1 : i \in 1 .. n \/ i = n + 1
  BY <1>2
<1>8. RowsNested'
  <2>1. Begins(kept, kept) /\ Begins(kept, stored)
    BY Lengths DEF Begins, Matched, RowsNested
  <2>2. \A i \in 1 .. Len(saved') : Begins(saved'[i], kept)
    BY <1>2, <1>6, <1>7, <2>1
  <2>3. QED
    BY <1>1, <2>1, <2>2 DEF RowsNested
<1>9. MarkersMatch'
  <2>1. \A i \in 1 .. n + 1 : /\ Len(saved'[i]) <= markers'[i]
                              /\ settled'[i] => markers'[i] = Len(saved'[i])
    <3> SUFFICES ASSUME NEW i \in 1 .. n + 1
                 PROVE  /\ Len(saved'[i]) <= markers'[i]
                        /\ settled'[i] => markers'[i] = Len(saved'[i])
      OBVIOUS
    <3>1. CASE i \in 1 .. n
      BY <1>2, <1>3, <1>4, <1>6, <3>1
    <3>2. CASE i = n + 1
      BY <1>2, <1>3, <1>4, <1>5, <3>2
    <3>3. QED
      BY <1>7, <3>1, <3>2
  <2>2. ASSUME NEW i \in 1 .. n + 1, NEW j \in 1 .. n + 1, i <= j
        PROVE  Len(saved'[i]) <= Len(saved'[j])
    <3>1. CASE j \in 1 .. n
      <4>1. i \in 1 .. n
        BY <1>2, <2>2, <3>1
      <4>2. QED
        BY <1>2, <1>6, <2>2, <3>1, <4>1
    <3>2. CASE j = n + 1
      <4>1. saved'[j] = kept
        BY <1>2, <3>2
      <4>2. CASE i \in 1 .. n
        BY <1>2, <1>6, <4>1, <4>2
      <4>3. CASE i = n + 1
        BY <1>2, <4>1, <4>3
      <4>4. QED
        BY <1>7, <4>2, <4>3
    <3>3. QED
      BY <1>7, <3>1, <3>2
  <2>3. QED
    BY <1>2, <1>3, <1>4, <2>1, <2>2 DEF MarkersMatch
<1>10. PrefixMatches'
  BY <1>1 DEF PrefixMatches
<1>11. QED
  BY <1>8, <1>9, <1>10 DEF Matched

(* A rollback keeps the rows its marker was set behind, and no other when  *)
(* none of them was to be erased at that time.                             *)
LEMMA RollbackMatched ==
  ASSUME DemoTypes, Matched, Rollback
  PROVE  /\ Matched'
         /\ IsPrefix(Last(saved), kept')
         /\ Last(settled) => kept' = Last(saved)
<1> DEFINE m == Len(markers)
           n == markers[m]
<1>1. /\ caller = "chat" /\ caller' = caller /\ pc = "prompt" /\ pc' = pc
      /\ markers # << >> /\ Erase(n, Len(stored))
      /\ markers' = Front(markers) /\ saved' = Front(saved) /\ settled' = Front(settled)
  BY DEF Rollback, Last
<1>2. /\ m \in Nat \ {0} /\ Len(saved) = m /\ Len(settled) = m
      /\ n \in Nat /\ Len(saved[m]) <= n
      /\ saved[m] \in Seq(Id) /\ Begins(saved[m], kept) /\ Len(saved[m]) \in Nat
      /\ settled[m] => n = Len(saved[m])
  <2>1. m \in Nat \ {0}
    BY <1>1, EmptySeq DEF DemoTypes
  <2>2. QED
    BY <1>1, <2>1, Lengths DEF Matched, MarkersMatch, RowsNested
<1>3. /\ Len(markers') = m - 1 /\ Len(saved') = m - 1 /\ Len(settled') = m - 1
      /\ \A i \in 1 .. m - 1 : /\ markers'[i] = markers[i] /\ saved'[i] = saved[i]
                               /\ settled'[i] = settled[i]
  <2>1. saved # << >> /\ settled # << >>
    BY <1>2, EmptySeq
  <2>2. QED
    BY <1>1, <1>2, <2>1, FrontOf DEF DemoTypes
<1>4. \A i \in 1 .. m : /\ Len(saved[i]) <= n /\ Len(saved[i]) <= markers[i]
                        /\ settled[i] => markers[i] = Len(saved[i])
                        /\ \A j \in 1 .. m : i <= j => Len(saved[i]) <= Len(saved[j])
  <2>1. \A i \in 1 .. m : /\ Len(saved[i]) <= Len(saved[m]) /\ Len(saved[i]) \in Nat
                          /\ Len(saved[i]) <= markers[i]
                          /\ settled[i] => markers[i] = Len(saved[i])
                          /\ \A j \in 1 .. m : i <= j => Len(saved[i]) <= Len(saved[j])
    BY <1>1, <1>2, Lengths DEF Matched, MarkersMatch
  <2> HIDE DEF m, n
  <2>2. QED
    BY <1>2, <2>1
<1> HIDE DEF m, n
<1>5. \A i \in 1 .. m - 1 : i \in 1 .. m
  BY <1>2
<1>6. RowsNested' /\ (n <= Len(kept) => Len(kept') = n)
  BY <1>1, <1>2, <1>3, <1>4, <1>5, EraseNested DEF Matched
<1>7. MarkersMatch' /\ PrefixMatches'
  BY <1>1, <1>3, <1>4, <1>5 DEF MarkersMatch, PrefixMatches
<1>8. m \in 1 .. Len(saved)
  BY <1>2
<1>9. Begins(saved[m], kept') /\ kept' \in Seq(Id) /\ Len(kept') \in Nat
  <2>1. Begins(saved[m], kept')
    BY <1>1, <1>2, <1>8, KeptStays DEF Matched
  <2>2. kept' \in Seq(Id)
    BY <1>1, <1>2, EraseKeeps DEF Matched, RowsNested
  <2>3. QED
    BY <2>1, <2>2, LenProperties
<1>10. IsPrefix(saved[m], kept')
  BY <1>2, <1>9, BeginsIsPrefix
<1>11. settled[m] => kept' = saved[m]
  <2> SUFFICES ASSUME settled[m]
               PROVE  kept' = saved[m]
    OBVIOUS
  <2>1. Len(saved[m]) <= Len(kept) /\ n = Len(saved[m])
    BY <1>2 DEF Begins
  <2>2. Len(kept') = Len(saved[m])
    BY <1>6, <2>1
  <2>3. \A i \in 1 .. Len(saved[m]) : kept'[i] = saved[m][i]
    BY <1>9 DEF Begins
  <2>4. QED
    BY <1>2, <1>9, <2>2, <2>3, SeqEqual
<1>12. Last(saved) = saved[m] /\ Last(settled) = settled[m]
  BY <1>2 DEF Last
<1>13. QED
  BY <1>6, <1>7, <1>10, <1>11, <1>12 DEF Matched

(* A step of the agent goes back to its prefix.                            *)
LEMMA StepMatched ==
  ASSUME DemoTypes, Matched, NEW ids \in Prompts, Step(ids)
  PROVE  Matched'
<1>1. /\ caller = "agent" /\ caller' = caller /\ prefix # None /\ prefix' = prefix
      /\ pc' = "prefill" /\ Erase(prefix, 0)
      /\ markers' = markers /\ saved' = saved /\ settled' = settled
  BY DEF Step, EraseStep
<1>2. /\ prefix \in Nat /\ Len(saved) = 1 /\ prefix = Len(saved[1])
      /\ Begins(saved[1], kept) /\ prefix <= Len(kept)
  <2>1. prefix \in Nat /\ Len(saved) = 1 /\ prefix = Len(saved[1])
    BY <1>1 DEF DemoTypes, Matched, PrefixMatches
  <2>2. 1 \in 1 .. Len(saved)
    BY <2>1
  <2>3. Begins(saved[1], kept)
    BY <2>2 DEF Matched, RowsNested
  <2>4. QED
    BY <2>1, <2>3 DEF Begins
<1>3. \A i \in 1 .. Len(saved) : i = 1
  BY <1>2
<1>4. RowsNested' /\ Len(kept') = prefix
  BY <1>1, <1>2, <1>3, EraseNested DEF Matched
<1>5. MarkersMatch' /\ PrefixMatches'
  BY <1>1, <1>2, <1>4 DEF Matched, MarkersMatch, PrefixMatches
<1>6. QED
  BY <1>4, <1>5 DEF Matched

(* A prompt is added behind what is kept.                                  *)
LEMMA PrefillMatched ==
  ASSUME DemoTypes, Matched, Prefill
  PROVE  Matched'
<1>1. /\ pc = "prefill" /\ Talk!Forward(input) /\ input \in Seq(Id)
      /\ UNCHANGED << caller, markers, settled >>
  BY DEF Prefill, DemoTypes
<1>2. /\ kept' \in Seq(Id) /\ stored' = kept' /\ Len(kept') \in Nat
  BY <1>1, ForwardAppends, LenProperties
<1>3. CASE caller = "agent" /\ prefix = None
  <2>1. /\ pc' = "prompt" /\ prefix' = Len(kept') /\ saved' = << kept' >>
    BY <1>2, <1>3 DEF Prefill
  <2>2. Begins(kept', kept')
    BY <1>2 DEF Begins
  <2>3. QED
    BY <1>1, <1>2, <1>3, <2>1, <2>2
    DEF Matched, RowsNested, MarkersMatch, PrefixMatches
<1>4. CASE ~(caller = "agent" /\ prefix = None)
  <2>1. pc' = "decode" /\ UNCHANGED << prefix, saved >>
    BY <1>4 DEF Prefill
  <2>2. RowsNested'
    BY <1>1, <2>1, ForwardNested DEF Matched
  <2>3. QED
    BY <1>1, <1>4, <2>1, <2>2 DEF Matched, MarkersMatch, PrefixMatches
<1>5. QED
  BY <1>3, <1>4

(* Decoded tokens are added behind what is kept.                           *)
LEMMA DecodeMatched ==
  ASSUME DemoTypes, Matched, NEW ts \in Seq(Id), Decode(ts)
  PROVE  Matched'
<1>1. /\ pc = "decode" /\ pc' = "verify" /\ Talk!Forward(ts)
      /\ UNCHANGED << caller, markers, prefix, saved, settled >>
  BY DEF Decode
<1>2. RowsNested'
  BY <1>1, ForwardNested DEF Matched
<1>3. QED
  BY <1>1, <1>2 DEF Matched, MarkersMatch, PrefixMatches

(* Rejected tokens are taken back, and nothing below them.                 *)
LEMMA RejectMatched ==
  ASSUME DemoTypes, Matched, Reject
  PROVE  Matched'
<1>1. /\ pc = "verify" /\ pc' = "decode"
      /\ UNCHANGED << caller, markers, prefix, saved, settled >>
  BY DEF Reject
<1> DEFINE n == Len(stored) - 1
<1>2. /\ n \in Nat /\ n <= Len(kept) /\ Erase(n, Len(stored)) /\ kept = stored
  BY <1>1, RejectIsErase DEF Matched, RowsNested
<1>3. \A i \in 1 .. Len(saved) : Len(saved[i]) <= n
  BY <1>1, <1>2, Lengths DEF Matched, RowsNested
<1> HIDE DEF n
<1>4. RowsNested'
  BY <1>1, <1>2, <1>3, EraseNested DEF Matched
<1>5. QED
  BY <1>1, <1>4 DEF Matched, MarkersMatch, PrefixMatches

(* Every step keeps markers and rows matched.                              *)
LEMMA MatchedNext ==
  ASSUME DemoTypes, Matched, [DemoNext]_demoVars
  PROVE  Matched'
<1>1. CASE \E ids \in Prompts : Ask(ids) \/ Step(ids)
  BY <1>1, AskMatched, StepMatched
<1>2. CASE Rollback
  BY <1>2, RollbackMatched
<1>3. CASE Prefill \/ Reject
  BY <1>3, PrefillMatched, RejectMatched
<1>4. ASSUME NEW ts \in Seq(Id), Decode(ts)
      PROVE  Matched'
  BY <1>4, DecodeMatched
<1>5. CASE Accept \/ EndTurn \/ Exit \/ UNCHANGED demoVars \/ \E ids \in Prompts : SendPrefix(ids)
  <2>1. /\ UNCHANGED << stored, kept, caller, markers, prefix, saved, settled >>
        /\ pc' = "verify" => pc = "verify"
        /\ caller = "agent" /\ prefix = None => pc' \in {"prompt", "prefill", "exit"}
        /\ caller = "agent" /\ prefix # None /\ pc' = "prefill" => pc = "prefill"
    BY <1>5 DEF Accept, EndTurn, Exit, SendPrefix, demoVars, history, Matched, PrefixMatches
  <2>2. QED
    BY <2>1 DEF Matched, RowsNested, MarkersMatch, PrefixMatches
<1>6. QED
  BY <1>1, <1>2, <1>3, <1>4, <1>5, DecodedTokens DEF DemoNext

-----------------------------------------------------------------------------
(* The theorems.                                                           *)

(* The demo starts with no history.                                        *)
LEMMA DemoInvInit == DemoInit => DemoInv
<1> SUFFICES ASSUME DemoInit
             PROVE  DemoInv
  OBVIOUS
<1>1. DemoTypes
  BY EmptySeq DEF DemoInit, Talk!Init, DemoTypes
<1>2. Len(<< >>) = 0
  OBVIOUS
<1>3. Matched
  BY <1>2
  DEF DemoInit, Talk!Init, Matched, RowsNested, MarkersMatch, PrefixMatches, Begins
<1>4. QED
  BY <1>1, <1>3 DEF DemoInv

(* Every step keeps the histories nested.                                  *)
LEMMA DemoInvNext == DemoInv /\ [DemoNext]_demoVars => DemoInv'
<1> SUFFICES ASSUME DemoInv, [DemoNext]_demoVars
             PROVE  DemoInv'
  OBVIOUS
<1>1. DemoTypes'
  BY DemoTypesNext DEF DemoInv
<1>2. Matched'
  BY MatchedNext DEF DemoInv
<1>3. QED
  BY <1>1, <1>2 DEF DemoInv

(* DemoInv holds in every state the two callers bring the history to.      *)
THEOREM DemoInvariant == DemoSpec => []DemoInv
BY DemoInvInit, DemoInvNext, PTL DEF DemoSpec

(* Every step of the agent prefills right behind its prefix, whatever the  *)
(* steps before it left: for the agent without any condition.              *)
THEOREM StepsStartAtPrefixCorrect == DemoSpec => []StepsStartAtPrefix
<1>1. DemoInv => StepsStartAtPrefix
  <2> SUFFICES ASSUME DemoInv, caller = "agent", pc = "prefill", prefix # None
               PROVE  kept = saved[1]
    BY DEF StepsStartAtPrefix
  <2>1. DemoTypes /\ Matched
    BY DEF DemoInv
  <2>2. /\ Len(saved) = 1 /\ Len(saved[1]) = Len(kept)
        /\ Begins(saved[1], kept) /\ saved[1] \in Seq(Id) /\ kept \in Seq(Id)
    <3>1. Len(saved) = 1 /\ Len(saved[1]) = Len(kept) /\ kept \in Seq(Id)
      BY <2>1 DEF DemoTypes, Matched, PrefixMatches
    <3>2. 1 \in 1 .. Len(saved)
      BY <3>1
    <3>3. Begins(saved[1], kept) /\ saved[1] \in Seq(Id)
      BY <2>1, <3>2, Lengths DEF Matched, RowsNested
    <3>4. QED
      BY <3>1, <3>3
  <2>3. QED
    BY <2>2, SeqEqual DEF Begins
<1>2. QED
  BY <1>1, DemoInvariant, PTL

(* A /rollback never takes a row of an earlier turn, and gives the model   *)
(* back exactly the rows it had when the turn was asked, if no erase was   *)
(* pending then, however other turns were asked.                           *)
THEOREM RollbackRestoresCorrect == DemoSpec => RollbackRestores
<1> DEFINE Restored == /\ IsPrefix(Last(saved), kept')
                       /\ Last(settled) => kept' = Last(saved)
<1>1. DemoInv /\ [DemoNext]_demoVars
        => [ Len(markers') < Len(markers) => Restored ]_demoVars
  <2> SUFFICES ASSUME DemoInv, DemoNext, Len(markers') < Len(markers)
               PROVE  Restored
    OBVIOUS
  <2>1. DemoTypes /\ Matched /\ Len(markers) \in Nat
    BY Lengths DEF DemoInv
  <2>2. CASE Rollback
    BY <2>1, <2>2, RollbackMatched
  <2>3. CASE \E ids \in Prompts : Ask(ids)
    <3>1. markers' = Append(markers, Len(stored)) /\ Len(stored) \in Nat
      BY <2>1, <2>3, Lengths DEF Ask, AskAt
    <3>2. Len(markers') = Len(markers) + 1
      BY <2>1, <3>1, AppendProperties DEF DemoTypes
    <3>3. QED
      BY <2>1, <3>2
  <2>4. CASE ~Rollback /\ ~\E ids \in Prompts : Ask(ids)
    <3>1. markers' = markers
      BY <2>4 DEF DemoNext, SendPrefix, Step, Prefill, Decode, Reject, Accept, EndTurn, Exit
    <3>2. QED
      BY <2>1, <3>1
  <2>5. QED
    BY <2>2, <2>3, <2>4
<1>2. QED
  BY <1>1, DemoInvariant, PTL DEF DemoSpec, RollbackRestores
=============================================================================
