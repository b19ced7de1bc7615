--------------------------- MODULE KVCacheManager ---------------------------
(***************************************************************************)
(* The key/value rows one attention layer keeps: CPUKVCacheManager of      *)
(* source/backend/cpu, as operators on one layer's state                   *)
(*                                                                         *)
(*   cells  the buffer, one row per position (key and value together)      *)
(*   past   mPastLength, the rows in use                                   *)
(*   max    mMaxLength, the rows the buffer has room for                   *)
(*                                                                         *)
(* A row is the token it was computed from; a row never written is Blank.  *)
(* Heads, packing and quantised formats do not appear: every head is moved *)
(* and written alike.                                                      *)
(***************************************************************************)
EXTENDS Integers, Sequences, KVMeta

CONSTANTS
  Token,
  Blank,       \* the content of a row nothing was written to
  MaxLen,      \* bound of the model: rows a conversation can reach
  ExpandChunk, \* mConfig.mExpandChunk, the slack of every (re)allocation
  Quantized    \* TRUE when K or V is quantised (mKeyQuantMode, mValueQuantMode)

ASSUME CacheAssumption ==
  /\ Blank \notin Token
  /\ MaxLen \in Nat
  /\ ExpandChunk \in Nat
  /\ Quantized \in BOOLEAN

Pos == 0 .. MaxLen - 1

Cache == [ cells : [Pos -> Token \cup {Blank}], past : Int, max : Nat ]

EmptyCache == [ cells |-> [p \in Pos |-> Blank], past |-> 0, max |-> 0 ]

(* The rows in use, in order: what a query attends to.                     *)
Rows(c) == [ i \in 1 .. c.past |-> c.cells[i - 1] ]

(* onClear(): the buffers are released.                                    *)
OnClear(c) == EmptyCache

(* onAlloc(), the branch without a prefix file: a new buffer for the       *)
(* incoming (possibly padded) sequence.                                    *)
OnAlloc(c, seqLen) ==
  [ c EXCEPT !.cells = [p \in Pos |-> Blank], !.max = seqLen + ExpandChunk ]

(* moveKV(): copies size rows from src to dst, in ascending order.  dst    *)
(* never exceeds src here, so no row is read after it was overwritten.     *)
(* That key and value move together is what KVLayout checks: it holds for  *)
(* the buffers of attention without flash blocks only.                     *)
MoveKV(cells, src, dst, size) ==
  [ p \in Pos |->
      IF p \in dst .. dst + size - 1 /\ p - dst + src \in Pos
      THEN cells[p - dst + src]
      ELSE cells[p] ]

(* Mutants of OnRealloc: the kept span does not count for the growth test; *)
(* it is read from its offset in the removed range; it is forgotten.       *)
OnReallocGrowsLate(c, m) ==
  LET kvSeqLen == m.previous + m.add - m.remove
      grown == IF kvSeqLen > c.max THEN kvSeqLen + ExpandChunk ELSE c.max
      start == c.past - m.remove
  IN IF m.nReserve = 0 \/ Quantized
     THEN [ c EXCEPT !.max = grown, !.past = start ]
     ELSE [ c EXCEPT !.max = grown,
                     !.cells = MoveKV(c.cells, start + m.begin, start, m.size),
                     !.past = start + m.size ]

OnReallocFromOffset(c, m) ==
  LET kvSeqLen == m.previous + m.add - m.remove + ReverseSize(m)
      grown == IF kvSeqLen > c.max THEN kvSeqLen + ExpandChunk ELSE c.max
      start == c.past - m.remove
  IN IF m.nReserve = 0 \/ Quantized
     THEN [ c EXCEPT !.max = grown, !.past = start ]
     ELSE [ c EXCEPT !.max = grown,
                     !.cells = MoveKV(c.cells, m.begin, start, m.size),
                     !.past = start + m.size ]

OnReallocDropsTail(c, m) ==
  LET kvSeqLen == m.previous + m.add - m.remove + ReverseSize(m)
      grown == IF kvSeqLen > c.max THEN kvSeqLen + ExpandChunk ELSE c.max
  IN [ c EXCEPT !.max = grown, !.past = c.past - m.remove ]

(* onRealloc(): grow the buffer when the rows to come do not fit (the      *)
(* expansion copies the old rows), then carry out the removal; the kept    *)
(* span is moved down, but not in a quantised cache.                       *)
OnRealloc(c, m) ==
  LET kvSeqLen == m.previous + m.add - m.remove + ReverseSize(m)
      grown == IF kvSeqLen > c.max THEN kvSeqLen + ExpandChunk ELSE c.max
      start == c.past - m.remove
  IN IF m.nReserve = 0 \/ Quantized
     THEN [ c EXCEPT !.max = grown, !.past = start ]
     ELSE [ c EXCEPT !.max = grown,
                     !.cells = MoveKV(c.cells, start + m.begin, start, m.size),
                     !.past = start + m.size ]

(* onUpdateKV(): append the rows of the new tokens.                        *)
OnUpdateKV(c, toks) ==
  [ c EXCEPT
      !.cells = [ p \in Pos |-> IF p \in c.past .. c.past + Len(toks) - 1
                                THEN toks[p - c.past + 1]
                                ELSE c.cells[p] ],
      !.past = c.past + Len(toks) ]

(* CPUAttention::onExecute, its cache part: previous = remove means that   *)
(* nothing of the history survives, so the buffer is rebuilt.              *)
AttentionUpdate(c, m, toks, seqLen) ==
  IF m.previous = m.remove
  THEN OnUpdateKV(OnAlloc(OnClear(c), seqLen), toks)
  ELSE OnUpdateKV(OnRealloc(c, m), toks)
=============================================================================
