------------------------------ MODULE KVLayout ------------------------------
(***************************************************************************)
(* Where the rows of KVCacheManager lie in the two float buffers of a      *)
(* head: the packed key buffer and the packed value buffer, whose layouts  *)
(* differ, and the code that computes their indices each time anew: to     *)
(* write a row, to move one and to copy an old buffer into a larger one.   *)
(*                                                                         *)
(* cache is the layer as KVCacheManager has it, rows without a layout; the *)
(* buffers go through the same operations index by index.  Attention reads *)
(* them by the index a row is written with.                                *)
(***************************************************************************)
EXTENDS KVCacheManager

CONSTANTS
  hP, lP,      \* the packing of a matrix multiplication
  HeadDim,     \* mHeadDim
  FlashBlock,  \* MNN_FLASH_ATTENTION_BLOCK_SIZE
  MaxPiece,      \* bound of the model: tokens of one forward
  KeepsTailIn  \* values of mUseFlashAttention with which callers keep a tail

ASSUME LayoutAssumption ==
  /\ hP \in Nat \ {0} /\ lP \in Nat \ {0} /\ HeadDim \in Nat \ {0}
  /\ FlashBlock \in Nat \ {0} /\ FlashBlock % lP = 0
  /\ MaxPiece \in 1 .. MaxLen
  /\ KeepsTailIn \subseteq BOOLEAN
  /\ ~Quantized

VARIABLES
  flash,  \* mUseFlashAttention
  cache,  \* past, max and the rows, as KVCacheManager has them
  keys,   \* mPastKey of a head: the element at every index
  values  \* mPastValue of a head

layoutVars == << flash, cache, keys, values >>

Dims == 0 .. HeadDim - 1

UpDiv(x, y) == (x + y - 1) \div y
RoundUp(x, y) == UpDiv(x, y) * y

(* An element of a buffer: dimension dim of the row of a token.            *)
Element(token, dim) == << token, dim >>
Unset == Element(Blank, 0)

(* mFlashAttentionUpperKv, the rows of a block of values.                  *)
UpperKv(max) == IF flash THEN FlashBlock ELSE max

-----------------------------------------------------------------------------
(* Sizes and indices.                                                      *)

KeySize(max) == UpDiv(max, hP) * RoundUp(HeadDim, lP) * hP

ValueSize(max) ==
  UpDiv(max, UpperKv(max)) * RoundUp(HeadDim, hP) * RoundUp(UpperKv(max), lP)

(* ProcessKey: groups of hP rows.                                          *)
KeyIndex(seq, dim) ==
  (seq \div hP) * RoundUp(HeadDim, lP) * hP
  + (dim \div lP) * hP * lP + (seq % hP) * lP + (dim % lP)

(* ProcessValue: blocks of UpperKv rows, in each groups of hP dimensions.  *)
ValueIndex(max, seq, dim) ==
  LET group == UpDiv(UpperKv(max), lP) * lP * hP
      inner == seq % UpperKv(max)
  IN (seq \div UpperKv(max)) * group * UpDiv(HeadDim, hP)
     + (dim \div hP) * group + (inner \div lP) * lP * hP
     + (dim % hP) * lP + (inner % lP)

(* keyIndex(), used by moveKV alone, and its mutant without the padding of *)
(* the dimensions.                                                         *)
MovedKeyIndexUnpadded(seq, dim) ==
  (seq \div hP) * HeadDim * hP
  + (dim \div lP) * hP * lP + (seq % hP) * lP + (dim % lP)

MovedKeyIndex(seq, dim) ==
  (seq \div hP) * RoundUp(HeadDim, lP) * hP
  + (dim \div lP) * hP * lP + (seq % hP) * lP + (dim % lP)

(* valueIndex(), used by moveKV alone: one block of mMaxLength rows.       *)
MovedValueIndex(max, seq, dim) ==
  (dim \div hP) * RoundUp(max, lP) * hP
  + (seq \div lP) * hP * lP + (dim % hP) * lP + (seq % lP)

-----------------------------------------------------------------------------
(* What the operations of KVCacheManager do to a buffer.                   *)

Buffer(size) == [ i \in 0 .. size - 1 |-> Unset ]

(* ProcessKey, ProcessValue: store the rows of toks behind past.           *)
Store(buffer, Index(_, _), past, toks) ==
  [ i \in DOMAIN buffer |->
      IF \E n \in 1 .. Len(toks), dim \in Dims : Index(past + n - 1, dim) = i
      THEN LET w == CHOOSE w \in (1 .. Len(toks)) \X Dims :
                      Index(past + w[1] - 1, w[2]) = i
           IN Element(toks[w[1]], w[2])
      ELSE buffer[i] ]

(* moveKV: element after element, in ascending rows.  dst is below src, so *)
(* an element is read before it is overwritten.                            *)
Move(buffer, Index(_, _), src, dst, size) ==
  [ i \in DOMAIN buffer |->
      IF \E n \in 0 .. size - 1, dim \in Dims : Index(dst + n, dim) = i
      THEN LET w == CHOOSE w \in (0 .. size - 1) \X Dims : Index(dst + w[1], w[2]) = i
           IN buffer[Index(src + w[1], w[2])]
      ELSE buffer[i] ]

(* expandKVCacheInMem: the old buffer is the beginning of the new one,     *)
(* except for values in one block, copied group by group.                  *)
ExpandPrefix(buffer, size) ==
  [ i \in 0 .. size - 1 |-> IF i \in DOMAIN buffer THEN buffer[i] ELSE Unset ]

(* Mutant: values are always copied as a whole.                            *)
ExpandValuesFlat(old, new) == ExpandPrefix(values, ValueSize(new))

ExpandValues(old, new) ==
  IF flash THEN ExpandPrefix(values, ValueSize(new))
  ELSE LET inner == RoundUp(old, lP) * hP
           outer == RoundUp(new, lP) * hP
       IN [ i \in 0 .. ValueSize(new) - 1 |->
              IF i % outer < inner
              THEN values[(i \div outer) * inner + (i % outer)]
              ELSE Unset ]

-----------------------------------------------------------------------------
LayoutInit ==
  /\ flash \in BOOLEAN
  /\ cache = EmptyCache
  /\ keys = Buffer(0)
  /\ values = Buffer(0)

(* A forward for which nothing of the history is kept: onClear, onAlloc,   *)
(* onUpdateKV.                                                             *)
Rebuild(toks) ==
  LET seqLen == Len(toks)
      max == OnAlloc(EmptyCache, seqLen).max
  IN /\ cache' = OnUpdateKV(OnAlloc(OnClear(cache), seqLen), toks)
     /\ keys' = Store(Buffer(KeySize(max)), KeyIndex, 0, toks)
     /\ values' = Store(Buffer(ValueSize(max)),
                        LAMBDA seq, dim : ValueIndex(max, seq, dim), 0, toks)
     /\ UNCHANGED flash

(* A forward that keeps rows: onRealloc (grow, then move a kept tail down) *)
(* and onUpdateKV.                                                         *)
Extend(m, toks) ==
  LET moved == OnRealloc(cache, m)
      max == moved.max
      start == cache.past - m.remove
      grownKeys == IF max = cache.max THEN keys ELSE ExpandPrefix(keys, KeySize(max))
      grownValues == IF max = cache.max THEN values ELSE ExpandValues(cache.max, max)
      movedIndex(seq, dim) == MovedValueIndex(max, seq, dim)
      index(seq, dim) == ValueIndex(max, seq, dim)
  IN /\ m.previous # m.remove
     /\ cache' = OnUpdateKV(moved, toks)
     /\ keys' = Store(Move(grownKeys, MovedKeyIndex, start + m.begin, start, m.size),
                      KeyIndex, moved.past, toks)
     /\ values' = Store(Move(grownValues, movedIndex, start + m.begin, start, m.size),
                        index, moved.past, toks)
     /\ UNCHANGED flash

(* The plans eraseHistory can leave for a history of that many rows.       *)
Plans(previous, add) ==
  LET plain == [ EmptyMeta EXCEPT !.previous = previous, !.add = add ]
      ends == IF flash \in KeepsTailIn THEN 2 .. previous ELSE {previous}
  IN {plain} \cup { EraseRange(plain, range[1], range[2]) :
                      range \in { r \in (1 .. previous) \X ends : r[1] < r[2] } }

Pieces == UNION { [1 .. n -> Token] : n \in 1 .. MaxPiece }

LayoutNext ==
  \E toks \in Pieces :
    \/ Rebuild(toks)
    \/ \E m \in Plans(cache.past, Len(toks)) :
         /\ Effective(m) + Len(toks) <= MaxLen
         /\ Extend(m, toks)

LayoutSpec == LayoutInit /\ [][LayoutNext]_layoutVars

-----------------------------------------------------------------------------
(* Properties.                                                             *)

(* Every key a query is multiplied with is that of the row at its          *)
(* position: erases, moves of a kept tail and growth, whose indices are    *)
(* computed apart, agree on the layout.                                    *)
KeysMatch ==
  \A p \in 0 .. cache.past - 1, dim \in Dims :
    keys[KeyIndex(p, dim)] = Element(cache.cells[p], dim)

(* The same for the values, whose layout depends on the length of the      *)
(* buffer or, with flash attention, on the block.  ("n_reserve > 0 is not  *)
(* currently supported when K or V is quantized": without quantisation it  *)
(* is.)                                                                    *)
ValuesMatch ==
  \A p \in 0 .. cache.past - 1, dim \in Dims :
    values[ValueIndex(cache.max, p, dim)] = Element(cache.cells[p], dim)
=============================================================================
