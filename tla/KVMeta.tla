------------------------------- MODULE KVMeta -------------------------------
(***************************************************************************)
(* The message the Llm leaves for every attention layer before a forward:  *)
(* struct KVMeta of source/core/KVMeta.hpp.                                *)
(*                                                                         *)
(* A record with the fields previous, remove, add and the reserve list.    *)
(* eraseHistory, the only producer of reserve in Llm itself, writes at     *)
(* most one span, so the list is the pair (begin, size) and nReserve is 0  *)
(* or 1.  begin counts from the first removed row.                         *)
(***************************************************************************)
EXTENDS Integers

Meta == [ previous : Nat, remove : Nat, add : Nat,
          nReserve : {0, 1}, begin : Nat, size : Nat ]

EmptyMeta == [ previous |-> 0, remove |-> 0, add |-> 0,
               nReserve |-> 0, begin |-> 0, size |-> 0 ]

(* computeReverseSize(): rows kept out of the removed range, -1 when a     *)
(* span is empty.                                                          *)
ReverseSize(m) ==
  CASE m.nReserve = 0 -> 0
    [] m.nReserve # 0 /\ m.size > 0 -> m.size
    [] OTHER -> -1

(* sync(): the forward has run, its plan becomes the new history.          *)
Sync(m) ==
  [ m EXCEPT !.previous = m.previous - m.remove + m.add
                            + (IF m.nReserve = 0 THEN 0 ELSE m.size),
             !.remove = 0, !.add = 0,
             !.nReserve = 0, !.begin = 0, !.size = 0 ]

(* Rows the next forward starts from when the plan of m is carried out.    *)
Effective(m) == m.previous - m.remove + ReverseSize(m)

(* The plan "drop everything".                                             *)
RemoveAll(m) == [ m EXCEPT !.remove = m.previous ]

(* Mutant of EraseRange: begin is counted in what the pending removal      *)
(* leaves.                                                                 *)
EraseRangeStacked(m, begin, end) ==
  IF end = m.previous
  THEN [ m EXCEPT !.remove = m.previous - begin + m.remove ]
  ELSE [ m EXCEPT !.remove = m.previous - begin,
                  !.nReserve = 1,
                  !.begin = end - begin,
                  !.size = m.previous - end ]

(* The plan of eraseHistory(begin, end), end already resolved.  The        *)
(* reserve list is only written when a tail is kept.                       *)
EraseRange(m, begin, end) ==
  IF end = m.previous
  THEN [ m EXCEPT !.remove = m.previous - begin ]
  ELSE [ m EXCEPT !.remove = m.previous - begin,
                  !.nReserve = 1,
                  !.begin = end - begin,
                  !.size = m.previous - end ]
=============================================================================
