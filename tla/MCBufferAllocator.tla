------------------------- MODULE MCBufferAllocator -------------------------
(***************************************************************************)
(* Small instances of BufferAllocator: one size below the alignment and    *)
(* one above it; the blocks of the mapped weights hold one of each.        *)
(***************************************************************************)
EXTENDS BufferAllocator

MCSizes == {1, 3}
=============================================================================
