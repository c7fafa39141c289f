---------------------------- MODULE MCAllocator ----------------------------
(***************************************************************************)
(* Four buffers and five blocks in three pools, with headers of one unit:  *)
(* the pool of size 3 is within a header of the one of size 2, so alloc()  *)
(* skips it when that one is exhausted.  Requests reach beyond the largest *)
(* pool.                                                                   *)
(***************************************************************************)
EXTENDS Allocator, TLC

CONSTANTS u1, u2, u3, u4, c1, c2

MCPools == {2, 3, 5}
MCCapacity == (2 :> 2) @@ (3 :> 1) @@ (5 :> 2)
Symmetric == Permutations({u1, u2, u3, u4}) \cup Permutations({c1, c2})
=============================================================================
