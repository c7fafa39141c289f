----------------------------- MODULE MCCalypso -----------------------------
(***************************************************************************)
(* Three links, two descriptors, two events in a batch.  A listening link, *)
(* a connection it accepts and a link that fails compete for descriptors,  *)
(* so that one is closed and given out again within a batch; an accepted   *)
(* connection can end and its slot and descriptor come back, both, while   *)
(* the application still holds its context.  The context followed is one   *)
(* of link 0: links differ in nothing, and every one comes into every role *)
(* and every place of the free list.                                       *)
(***************************************************************************)
EXTENDS Calypso
=============================================================================
