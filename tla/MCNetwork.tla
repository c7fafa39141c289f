----------------------------- MODULE MCNetwork -----------------------------
(***************************************************************************)
(* Progress, with three links and two descriptors: one listening or        *)
(* connecting link, two connections it accepts, and walks that cover the   *)
(* longest error list.  The safety properties of Network are checked with  *)
(* Calypso on top of it.                                                   *)
(***************************************************************************)
EXTENDS Network
=============================================================================
