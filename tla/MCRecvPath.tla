----------------------------- MODULE MCRecvPath -----------------------------
(***************************************************************************)
(* Messages that fit in the buffer and that do not, so that the buffer     *)
(* grows by doubling and by Expand, and holds none, part of one, one, and  *)
(* more than one message when the connection ends.                         *)
(***************************************************************************)
EXTENDS RecvPath
=============================================================================
