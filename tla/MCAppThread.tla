---------------------------- MODULE MCAppThread ----------------------------
(***************************************************************************)
(* Messages of one to three units, the buffer of the application thread    *)
(* initially too small for the largest; a queue holds two large messages.  *)
(***************************************************************************)
EXTENDS AppThread
=============================================================================
