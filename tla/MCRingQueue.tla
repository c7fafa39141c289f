---------------------------- MODULE MCRingQueue ----------------------------
(***************************************************************************)
(* A ring of a few bytes with 2-byte headers.  BufferLen is chosen prime   *)
(* to every message size used, so that headers and payloads are cut by the *)
(* end of the buffer at every offset; two messages fit, the third does not.*)
(***************************************************************************)
EXTENDS RingQueue
=============================================================================
