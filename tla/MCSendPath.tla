----------------------------- MODULE MCSendPath -----------------------------
(***************************************************************************)
(* Messages shorter and longer than what the kernel takes at once and than *)
(* the buffer, so that each is cut at every place, by the kernel, by the   *)
(* buffer and by a failed realloc().                                       *)
(***************************************************************************)
EXTENDS SendPath
=============================================================================
