--------------------------- MODULE MCTimerEngine ---------------------------
(***************************************************************************)
(* Two ticks to the second, so that timers of one second and of two are    *)
(* compared; a clock that goes from one second into the next, and timers   *)
(* up to a tick ahead of it.  Five nodes make a tree with an inner node of *)
(* two inner children, and removals that borrow on either side.  Timers    *)
(* three ticks apart are too far apart for the int; one interval is 0.     *)
(***************************************************************************)
EXTENDS TimerEngine
=============================================================================
