----------------------------- MODULE TimerKeys -----------------------------
(***************************************************************************)
(* The order of timers (_time_cmp, src/timer_engine.h), and the times they *)
(* are set to: what TimerEngine and Timers have in common.                 *)
(*                                                                         *)
(* A time is a number of ticks, PerSecond of them to the second: tv_sec is *)
(* its quotient and tv_usec its remainder.                                 *)
(***************************************************************************)
EXTENDS Integers

CONSTANTS PerSecond,    \* ticks of a second
          IntMax,       \* the greatest int, in ticks
          Intervals,    \* interval_ of permanent timers, in ticks; it may be 0
          MaxTime,      \* bound: the clock stops there
          MaxAhead,     \* bound: how far ahead a timer is set
          MaxAgain      \* bound: calls of a walk that an interval of 0 brings

ASSUME TimeAssumption == /\ PerSecond \in Nat \ {0}
                         /\ Intervals \subseteq Nat
                         /\ {IntMax, MaxTime, MaxAhead, MaxAgain} \subseteq Nat

Once == -1  \* the interval of a timer that is not permanent

Sec(d) == d \div PerSecond
Usec(d) == d % PerSecond

\* The conversion of a long to int.
ToInt(d) == ((d + IntMax + 1) % (2 * (IntMax + 1))) - (IntMax + 1)

TimeCmpReversed(l, r) ==
    IF l.deadline = r.deadline THEN l.idx - r.idx
    ELSE ToInt(PerSecond * (Sec(r.deadline) - Sec(l.deadline)) - (Usec(r.deadline) - Usec(l.deadline)))

\* _time_cmp: within a second, the later time of day is the lesser key.
TimeCmp(l, r) ==
    IF l.deadline = r.deadline THEN l.idx - r.idx
    ELSE ToInt(PerSecond * (Sec(l.deadline) - Sec(r.deadline)) - (Usec(l.deadline) - Usec(r.deadline)))

\* _time_cmp returns an int, microseconds of 35 minutes at most: what it says of
\* timers that are further apart is not their order.
Near(l, r) == /\ l.deadline - r.deadline + 2 * PerSecond <= IntMax
              /\ r.deadline - l.deadline + 2 * PerSecond <= IntMax

NoKey == [deadline |-> -1, idx |-> -1, interval |-> Once]
=============================================================================
