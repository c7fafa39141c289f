------------------------------- MODULE Timers -------------------------------
(***************************************************************************)
(* What timer_engine_t promises: a set of timers, of which walk() calls    *)
(* the least in the order of _time_cmp for as long as that one is due.  A  *)
(* timer that has been called is gone, or set anew if it is permanent.     *)
(* How the set is kept, and that taking the least of it ever fails, is not *)
(* its business: TimerEngine has the tree.                                 *)
(***************************************************************************)
EXTENDS TimerKeys, FiniteSets

CONSTANTS MaxTimers,    \* init(capacity)
          MaxAdds,      \* bound: timers added by the user of the engine
          MaxPerms      \* bound: permanent timers among them

VARIABLES timers,   \* the timers that are set
          idx,      \* global_idx_
          clock,    \* what gettimeofday() says
          pc,       \* idle, or where walk() is: at the top of its loop, or after the callback
          nowtime,  \* walk(): nowtime
          cur,      \* walk(): the timer that is called
          quota,    \* ghost: timers of the start of the walk and added since, less those called
          adds,     \* ghost: timers added by the user
          perms     \* ghost: permanent timers among them

timerVars == <<timers, idx, clock, pc, nowtime, cur, quota, adds, perms>>

TimersInit ==
    /\ timers = {}
    /\ idx = 0 /\ clock = 0
    /\ pc = "idle" /\ nowtime = 0 /\ cur = NoKey
    /\ quota = 0 /\ adds = 0 /\ perms = 0

TimerOf(deadline, interval) == [deadline |-> deadline, idx |-> idx, interval |-> interval]

\* One more timer among those in ts.
Put(ts, timer) ==
    /\ Cardinality(ts) < MaxTimers
    /\ timers' = ts \cup {timer}
    /\ idx' = idx + 1

UserPuts(timer) ==
    /\ adds < MaxAdds
    /\ Put(timers, timer)
    /\ adds' = adds + 1
    /\ perms' = IF timer.interval # Once THEN perms + 1 ELSE perms
    /\ perms' <= MaxPerms

UserTimers == {TimerOf(deadline, interval) :
                 deadline \in clock .. clock + MaxAhead, interval \in Intervals \cup {Once}}

AddOne(timer) ==
    /\ pc = "idle"
    /\ UserPuts(timer)
    /\ UNCHANGED <<clock, pc, nowtime, cur, quota>>

TimePasses ==
    /\ clock < MaxTime
    /\ clock' = clock + 1
    /\ UNCHANGED <<timers, idx, pc, nowtime, cur, quota, adds, perms>>

StartWalk ==
    /\ pc = "idle"
    /\ pc' = "top" /\ nowtime' = clock
    /\ quota' = Cardinality(timers)
    /\ UNCHANGED <<timers, idx, clock, cur, adds, perms>>

\* The timer walk() would call: the first, if it is due.
First(timer) == timer \in timers /\ \A u \in timers : TimeCmp(timer, u) <= 0
FirstDue(timer) == First(timer) /\ timer.deadline <= nowtime

EndWalk ==
    /\ pc = "top" /\ \A timer \in timers : ~FirstDue(timer)
    /\ pc' = "idle" /\ nowtime' = 0 /\ quota' = 0
    /\ UNCHANGED <<timers, idx, clock, cur, adds, perms>>

\* The callback may set a timer.
CallFirst(timer) ==
    /\ pc = "top" /\ FirstDue(timer) /\ quota + MaxAgain >= 0
    /\ cur' = timer
    /\ pc' = "called"
    /\ \/ UNCHANGED <<timers, idx, adds, perms>> /\ quota' = quota - 1
       \/ (\E new \in UserTimers : UserPuts(new)) /\ UNCHANGED quota
    /\ UNCHANGED <<clock, nowtime>>

\* The timer that was called is gone, or set to its interval after the walk began.
Retire ==
    LET rest == timers \ {cur}
    IN  /\ pc = "called"
        /\ pc' = "top"
        /\ IF cur.interval = Once
           THEN timers' = rest /\ UNCHANGED idx
           ELSE Put(rest, TimerOf(nowtime + cur.interval, cur.interval))
        /\ cur' = NoKey
        /\ UNCHANGED <<clock, nowtime, quota, adds, perms>>

TimersNext ==
    \/ \E timer \in UserTimers : AddOne(timer)
    \/ TimePasses
    \/ StartWalk \/ EndWalk
    \/ \E timer \in timers : CallFirst(timer)
    \/ Retire

TimersSpec == TimersInit /\ [][TimersNext]_timerVars
-----------------------------------------------------------------------------
(* Properties *)

Permanent == {t \in timers : t.interval # Once}
Due == {t \in timers : t.deadline <= nowtime}

\* A permanent timer is never lost: walk() takes it out and puts it back.
PermanentKept == Cardinality(Permanent) = perms

\* A walk calls no timer twice, however long its callbacks take, so it ends: a
\* permanent timer comes back with a deadline after the start of the walk, unless
\* its interval is 0, when it is called again and again.
EachOnce == (\A t \in timers : t.interval # 0) => quota >= 0

AllNear == \A t, u \in timers : Near(t, u)

\* walk() ends with timers still due only where they are due in the second it
\* was called in: _time_cmp puts the later timer of a second first, and the
\* walk stops at the first timer that is not due.  This is so of timers that lie
\* near enough to each other for _time_cmp to compare.
LateWithinSecond ==
    pc = "top" /\ AllNear /\ (\A t \in timers : ~FirstDue(t)) =>
        \A t \in Due : Sec(t.deadline) = Sec(nowtime)

\* walk() loses no timer, calls none twice, and leaves none of an earlier second.
TimersKept == PermanentKept /\ EachOnce /\ LateWithinSecond
=============================================================================
