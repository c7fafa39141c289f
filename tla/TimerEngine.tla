---------------------------- MODULE TimerEngine ----------------------------
(***************************************************************************)
(* timer_engine_t (src/timer_engine.cpp) over the tree of LLRBTree: timers *)
(* ordered by deadline, and walk(), which calls those that are due.        *)
(*                                                                         *)
(* Time passes between any two steps of a walk, and the callback may       *)
(* itself add a timer.  What becomes of the timers is what Timers says     *)
(* (ImplementsTimers).                                                     *)
(*                                                                         *)
(* The model goes no further (spoilt) once insert() has taken a node that  *)
(* still has children from its last use, or a timer too far from another   *)
(* for _time_cmp to compare: what it makes then is no tree of timers.      *)
(***************************************************************************)
EXTENDS TimerKeys, Sequences, FiniteSets

CONSTANTS Capacity,     \* init(capacity)
          MaxAdds,      \* bound: timers added by the user of the engine
          MaxPerms      \* bound: permanent timers among them

ASSUME EngineAssumption == Capacity \in Nat \ {0} /\ MaxAdds \in Nat /\ MaxPerms \in Nat

VARIABLES tree,     \* timer_tree_; a timer_t, its interval_ (or Once), is kept with its key
          idx,      \* global_idx_
          clock,    \* what gettimeofday() says
          pc,       \* idle, or where walk() is: at the top of its loop, or after the callback
          nowtime,  \* walk(): nowtime
          cur,      \* walk(): the node key points into
          spoilt,   \* ghost: insert() has taken a node with children, or a timer too far off
          early,    \* ghost: the callback added a timer that sorts before key
          quota,    \* ghost: timers of the start of the walk and added since, less those called
          adds,     \* ghost: timers added by the user
          perms     \* ghost: permanent timers among them

vars == <<tree, idx, clock, pc, nowtime, cur, spoilt, early, quota, adds, perms>>

T == INSTANCE LLRBTree WITH Cmp <- TimeCmp

Pending == T!InTree(tree)
Deadline(n) == tree.key[n].deadline

Interval(n) == tree.key[n].interval

Init ==
    /\ tree = T!EmptyTree
    /\ idx = 0 /\ clock = 0
    /\ pc = "idle" /\ nowtime = 0 /\ cur = T!Nil
    /\ spoilt = FALSE /\ early = FALSE /\ quota = 0 /\ adds = 0 /\ perms = 0

\* The timer add_timer() makes next.
NewTimer(deadline, interval) == [deadline |-> deadline, idx |-> idx, interval |-> interval]

Comparable(t, timer) == \A n \in T!InTree(t) : Near(t.key[n], timer)

\* add_timer(), with t for the tree and a node free in it.
AddTimer(t, timer) ==
    /\ T!CanInsert(t)
    /\ tree' = T!Insert(t, timer)
    /\ spoilt' = ~ (T!Clean(t, Head(t.pool[T!Free])) /\ Comparable(t, timer))
    /\ idx' = idx + 1

\* A timer of the user: one of now or of later, permanent or not.
UserAdds(timer) ==
    /\ adds < MaxAdds
    /\ AddTimer(tree, timer)
    /\ adds' = adds + 1
    /\ perms' = IF timer.interval # Once THEN perms + 1 ELSE perms
    /\ perms' <= MaxPerms

NewTimers == {NewTimer(deadline, interval) :
                deadline \in clock .. clock + MaxAhead, interval \in Intervals \cup {Once}}

Add(timer) ==
    /\ pc = "idle"
    /\ UserAdds(timer)
    /\ UNCHANGED <<clock, pc, nowtime, cur, early, quota>>

Tick ==
    /\ clock < MaxTime
    /\ clock' = clock + 1
    /\ UNCHANGED <<tree, idx, pc, nowtime, cur, spoilt, early, quota, adds, perms>>

WalkStart ==
    /\ pc = "idle"
    /\ pc' = "top" /\ nowtime' = clock
    /\ quota' = Cardinality(Pending)
    /\ UNCHANGED <<tree, idx, clock, cur, spoilt, early, adds, perms>>

MinDue == tree.root # T!Nil /\ Deadline(T!Min(tree, tree.root)) <= nowtime

WalkEnd ==
    /\ pc = "top" /\ ~MinDue
    /\ pc' = "idle" /\ nowtime' = 0 /\ quota' = 0
    /\ UNCHANGED <<tree, idx, clock, cur, spoilt, early, adds, perms>>

\* callback(val.user_), which may add a timer.
WalkCall ==
    /\ pc = "top" /\ MinDue /\ quota + MaxAgain >= 0
    /\ cur' = T!Min(tree, tree.root)
    /\ pc' = "called"
    /\ \/ UNCHANGED <<tree, idx, spoilt, adds, perms, early>> /\ quota' = quota - 1
       \/ \E timer \in NewTimers :
            /\ UserAdds(timer)
            /\ early' = (TimeCmp(timer, tree.key[cur']) < 0)
            /\ UNCHANGED quota
    /\ UNCHANGED <<clock, nowtime>>

WalkRemovesMin ==
    LET removed == T!Remove(tree, tree.key[T!Min(tree, tree.root)])
    IN  /\ pc = "called"
        /\ pc' = "top"
        /\ IF Interval(cur) = Once
           THEN tree' = removed /\ UNCHANGED <<idx, spoilt>>
           ELSE AddTimer(removed, NewTimer(nowtime + Interval(cur), Interval(cur)))
        /\ cur' = T!Nil /\ early' = FALSE
        /\ UNCHANGED <<clock, nowtime, quota, adds, perms>>

\* remove(*key), and a permanent timer put back with its next deadline.
WalkRemove ==
    LET removed == T!Remove(tree, tree.key[cur])
    IN  /\ pc = "called"
        /\ pc' = "top"
        /\ IF Interval(cur) = Once
           THEN tree' = removed /\ UNCHANGED <<idx, spoilt>>
           ELSE AddTimer(removed, NewTimer(nowtime + Interval(cur), Interval(cur)))
        /\ cur' = T!Nil /\ early' = FALSE
        /\ UNCHANGED <<clock, nowtime, quota, adds, perms>>

Next ==
    /\ ~spoilt
    /\ \/ \E timer \in NewTimers : Add(timer)
       \/ Tick
       \/ WalkStart \/ WalkEnd
       \/ WalkCall \/ WalkRemove

Spec == Init /\ [][Next]_vars
-----------------------------------------------------------------------------
(* Properties *)

\* The pointers name nodes, and every other variable stays within its type.
TypeOK ==
    /\ tree.root \in T!Ptr /\ cur \in T!Ptr /\ tree.left \in [T!Ptr -> T!Ptr] /\ tree.right \in [T!Ptr -> T!Ptr]
    /\ pc \in {"idle", "top", "called"}
    /\ clock \in 0 .. MaxTime /\ nowtime \in 0 .. MaxTime
    /\ {spoilt, early} \subseteq BOOLEAN
    /\ idx \in Nat /\ quota \in Int /\ adds \in 0 .. MaxAdds /\ perms \in 0 .. adds

\* The tree of rbtree.h stays one through every insertion and every removal of
\* a timer: a search tree for _time_cmp, balanced, with true sizes; no rotation
\* fails, and the nodes in use are those of the tree.
TreeSound == T!Sound(tree) /\ Pending = T!Members(tree.pool[T!Used])

\* remove() of any key, not only of the least as walk() does: a sound tree of
\* the other keys.  (The inner nodes it frees are the ones that keep children.)
RemoveAnyRight ==
    pc = "idle" => LET nodes == Pending IN \A n \in nodes :
        LET s == T!Remove(tree, tree.key[n])
        IN  T!Sound(s) /\ T!InTree(s) = nodes \ {n} /\ T!Members(s.pool[T!Used]) = nodes \ {n}

\* The tree survives the insertions and removals the engine makes, and those of
\* any inner node.
TreeInv == TypeOK /\ (~spoilt => TreeSound /\ RemoveAnyRight)

Below(k, n) == TimeCmp(tree.key[n], k) <= 0
Above(k, n) == TimeCmp(tree.key[n], k) >= 0

\* The searches, for keys that are there and keys that are not, give what a
\* search through all the nodes would: the key's node, the least not below it
\* (what dynamic_allocator_t looks its pools up with), the greatest not above.
LookupsRight ==
    pc = "idle" /\ ~spoilt => LET nodes == Pending IN
      \A deadline \in 0 .. MaxTime + MaxAhead, i \in {0, idx} :
        LET k == [deadline |-> deadline, idx |-> i, interval |-> Once]
            above == {n \in nodes : Above(k, n)}
            below == {n \in nodes : Below(k, n)}
        IN  /\ T!GetByKey(tree, tree.root, k) = T!Nil <=> above \cap below = {}
            /\ above \cap below \subseteq {T!GetByKey(tree, tree.root, k)}
            /\ LET c == T!GetCeiling(tree, tree.root, k)
               IN  IF above = {} THEN c = T!Nil
                   ELSE c \in above /\ \A n \in above : Below(tree.key[n], c)
            /\ LET f == T!GetFloor(tree, tree.root, k)
               IN  IF below = {} THEN f = T!Nil
                   ELSE f \in below /\ \A n \in below : Above(tree.key[n], f)

\* A node goes back to the pool with children only if the callback of its own
\* timer has added one that sorts before it (one that is due sooner, or, by
\* _time_cmp, later within the same second).  Only that ends the tree.
CleanUnlessEarlier ==
    pc = "called" /\ ~early /\ ~spoilt => T!Clean(T!Remove(tree, tree.key[cur]), cur)

TS == INSTANCE Timers WITH
        MaxTimers <- Capacity,
        timers <- {tree.key[n] : n \in Pending},
        cur <- IF cur = T!Nil THEN NoKey ELSE tree.key[cur]

\* Through all that the tree goes through, and whatever node the key of walk()
\* points into, the engine does what Timers says until it is spoilt: every
\* timer is kept, and the one that is called is the one that is removed.
ImplementsTimers == TS!TimersInit /\ [][spoilt' \/ TS!TimersNext]_(TS!timerVars)

\* No timer is lost by walk(), none is called twice, and those left due are of
\* the second of the walk: what Timers says of its timers (TimersKept there), said
\* of those in the tree.
TimersKept == ~spoilt => TS!TimersKept
=============================================================================
