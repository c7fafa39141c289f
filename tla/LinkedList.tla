----------------------------- MODULE LinkedList -----------------------------
(***************************************************************************)
(* linked_list_t: a fixed array of nodes threaded into max_list_ + 1       *)
(* doubly linked lists by the index fields of the nodes.  All nodes start  *)
(* in list 0, the free list.                                               *)
(***************************************************************************)
EXTENDS Integers, Sequences, FiniteSets

CONSTANTS N,            \* list_length_
          MaxList       \* max_list_

ASSUME LLAssumption == N \in Nat \ {0} /\ MaxList \in Nat

Idx  == 0 .. N - 1
Lids == 0 .. MaxList
Nil  == -1

VARIABLES lid, prev, next,      \* nodes_
          head, tail, num       \* lflag_

vars == <<lid, prev, next, head, tail, num>>

\* if (is_valid_index(i)) f[i] = v
Put(f, i, v) == IF i \in Idx THEN [f EXCEPT ![i] = v] ELSE f

Init ==
    /\ lid = [i \in Idx |-> 0]
    /\ prev = [i \in Idx |-> i - 1]
    /\ next = [i \in Idx |-> IF i = N - 1 THEN Nil ELSE i + 1]
    /\ head = [l \in Lids |-> IF l = 0 THEN 0 ELSE Nil]
    /\ tail = [l \in Lids |-> IF l = 0 THEN N - 1 ELSE Nil]
    /\ num  = [l \in Lids |-> IF l = 0 THEN N ELSE 0]

\* move(src, dst), and with it append() and remove(); src may be dst.
Move(src, dst) ==
    LET m == head[src]
        after == IF src = dst /\ next[m] = Nil THEN Nil ELSE tail[dst]
        First(f) == [f EXCEPT ![src] = next[m]]
        Last(f)  == [f EXCEPT ![src] = IF next[m] = Nil THEN Nil ELSE @]
        Fewer(f) == [f EXCEPT ![src] = IF next[m] = Nil THEN 0 ELSE @ - 1]
    IN  /\ m \in Idx
        /\ lid' = [lid EXCEPT ![m] = dst]
        /\ prev' = Put(Put(prev, next[m], Nil), m, after)
        /\ next' = Put(Put(next, after, m), m, Nil)
        /\ head' = [First(head) EXCEPT ![dst] = IF after = Nil THEN m ELSE @]
        /\ tail' = [Last(tail) EXCEPT ![dst] = m]
        /\ num' = [Fewer(num) EXCEPT ![dst] = @ + 1]

\* A swap() without the case of two neighbours.
SwapNotAdjacent(left, right) ==
    LET lp == prev[left]  ln == next[left]
        rp == prev[right] rn == next[right]
        Other(i) == IF i = left THEN right ELSE IF i = right THEN left ELSE i
    IN  /\ left # right /\ lid[left] = lid[right]
        /\ next' = Put(Put(Put(Put(next, lp, right), rp, left), left, rn), right, ln)
        /\ prev' = Put(Put(Put(Put(prev, ln, right), rn, left), left, rp), right, lp)
        /\ head' = [head EXCEPT ![lid[left]] = Other(@)]
        /\ tail' = [tail EXCEPT ![lid[left]] = Other(@)]
        /\ UNCHANGED <<lid, num>>

\* swap(left, right); equal indices change nothing, different lists are refused.
Swap(left, right) ==
    LET lp == prev[left]  ln == next[left]
        rp == prev[right] rn == next[right]
        Other(i) == IF i = left THEN right ELSE IF i = right THEN left ELSE i
    IN  /\ left # right /\ lid[left] = lid[right]
        /\ next' = Put(Put(Put(Put(next, lp, right), rp, left),
                           left, IF left = rn THEN right ELSE rn),
                       right, IF right = ln THEN left ELSE ln)
        /\ prev' = Put(Put(Put(Put(prev, ln, right), rn, left),
                           left, IF left = rp THEN right ELSE rp),
                       right, IF right = lp THEN left ELSE lp)
        /\ head' = [head EXCEPT ![lid[left]] = Other(@)]
        /\ tail' = [tail EXCEPT ![lid[left]] = Other(@)]
        /\ UNCHANGED <<lid, num>>

\* move_after(src, dst); nothing to do if src is there already.
MoveAfter(src, dst) ==
    LET sp == prev[src]  sn == next[src]
    IN  /\ src # dst /\ lid[src] = lid[dst] /\ sp # dst
        /\ next' = Put(Put(Put(next, sp, sn), src, next[dst]), dst, src)
        /\ prev' = Put(Put(prev, sn, sp), src, dst)
        /\ head' = [head EXCEPT ![lid[src]] = IF @ = src THEN sn ELSE @]
        /\ tail' = [tail EXCEPT ![lid[src]] = IF @ = src THEN sp
                                              ELSE IF @ = dst THEN src ELSE @]
        /\ UNCHANGED <<lid, num>>

\* A move_before() that forgets that src may be the tail.
MoveBeforeKeepsTail(src, dst) ==
    LET sp == prev[src]  sn == next[src]
    IN  /\ src # dst /\ lid[src] = lid[dst] /\ sn # dst
        /\ next' = Put(Put(next, sp, sn), src, dst)
        /\ prev' = Put(Put(Put(prev, sn, sp), src, prev[dst]), dst, src)
        /\ head' = [head EXCEPT ![lid[src]] = IF @ = src THEN sn
                                              ELSE IF @ = dst THEN src ELSE @]
        /\ UNCHANGED <<lid, num, tail>>

\* move_before(src, dst)
MoveBefore(src, dst) ==
    LET sp == prev[src]  sn == next[src]
    IN  /\ src # dst /\ lid[src] = lid[dst] /\ sn # dst
        /\ next' = Put(Put(next, sp, sn), src, dst)
        /\ prev' = Put(Put(Put(prev, sn, sp), src, prev[dst]), dst, src)
        /\ head' = [head EXCEPT ![lid[src]] = IF @ = src THEN sn
                                              ELSE IF @ = dst THEN src ELSE @]
        /\ tail' = [tail EXCEPT ![lid[src]] = IF @ = src THEN sp ELSE @]
        /\ UNCHANGED <<lid, num>>

-----------------------------------------------------------------------------
\* calypso_network_t moves nodes to the head or the tail of a list only.
Next == \/ \E src, dst \in Lids : Move(src, dst)
        \/ \E i, j \in Idx : Swap(i, j)
        \/ \E i \in Idx : MoveAfter(i, tail[lid[i]]) \/ MoveBefore(i, head[lid[i]])

Spec == Init /\ [][Next]_vars

-----------------------------------------------------------------------------
(* Properties *)

\* Every field stays an index of the array or -1.
TypeOK ==
    /\ lid \in [Idx -> Lids]
    /\ prev \in [Idx -> Idx \cup {Nil}] /\ next \in [Idx -> Idx \cup {Nil}]
    /\ head \in [Lids -> Idx \cup {Nil}] /\ tail \in [Lids -> Idx \cup {Nil}]
    /\ num \in [Lids -> Nat]

\* The nodes met from i on along next_ (or prev_), at most n of them.
Along(link) ==
    LET f[n \in 0 .. N + 1] ==
            [i \in Idx \cup {Nil} |-> IF n = 0 \/ i = Nil THEN <<>>
                                     ELSE <<i>> \o f[n - 1][link[i]]]
    IN  f
Forward(l)  == Along(next)[N + 1][head[l]]
Backward(l) == Along(prev)[N + 1][tail[l]]

\* The nodes of s point to their neighbours in s, those at its ends to none.
Chained(s, p, n) == \A k \in 1 .. Len(s) :
    /\ p[s[k]] = IF k = 1 THEN Nil ELSE s[k - 1]
    /\ n[s[k]] = IF k = Len(s) THEN Nil ELSE s[k + 1]

FirstOf(s) == IF s = <<>> THEN Nil ELSE s[1]
LastOf(s)  == IF s = <<>> THEN Nil ELSE s[Len(s)]

\* Every link of a list agrees with the walk, and lflag_ with its two ends.
Threaded == \A l \in Lids :
    LET s == Forward(l)
    IN  Chained(s, prev, next) /\ head[l] = FirstOf(s) /\ tail[l] = LastOf(s)

\* Walking a list from its head meets every node that says it is in it, each
\* once, and get_num() says how many.
NothingLost == \A l \in Lids :
    /\ Len(Forward(l)) = Cardinality({i \in Idx : lid[i] = l})
    /\ {Forward(l)[k] : k \in 1 .. Len(Forward(l))} = {i \in Idx : lid[i] = l}
    /\ num[l] = Len(Forward(l))

\* get_prev() walks the same list from the tail.
PrevReversesNext == \A l \in Lids :
    LET s == Forward(l)
    IN  Backward(l) = [k \in 1 .. Len(s) |-> s[Len(s) + 1 - k]]

\* After any sequence of moves the array is sound lists in both directions.
ListInv == TypeOK /\ NothingLost /\ PrevReversesNext /\ Threaded

\* The pointers implement the lists that calypso_network_t thinks in.
Abs == INSTANCE Lists WITH lists <- [l \in Lids |-> Forward(l)]
ImplementsLists == Abs!Spec
=============================================================================
