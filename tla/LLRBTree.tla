------------------------------ MODULE LLRBTree ------------------------------
(***************************************************************************)
(* llrbtree_t (src/rbtree.h): a left-leaning red-black tree over a fixed   *)
(* pool of nodes.  The functions of the code take a subtree's root and     *)
(* return the new one; here they take and return the whole tree t, whose   *)
(* field "at" is that root.  crashed stands for the NULL a rotation        *)
(* returns "on error", which every caller dereferences.                    *)
(*                                                                         *)
(* pool[0] and pool[1] are the lists lfree and lused of nodes_.  A node    *)
(* that goes back to the pool keeps its children, and insert() does not    *)
(* reset them.                                                             *)
(***************************************************************************)
EXTENDS ListOps, FiniteSets

CONSTANTS Capacity,     \* nodes_: capacity of the tree, not 0
          Cmp(_, _),    \* _CMP: the order of the keys
          NoKey         \* content of a key that was never written

Node == 0 .. Capacity - 1
Nil == -1
Ptr == Node \cup {Nil}

Free == 0
Used == 1

Red(t, n) == n # Nil /\ t.red[n]
Size(t, n) == IF n = Nil THEN 0 ELSE t.size[n]
UpdateSize(t, n) == [t EXCEPT !.size[n] = 1 + Size(t, t.left[n]) + Size(t, t.right[n])]

At(t, n) == [t EXCEPT !.at = n]
Crash(t) == [t EXCEPT !.crashed = TRUE]

FlipColor(t) ==
    LET flipped == {t.at, t.left[t.at], t.right[t.at]}
    IN  [t EXCEPT !.red = [n \in Ptr |-> IF n \in flipped /\ n # Nil THEN ~t.red[n] ELSE t.red[n]]]

RotateLeftKeepsColors(t) ==
    LET r == t.at
        c == t.right[r]
    IN  IF ~Red(t, c) THEN Crash(t)
        ELSE UpdateSize([t EXCEPT !.right[r] = t.left[c], !.left[c] = r,
                                  !.size[c] = t.size[r], !.at = c], r)

RotateLeft(t) ==
    LET r == t.at
        c == t.right[r]
    IN  IF ~Red(t, c) THEN Crash(t)
        ELSE UpdateSize([t EXCEPT !.right[r] = t.left[c], !.left[c] = r,
                                  !.red[c] = t.red[r], !.red[r] = TRUE,
                                  !.size[c] = t.size[r], !.at = c], r)

RotateRight(t) ==
    LET r == t.at
        c == t.left[r]
    IN  IF ~Red(t, c) THEN Crash(t)
        ELSE UpdateSize([t EXCEPT !.left[r] = t.right[c], !.right[c] = r,
                                  !.red[c] = t.red[r], !.red[r] = TRUE,
                                  !.size[c] = t.size[r], !.at = c], r)

RedLeftLeft(t, n) == Red(t, t.left[n]) /\ Red(t, t.left[t.left[n]])

\* The rest of insert() and balance(), after the test for a right-leaning link.
SplitFourNode(t) ==
    LET u == IF RedLeftLeft(t, t.at) THEN RotateRight(t) ELSE t
        v == IF Red(u, u.left[u.at]) /\ Red(u, u.right[u.at]) THEN FlipColor(u) ELSE u
    IN  UpdateSize(v, v.at)

Balance(t) == SplitFourNode(IF Red(t, t.right[t.at]) THEN RotateLeft(t) ELSE t)

MoveRedLeft(t) ==
    LET r == t.at
        f == FlipColor(t)
        g == RotateRight(At(f, f.right[r]))
        h == RotateLeft(At([g EXCEPT !.right[r] = g.at], r))
    IN  IF ~Red(t, r) \/ Red(t, t.left[r]) \/ Red(t, t.left[t.left[r]]) THEN Crash(t)
        ELSE IF Red(f, f.left[f.right[r]]) THEN FlipColor(h) ELSE f

MoveRedRight(t) ==
    LET r == t.at
        f == FlipColor(t)
    IN  IF ~Red(t, r) \/ Red(t, t.right[r]) \/ Red(t, t.left[t.right[r]]) THEN Crash(t)
        ELSE IF Red(f, f.left[f.left[r]]) THEN FlipColor(RotateRight(f)) ELSE f

\* What a caller does with the subtree s that comes back: n->left_ = ..., n->right_ = ...
HangLeft(n, s) == [s EXCEPT !.left[n] = s.at, !.at = n]
HangRight(n, s) == [s EXCEPT !.right[n] = s.at, !.at = n]

RECURSIVE Min(_, _), GetByKey(_, _, _), GetCeiling(_, _, _), GetFloor(_, _, _)

MinStopsShort(t, n) ==
    IF t.left[n] = Nil \/ t.left[t.left[n]] = Nil THEN n ELSE Min(t, t.left[n])

Min(t, n) == IF t.left[n] = Nil THEN n ELSE Min(t, t.left[n])

GetByKey(t, n, k) ==
    CASE n = Nil -> Nil
      [] n # Nil /\ Cmp(k, t.key[n]) < 0 -> GetByKey(t, t.left[n], k)
      [] n # Nil /\ Cmp(k, t.key[n]) > 0 -> GetByKey(t, t.right[n], k)
      [] OTHER -> n

\* The node both searches test last: the one found below n, or n itself.
Nearest(n, below) == IF below = Nil THEN n ELSE below

CeilingForgetsNode(t, n, k) ==
    LET m == CASE Cmp(k, t.key[n]) > 0 -> GetCeiling(t, t.right[n], k)
               [] Cmp(k, t.key[n]) < 0 -> GetCeiling(t, t.left[n], k)
               [] OTHER -> n
    IN  IF n = Nil \/ m = Nil THEN Nil ELSE m

GetCeiling(t, n, k) ==
    LET m == Nearest(n, CASE Cmp(k, t.key[n]) > 0 -> GetCeiling(t, t.right[n], k)
                          [] Cmp(k, t.key[n]) < 0 -> GetCeiling(t, t.left[n], k)
                          [] OTHER -> n)
    IN  IF n = Nil \/ Cmp(k, t.key[m]) > 0 THEN Nil ELSE m

GetFloor(t, n, k) ==
    LET m == Nearest(n, CASE Cmp(k, t.key[n]) > 0 -> GetFloor(t, t.right[n], k)
                          [] Cmp(k, t.key[n]) < 0 -> GetFloor(t, t.left[n], k)
                          [] OTHER -> n)
    IN  IF n = Nil \/ Cmp(k, t.key[m]) < 0 THEN Nil ELSE m

RECURSIVE InsertNode(_, _), RemoveMin(_), RemoveKey(_, _)

\* insert(root, node): a key that is there already leaves the tree as it is.
InsertNode(t, x) ==
    LET n == t.at
        c == Cmp(t.key[x], t.key[n])
        s == IF c < 0 THEN HangLeft(n, InsertNode(At(t, t.left[n]), x))
                      ELSE HangRight(n, InsertNode(At(t, t.right[n]), x))
    IN  CASE n = Nil -> At([t EXCEPT !.red[x] = TRUE, !.size[x] = 1], x)
          [] n # Nil /\ c = 0 -> t
          [] OTHER -> SplitFourNode(IF Red(s, s.right[n]) /\ ~Red(s, s.left[n])
                                    THEN RotateLeft(s) ELSE s)

RemoveMin(t) ==
    LET n == t.at
        s == IF ~Red(t, t.left[n]) /\ ~Red(t, t.left[t.left[n]]) THEN MoveRedLeft(t) ELSE t
    IN  CASE t.crashed -> t
          [] ~t.crashed /\ t.left[n] = Nil -> At(t, Nil)
          [] OTHER -> Balance(HangLeft(s.at, RemoveMin(At(s, s.left[s.at]))))

\* The node to remove is n: the least one on its right takes its place.
Replace(t, n) ==
    LET m == Min(t, t.right[n])
        s == RemoveMin(At(t, t.right[n]))
        u == [s EXCEPT !.right[n] = s.at]
    IN  At(UpdateSize([u EXCEPT !.left[m] = u.left[n], !.right[m] = u.right[n],
                                !.red[m] = u.red[n]], m), m)

RemoveLeft(t, k) ==
    LET n == t.at
        s == IF ~Red(t, t.left[n]) /\ ~Red(t, t.left[t.left[n]]) THEN MoveRedLeft(t) ELSE t
    IN  IF t.left[n] = Nil THEN t
        ELSE HangLeft(s.at, RemoveKey(At(s, s.left[s.at]), k))

RemoveRight(t, k) ==
    LET n == t.at
        s == IF ~Red(t, t.right[n]) /\ ~Red(t, t.left[t.right[n]]) THEN MoveRedRight(t) ELSE t
    IN  CASE t.right[n] = Nil -> t
          [] t.right[n] # Nil /\ Cmp(k, s.key[s.at]) = 0 -> Replace(s, s.at)
          [] OTHER -> HangRight(s.at, RemoveKey(At(s, s.right[s.at]), k))

RemoveKey(t, k) ==
    LET s == IF Red(t, t.left[t.at]) THEN RotateRight(t) ELSE t
    IN  CASE t.crashed -> t
          [] ~t.crashed /\ Cmp(k, t.key[t.at]) < 0 -> Balance(RemoveLeft(t, k))
          [] ~t.crashed /\ Cmp(k, t.key[t.at]) >= 0
                /\ Cmp(k, s.key[s.at]) = 0 /\ s.right[s.at] = Nil -> At(s, Nil)
          [] OTHER -> Balance(RemoveRight(s, k))

EmptyTree ==
    [left |-> [n \in Ptr |-> Nil], right |-> [n \in Ptr |-> Nil],
     red |-> [n \in Ptr |-> n # Nil], size |-> [n \in Ptr |-> 1],
     key |-> [n \in Ptr |-> NoKey], root |-> Nil, at |-> Nil, crashed |-> FALSE,
     pool |-> [l \in {Free, Used} |-> IF l = Free THEN [k \in 1 .. Capacity |-> k - 1] ELSE <<>>]]

\* root_ = ..., root_->color_ = rb_black
SetRoot(t) == [t EXCEPT !.root = t.at, !.at = Nil,
                        !.red = [n \in Ptr |-> IF n = t.at THEN FALSE ELSE t.red[n]]]

CanInsert(t) == t.pool[Free] # <<>>

\* insert(k, v), where a node is free.
Insert(t, k) ==
    LET x == Head(t.pool[Free])
        u == [t EXCEPT !.pool = Moved(@, Free, Used), !.key[x] = k]
    IN  SetRoot(InsertNode(At(u, u.root), x))

\* remove(key): the node goes to the tail of the free list.  Of what it held
\* only the children are kept here: insert() writes the rest anew.
Remove(t, k) ==
    LET n == GetByKey(t, t.root, k)
        r == t.root
        u == IF ~Red(t, t.left[r]) /\ ~Red(t, t.right[r]) THEN [t EXCEPT !.red[r] = TRUE] ELSE t
        s == SetRoot(RemoveKey(At(u, r), k))
    IN  IF n = Nil THEN t
        ELSE [s EXCEPT !.pool = Moved(Swapped(@, Head(@[Used]), n), Used, Free),
                       !.key[n] = NoKey, !.red[n] = TRUE, !.size[n] = 1]
-----------------------------------------------------------------------------
\* Reference definitions the properties are stated with.

\* The keys of the tree below n from left to right; the depth is bounded, so
\* that a tree with a cycle has an in-order walk too (it repeats nodes).
RECURSIVE InOrder(_, _, _)
InOrder(t, n, depth) ==
    IF n = Nil THEN <<>>
    ELSE IF depth = 0 THEN <<n, n>>
    ELSE InOrder(t, t.left[n], depth - 1) \o <<n>> \o InOrder(t, t.right[n], depth - 1)

Nodes(t) == InOrder(t, t.root, Capacity)
InTree(t) == Members(Nodes(t))

\* The black nodes on every way down from n, or -1 where they differ.
RECURSIVE BlackHeight(_, _)
BlackHeight(t, n) ==
    IF n = Nil THEN 0
    ELSE LET l == BlackHeight(t, t.left[n])
             r == BlackHeight(t, t.right[n])
         IN  IF l # r \/ l = -1 THEN -1 ELSE IF Red(t, n) THEN l ELSE l + 1

SearchTree(t) ==
    LET s == Nodes(t)
    IN  \A i, j \in 1 .. Len(s) : i < j => Cmp(t.key[s[i]], t.key[s[j]]) < 0

Sound(t) ==
    /\ ~t.crashed
    /\ SearchTree(t)
    /\ ~Red(t, t.root)
    /\ BlackHeight(t, t.root) # -1
    /\ \A n \in InTree(t) : /\ ~Red(t, t.right[n])
                            /\ Red(t, n) => ~Red(t, t.left[n])
                            /\ t.size[n] = 1 + Size(t, t.left[n]) + Size(t, t.right[n])

Clean(t, n) == t.left[n] = Nil /\ t.right[n] = Nil
=============================================================================
