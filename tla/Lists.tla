------------------------------- MODULE Lists -------------------------------
(***************************************************************************)
(* What a linked_list_t promises: max_list_ + 1 lists that hold each node  *)
(* exactly once between them, list 0 being the free one.                   *)
(***************************************************************************)
EXTENDS ListOps, FiniteSets

CONSTANTS Idx,      \* nodes
          Lids      \* lists

VARIABLE lists

Init == lists = [l \in Lids |-> IF l = 0 THEN [k \in 1 .. Cardinality(Idx) |-> k - 1] ELSE <<>>]

Move(src, dst) == lists[src] # <<>> /\ lists' = Moved(lists, src, dst)

Swap(l, i, j) == InList(lists, l, i) /\ InList(lists, l, j) /\ lists' = Swapped(lists, i, j)

MoveToHead(l, i) == InList(lists, l, i) /\ lists' = ToHead(lists, l, i)
MoveToTail(l, i) == InList(lists, l, i) /\ lists' = ToTail(lists, l, i)

Next == \E l \in Lids :
            \/ \E dst \in Lids : Move(l, dst)
            \/ \E i, j \in Members(lists[l]) : Swap(l, i, j)
            \/ \E i \in Members(lists[l]) : MoveToHead(l, i) \/ MoveToTail(l, i)

Spec == Init /\ [][Next]_lists
=============================================================================
