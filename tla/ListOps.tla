------------------------------ MODULE ListOps ------------------------------
(***************************************************************************)
(* The lists a linked_list_t keeps, as sequences of node indices: what its *)
(* operations do when they are called the way calypso_network_t calls      *)
(* them.  ls is a function from list numbers to sequences.                 *)
(***************************************************************************)
EXTENDS Integers, Sequences

Members(s) == {s[k] : k \in 1 .. Len(s)}

InList(ls, l, i) == i \in Members(ls[l])

PlaceOf(s, i) == CHOOSE k \in 1 .. Len(s) : s[k] = i

\* What is left of s without its member i.
Without(s, i) == [k \in 1 .. Len(s) - 1 |-> IF k < PlaceOf(s, i) THEN s[k] ELSE s[k + 1]]

\* move(src, dst): the head of src becomes the tail of dst.
Moved(ls, src, dst) ==
    LET rest == [ls EXCEPT ![src] = Tail(@)]
    IN  [rest EXCEPT ![dst] = Append(@, Head(ls[src]))]

\* swap(i, j), both in the same list.
Exchanged(s, i, j) ==
    [k \in 1 .. Len(s) |-> CASE s[k] = i -> j [] s[k] = j -> i [] OTHER -> s[k]]
Swapped(ls, i, j) == [l \in DOMAIN ls |-> Exchanged(ls[l], i, j)]

\* move_before(i, get_head(l)) and move_after(i, get_tail(l)), for i in l.
ToHead(ls, l, i) == [ls EXCEPT ![l] = <<i>> \o Without(@, i)]
ToTail(ls, l, i) == [ls EXCEPT ![l] = Append(Without(@, i), i)]
=============================================================================
