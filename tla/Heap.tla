-------------------------------- MODULE Heap --------------------------------
(***************************************************************************)
(* What dynamic_allocator_t promises its users: a buffer is theirs alone,  *)
(* keeps what they wrote, has at least the room they asked for, and has    *)
(* the same content after it has grown.  None of the operations has to     *)
(* succeed.                                                                *)
(***************************************************************************)
EXTENDS Integers

CONSTANTS User, Content, Room,
          NoBuffer      \* what a user has that has none

VARIABLE heap       \* each user's buffer

Buffer == [room : Room, content : Content]

Init == heap = [u \in User |-> NoBuffer]

\* A new buffer holds anything.
Alloc(u, s) ==
    /\ heap[u] = NoBuffer
    /\ \E b \in Buffer : b.room >= s /\ heap' = [heap EXCEPT ![u] = b]

Write(u) == /\ heap[u] # NoBuffer
            /\ \E c \in Content : heap' = [heap EXCEPT ![u].content = c]

Realloc(u, s) ==
    /\ heap[u] # NoBuffer
    /\ \E r \in Room : r >= s /\ r >= heap[u].room /\ heap' = [heap EXCEPT ![u].room = r]

Dealloc(u) == heap[u] # NoBuffer /\ heap' = [heap EXCEPT ![u] = NoBuffer]

Next == \E u \in User : \/ \E s \in Room : Alloc(u, s) \/ Realloc(u, s)
                        \/ Write(u)
                        \/ Dealloc(u)

Spec == Init /\ [][Next]_heap
=============================================================================
