----------------------------- MODULE Allocator -----------------------------
(***************************************************************************)
(* dynamic_allocator_t over its fixed_size_allocator_t's, the pools        *)
(* (src/allocator.cpp).  Its users are the links, each with the buffers it *)
(* receives and sends with, and the main thread's buffer for messages of   *)
(* the application threads; they run in one thread.                        *)
(*                                                                         *)
(* A pool of blocks of size p is known by p, as in the tree that           *)
(* get_ceiling() and get_by_key() search; TimerEngine checks those         *)
(* searches.  A block starts with the pool's flag_ (Flag bytes), then come *)
(* the header (Hdr bytes of its p) and the user's bytes.  A user's pointer *)
(* is a pool and a place in its buffers_.                                  *)
(***************************************************************************)
EXTENDS ListOps, FiniteSets, Functions

CONSTANTS User,
          Pools,        \* sizes of the pools
          Capacity,     \* blocks of each pool
          Hdr,          \* sizeof(buffer_head_t)
          Flag,         \* sizeof(buffer_node_t)
          Content,      \* what a buffer may hold
          MaxAsked      \* bound: the largest size asked for

ASSUME AllocAssumption ==
    /\ Hdr \in Nat \ {0} /\ Flag \in Nat \ {0} /\ MaxAsked \in Nat
    /\ Pools \subseteq Nat /\ IsFiniteSet(Pools) /\ \A p \in Pools : p > Hdr
    /\ Capacity \in [Pools -> Nat \ {0}]

Free == 0
Used == 1
Idx(p) == 0 .. Capacity[p] - 1
Block == {<<p, i>> : p \in Pools, i \in UNION {Idx(p) : p \in Pools}}

NULL == [pool |-> 0, at |-> 0]

VARIABLES lists,    \* buffer_list_ of each pool: its free and its used blocks
          used,     \* the blocks with buffer_used set in flag_
          memory,   \* what the user's bytes of each block hold
          ptr,      \* each user's pointer
          room      \* ghost: the size each user has asked for

vars == <<lists, used, memory, ptr, room>>

\* init_buffer_node() and get(): where a block's data_ lies; the user's bytes follow the header.
DataAt(p, i) == i * (p + Flag) + Flag
PtrTo(p, i) == [pool |-> p, at |-> DataAt(p, i) + Hdr]

\* ptr2addr() and get_idx(): from the header back to the block.
GetIdx(x) == (x.at - Hdr - Flag) \div (x.pool + Flag)

BlockOf(x) == <<x.pool, GetIdx(x)>>

\* asize_ of the block, which realloc() reads in its header.
UserRoom(x) == x.pool - Hdr

Init ==
    /\ lists = [p \in Pools |-> [l \in {Free, Used} |->
                    IF l = Free THEN [k \in 1 .. Capacity[p] |-> k - 1] ELSE <<>>]]
    /\ used = {}
    /\ \E c \in Content : memory = [b \in Block |-> c]
    /\ ptr = [u \in User |-> NULL]
    /\ room = [u \in User |-> 0]

CeilingOf(k) ==
    LET above == {p \in Pools : p >= k}
    IN  IF above = {} THEN 0 ELSE CHOOSE p \in above : \A q \in above : p <= q

Exhausted(p) == lists[p][Free] = <<>>

\* alloc(s): the pool it takes a block of, having tried the pool of size p; 0 when there is none.
TryFrom[p \in Pools \cup {0}] ==
    IF p = 0 \/ ~Exhausted(p) THEN p ELSE TryFrom[CeilingOf(p + 1 + Hdr)]

PoolForNoRetry(s) == LET p == CeilingOf(s + Hdr) IN IF p = 0 \/ Exhausted(p) THEN 0 ELSE p
PoolFor(s) == TryFrom[CeilingOf(s + Hdr)]

\* fixed_size_allocator_t::alloc2(), in the pool p.
TakeBlock(p) ==
    /\ lists' = [lists EXCEPT ![p] = Moved(@, Free, Used)]
    /\ used' = used \cup {<<p, Head(lists[p][Free])>>}

\* fixed_size_allocator_t::dealloc(idx), in the pool b[1].
GiveHead(ls, b) == [ls EXCEPT ![b[1]] = Moved(@, Used, Free)]
GiveBlock(ls, b) == [ls EXCEPT ![b[1]] = Moved(Swapped(@, Head(@[Used]), b[2]), Used, Free)]

Alloc(u, s) ==
    /\ ptr[u] = NULL
    /\ PoolFor(s) # 0
    /\ TakeBlock(PoolFor(s))
    /\ ptr' = [ptr EXCEPT ![u] = PtrTo(PoolFor(s), Head(lists[PoolFor(s)][Free]))]
    /\ room' = [room EXCEPT ![u] = s]
    /\ UNCHANGED memory

\* The user fills its buffer.
Write(u, c) ==
    /\ ptr[u] # NULL
    /\ memory' = [memory EXCEPT ![BlockOf(ptr[u])] = c]
    /\ UNCHANGED <<lists, used, ptr, room>>

\* What callers ask realloc() for: more than they have.
MoreRoom(u) == room[u] + 1 .. MaxAsked

ReallocForgetsHeader(u, s) ==
    /\ ptr[u] # NULL
    /\ ptr[u].pool >= s
    /\ room' = [room EXCEPT ![u] = s]
    /\ UNCHANGED <<lists, used, memory, ptr>>

\* realloc(s, p) where the block is large enough: p stays.
ReallocStays(u, s) ==
    /\ ptr[u] # NULL
    /\ UserRoom(ptr[u]) >= s
    /\ room' = [room EXCEPT ![u] = s]
    /\ UNCHANGED <<lists, used, memory, ptr>>

ReallocForgetsCopy(u, s) ==
    LET p == PoolFor(s)
        old == BlockOf(ptr[u])
        new == <<p, Head(lists[p][Free])>>
    IN  /\ ptr[u] # NULL
        /\ UserRoom(ptr[u]) < s
        /\ p # 0
        /\ lists' = GiveBlock([lists EXCEPT ![p] = Moved(@, Free, Used)], old)
        /\ used' = (used \cup {new}) \ {old}
        /\ ptr' = [ptr EXCEPT ![u] = PtrTo(p, new[2])]
        /\ room' = [room EXCEPT ![u] = s]
        /\ UNCHANGED memory

\* realloc(s, p) with alloc(), memcpy() and dealloc(p).  (Where alloc() fails it
\* returns NULL and the user goes on with p.)
ReallocMoves(u, s) ==
    LET p == PoolFor(s)
        old == BlockOf(ptr[u])
        new == <<p, Head(lists[p][Free])>>
    IN  /\ ptr[u] # NULL
        /\ UserRoom(ptr[u]) < s
        /\ p # 0
        /\ lists' = GiveBlock([lists EXCEPT ![p] = Moved(@, Free, Used)], old)
        /\ used' = (used \cup {new}) \ {old}
        /\ memory' = [memory EXCEPT ![new] = memory[old]]
        /\ ptr' = [ptr EXCEPT ![u] = PtrTo(p, new[2])]
        /\ room' = [room EXCEPT ![u] = s]

Dealloc(u) ==
    /\ ptr[u] # NULL
    /\ BlockOf(ptr[u]) \in used
    /\ lists' = GiveBlock(lists, BlockOf(ptr[u]))
    /\ used' = used \ {BlockOf(ptr[u])}
    /\ ptr' = [ptr EXCEPT ![u] = NULL]
    /\ room' = [room EXCEPT ![u] = 0]
    /\ UNCHANGED memory

Next ==
    \E u \in User :
        \/ \E s \in 1 .. MaxAsked : Alloc(u, s)
        \/ \E s \in MoreRoom(u) : ReallocStays(u, s) \/ ReallocMoves(u, s)
        \/ \E c \in Content : Write(u, c)
        \/ Dealloc(u)

Spec == Init /\ [][Next]_vars
-----------------------------------------------------------------------------
(* Properties *)

Held == {u \in User : ptr[u] # NULL}

\* Every variable stays within its type, and a user's pointer leads to a block.
TypeOK ==
    /\ \A p \in Pools, l \in {Free, Used} : lists[p][l] \in Seq(Idx(p))
    /\ used \subseteq Block
    /\ memory \in [Block -> Content]
    /\ \A u \in User : ptr[u] = NULL \/ BlockOf(ptr[u]) \in Block
    /\ room \in [User -> 0 .. MaxAsked]

\* No block is lost and none is in two places: those of the used list of a pool
\* are those flagged used, and each of them is the block of exactly one user.
NoLeak ==
    /\ \A p \in Pools :
        /\ Len(lists[p][Free]) + Len(lists[p][Used]) = Capacity[p]
        /\ Members(lists[p][Free]) \cup Members(lists[p][Used]) = Idx(p)
        /\ Members(lists[p][Used]) = {i \in Idx(p) : <<p, i>> \in used}
    /\ used = {BlockOf(ptr[u]) : u \in Held}
    /\ Cardinality(used) = Cardinality(Held)

\* Pointers lead back to their blocks, and each block is in one place.
AllocInv == TypeOK /\ NoLeak

Bytes(x, n) == {<<x.pool, k>> : k \in x.at .. x.at + n - 1}

\* The bytes a user may write lie within buffers_ of its pool, apart from every
\* other user's and from every flag_ and header.
OwnRoom ==
    \A u \in Held :
        LET p == ptr[u].pool
            mine == Bytes(ptr[u], room[u])
        IN  /\ mine \subseteq {<<p, k>> : k \in 0 .. Capacity[p] * (p + Flag) - 1}
            /\ \A i \in Idx(p) : mine \cap {<<p, k>> : k \in DataAt(p, i) - Flag .. DataAt(p, i) + Hdr - 1} = {}
            /\ \A v \in Held \ {u} : mine \cap Bytes(ptr[v], room[v]) = {}

\* alloc() takes a block of the least pool that is large enough and has one,
\* save for the pools it skips: those at most Hdr larger than an exhausted one.
\* Only then can it fail while a pool could serve.
ServesIfItCan ==
    \A s \in 1 .. MaxAsked, p \in Pools :
        p >= s + Hdr /\ ~Exhausted(p) =>
            \/ PoolFor(s) # 0 /\ PoolFor(s) <= p
            \/ \E q \in Pools : s + Hdr <= q /\ q < p /\ p <= q + Hdr /\ Exhausted(q)

NoBuffer == [room |-> -1, content |-> NULL]

H == INSTANCE Heap WITH
        Room <- 0 .. MaxAsked,
        heap <- [u \in User |-> IF u \in Held
                                THEN [room |-> room[u], content |-> memory[BlockOf(ptr[u])]]
                                ELSE NoBuffer]

\* alloc(), realloc() and dealloc() keep what Heap promises: in particular a
\* buffer that moves takes its content along, and nobody else's changes.
ImplementsHeap == H!Spec
=============================================================================
