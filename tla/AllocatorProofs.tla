-------------------------- MODULE AllocatorProofs --------------------------
(***************************************************************************)
(* Theorems about the two users of the tree of rbtree.h.  Allocator: for   *)
(* any users, pools, capacities and sizes of headers, each buffer is in    *)
(* one place, apart from all others, alloc() finds the pool it should, and *)
(* the users see what Heap promises.  Timers: for any set of timers, the   *)
(* permanent ones are kept, none is called twice by a walk unless one has  *)
(* an interval of 0, and of timers within 35 minutes of each other none is *)
(* late by more than its second.                                           *)
(***************************************************************************)
EXTENDS Allocator, Timers, ListOpsProofs

-----------------------------------------------------------------------------
(* The search for a pool *)

\* No pool has the size 0, by which alloc() knows that there is none.
LEMMA PoolSizes ==
    /\ Pools \in SUBSET Nat /\ 0 \notin Pools /\ Hdr \in Nat /\ Flag \in Nat
    /\ Hdr > 0 /\ Flag > 0 /\ \A p \in Pools : p \in Nat /\ p > Hdr
<1>1. Pools \in SUBSET Nat /\ Hdr \in Nat /\ Flag \in Nat /\ \A p \in Pools : p > Hdr
      BY AllocAssumption
<1>2. Hdr > 0 /\ Flag > 0 BY AllocAssumption
<1> QED BY <1>1, <1>2

\* get_ceiling(k) finds the least pool of at least k, or there is none.
LEMMA Ceiling ==
    ASSUME NEW k \in Nat
    PROVE  /\ CeilingOf(k) \in Pools \cup {0}
           /\ CeilingOf(k) = 0 => \A q \in Pools : q < k
           /\ CeilingOf(k) # 0 => /\ CeilingOf(k) \in Pools /\ k <= CeilingOf(k)
                                  /\ \A q \in Pools : k <= q => CeilingOf(k) <= q
<1> DEFINE above == {p \in Pools : p >= k}
<1>1. above \in SUBSET Nat /\ Pools \in SUBSET Nat /\ 0 \notin Pools BY PoolSizes
<1>2. CASE above = {}
  <2>1. CeilingOf(k) = 0 BY <1>2 DEF CeilingOf
  <2>2. \A q \in Pools : q < k BY <1>1, <1>2
  <2> QED BY <2>1, <2>2
<1>3. CASE above # {}
  <2> DEFINE c == CHOOSE p \in above : \A q \in above : p <= q
  <2>1. CeilingOf(k) = c BY <1>3 DEF CeilingOf
  <2>2. \E p \in above : \A q \in above : p <= q BY <1>1, <1>3, LeastOf
  <2>3. c \in above /\ \A q \in above : c <= q BY <2>2
  <2> HIDE DEF c
  <2>4. c \in Pools /\ k <= c /\ \A q \in Pools : k <= q => c <= q BY <1>1, <2>3
  <2> QED BY <1>1, <2>1, <2>4
<1> QED BY <1>2, <1>3

Found(f, p) == IF p = 0 \/ ~Exhausted(p) THEN p ELSE f[CeilingOf(p + 1 + Hdr)]

\* The search is over before the pools are: its recursion defines it.
LEMMA SearchIsDefined == TryFrom = [p \in Pools \cup {0} |-> Found(TryFrom, p)]
<1> DEFINE Above(n) == {p \in Pools : n <= p} \cup {0}
           Solves(f, n) == f = [p \in Above(n) |-> Found(f, p)]
           S == {n \in Nat : \E f : Solves(f, n)}
<1>1. Pools \in SUBSET Nat /\ 0 \notin Pools /\ Hdr \in Nat BY PoolSizes
<1>2. \E n \in Nat : n \in S
  <2>1. PICK m \in Nat : \A x \in Pools : x <= m BY AllocAssumption, FiniteHasBound
  <2>2. Above(m + 1) = {0}
    <3>1. \A x \in Pools : ~(m + 1 <= x) BY <1>1, <2>1
    <3> QED BY <3>1
  <2>3. Solves([p \in {0} |-> 0], m + 1) BY <2>2 DEF Found
  <2>4. m + 1 \in Nat OBVIOUS
  <2> QED BY <2>3, <2>4
<1>3. ASSUME NEW n \in Nat, NEW f, Solves(f, n + 1) PROVE n \in S
  <2> DEFINE g == [p \in Above(n) |-> Found(f, p)]
  <2>1. \A p \in Above(n + 1) : p \in Above(n) /\ f[p] = Found(f, p) BY <1>1, <1>3
  <2>2. ASSUME NEW p \in Above(n), p # 0 PROVE CeilingOf(p + 1 + Hdr) \in Above(n + 1)
    <3> DEFINE c == CeilingOf(p + 1 + Hdr)
    <3>1. p \in Nat /\ n <= p /\ p + 1 + Hdr \in Nat BY <1>1, <2>2
    <3>2. c # 0 => c \in Pools /\ p + 1 + Hdr <= c BY <3>1, Ceiling
    <3> HIDE DEF c
    <3>3. ASSUME c # 0 PROVE c \in Pools /\ n + 1 <= c
      <4>1. c \in Pools /\ p + 1 + Hdr <= c BY <3>2, <3>3
      <4>2. c \in Nat BY <1>1, <4>1
      <4> QED BY <1>1, <3>1, <4>1, <4>2
    <3> QED BY <3>3 DEF c
  <2>3. ASSUME NEW p \in Above(n) PROVE g[p] = Found(g, p)
    <3> DEFINE c == CeilingOf(p + 1 + Hdr)
    <3>1. CASE p = 0 \/ ~Exhausted(p) BY <3>1 DEF Found
    <3>2. CASE p # 0 /\ Exhausted(p)
      <4>1. c \in Above(n + 1) BY <2>2, <3>2
      <4>2. f[c] = Found(f, c) /\ c \in Above(n) BY <2>1, <4>1
      <4>3. g[p] = f[c] /\ Found(g, p) = g[c] BY <3>2 DEF Found
      <4>4. g[c] = Found(f, c) BY <4>2
      <4> QED BY <4>2, <4>3, <4>4
    <3> QED BY <3>1, <3>2
  <2>4. g = [p \in Above(n) |-> g[p]] OBVIOUS
  <2> HIDE DEF g
  <2>5. Solves(g, n) BY <2>3, <2>4
  <2> QED BY <2>5
<1>4. PICK n \in S : \A k \in S : n <= k BY <1>2, LeastOf
<1>5. n = 0
  <2> SUFFICES ASSUME n # 0 PROVE FALSE OBVIOUS
  <2>1. n - 1 \in Nat /\ (n - 1) + 1 = n /\ ~(n <= n - 1) OBVIOUS
  <2>2. PICK f : Solves(f, n) BY <1>4
  <2> HIDE DEF Solves, S
  <2>3. n - 1 \in S BY <1>3, <2>1, <2>2
  <2> QED BY <1>4, <2>1, <2>3
<1>6. PICK f : Solves(f, 0) BY <1>4, <1>5
<1>7. Above(0) = Pools \cup {0}
  <2>1. \A p \in Pools : 0 <= p BY <1>1
  <2> QED BY <2>1
<1>8. f = [p \in Pools \cup {0} |-> IF p = 0 \/ ~Exhausted(p) THEN p ELSE f[CeilingOf(p + 1 + Hdr)]]
      BY <1>6, <1>7 DEF Found
<1> HIDE DEF Above, Solves, S
<1>9. TryFrom = [p \in Pools \cup {0} |-> IF p = 0 \/ ~Exhausted(p) THEN p
                                       ELSE TryFrom[CeilingOf(p + 1 + Hdr)]]
      BY <1>8 DEF TryFrom
<1> QED BY <1>9 DEF Found

\* What the search that begins at pool p may find: a pool not below p that has a
\* block, and none only if every pool it could have served from is skipped.
Skipped(p, q) == \E x \in Pools : p <= x /\ x < q /\ q <= x + Hdr /\ Exhausted(x)
Served(p) ==
    LET r == TryFrom[p]
    IN  /\ r \in Pools \cup {0}
        /\ r # 0 => p <= r /\ ~Exhausted(r)
        /\ \A q \in Pools : p <= q /\ ~Exhausted(q) => (r # 0 /\ r <= q) \/ Skipped(p, q)

LEMMA SearchFinds == TryFrom[0] = 0 /\ \A p \in Pools : Served(p)
<1> DEFINE Bad == {p \in Pools : ~Served(p)}
<1>1. Pools \in SUBSET Nat /\ 0 \notin Pools /\ Hdr \in Nat BY PoolSizes
<1>2. TryFrom[0] = 0 BY SearchIsDefined DEF Found
<1>3. ASSUME Bad # {} PROVE FALSE
  <2>1. PICK m \in Nat : \A x \in Pools : x <= m BY AllocAssumption, FiniteHasBound
  <2>2. Bad \in SUBSET Nat /\ \A x \in Bad : x <= m BY <1>1, <2>1
  <2> HIDE DEF Bad
  <2>3. PICK b \in Bad : \A k \in Bad : k <= b BY <1>3, <2>1, <2>2, GreatestOf
  <2>4. b \in Pools /\ ~Served(b) /\ b \in Nat BY <2>2, <2>3 DEF Bad
  <2> DEFINE r == TryFrom[b]
             c == CeilingOf(b + 1 + Hdr)
  <2>5. r = IF ~Exhausted(b) THEN b ELSE TryFrom[c]
        BY <1>1, <2>4, SearchIsDefined DEF Found
  <2>6. CASE ~Exhausted(b)
    <3>1. r = b BY <2>5, <2>6
    <3> QED BY <1>1, <2>4, <2>6, <3>1 DEF Served
  <2>7. CASE Exhausted(b)
    <3>1. r = TryFrom[c] BY <2>5, <2>7
    <3>2. b + 1 + Hdr \in Nat BY <1>1, <2>4
    <3>3. /\ c \in Pools \cup {0}
          /\ c = 0 => \A q \in Pools : q < b + 1 + Hdr
          /\ c # 0 => /\ c \in Pools /\ b + 1 + Hdr <= c
                      /\ \A q \in Pools : b + 1 + Hdr <= q => c <= q
          BY <3>2, Ceiling
    <3> HIDE DEF r, c
    <3>4. ASSUME NEW q \in Pools, b <= q, ~Exhausted(q), q < b + 1 + Hdr
          PROVE  Skipped(b, q)
      <4>1. q # b /\ q \in Nat BY <1>1, <2>7, <3>4
      <4>2. b <= b /\ b < q /\ q <= b + Hdr BY <1>1, <2>4, <3>4, <4>1
      <4> QED BY <2>4, <2>7, <4>2 DEF Skipped
    <3>5. CASE c = 0
      <4>1. r = 0 BY <1>2, <3>1, <3>5
      <4>2. \A q \in Pools : q < b + 1 + Hdr BY <3>3, <3>5
      <4>3. \A q \in Pools : b <= q /\ ~Exhausted(q) => Skipped(b, q) BY <3>4, <4>2
      <4> QED BY <2>4, <4>1, <4>3 DEF Served, r
    <3>6. CASE c # 0
      <4>1. c \in Pools /\ c \in Nat /\ b + 1 + Hdr <= c /\ b < c
        <5>1. c \in Pools /\ b + 1 + Hdr <= c BY <3>3, <3>6
        <5> QED BY <1>1, <2>4, <5>1
      <4>2. Served(c)
        <5>1. c \notin Bad BY <2>3, <2>4, <4>1
        <5> QED BY <4>1, <5>1 DEF Bad
      <4>3. r \in Pools \cup {0} /\ (r # 0 => c <= r /\ ~Exhausted(r))
            BY <3>1, <4>2 DEF Served
      <4>4. r # 0 => b <= r BY <1>1, <2>4, <4>1, <4>3
      <4>5. ASSUME NEW q \in Pools, b <= q, ~Exhausted(q)
            PROVE  (r # 0 /\ r <= q) \/ Skipped(b, q)
        <5>1. CASE q < b + 1 + Hdr BY <3>4, <4>5, <5>1
        <5>2. CASE b + 1 + Hdr <= q
          <6>1. c <= q BY <3>3, <3>6, <5>2
          <6>2. (r # 0 /\ r <= q) \/ Skipped(c, q) BY <3>1, <4>2, <4>5, <6>1 DEF Served
          <6>3. Skipped(c, q) => Skipped(b, q) BY <1>1, <2>4, <4>1 DEF Skipped
          <6> QED BY <6>2, <6>3
        <5> QED BY <1>1, <2>4, <5>1, <5>2
      <4> QED BY <2>4, <4>3, <4>4, <4>5 DEF Served, r
    <3> QED BY <3>5, <3>6
  <2> QED BY <2>6, <2>7
<1> QED BY <1>2, <1>3

\* alloc(s): what it takes a block of is a pool large enough that has one, and the
\* least such, save for those it skips.
LEMMA PoolForFinds ==
    ASSUME NEW s \in Nat
    PROVE  /\ PoolFor(s) \in Pools \cup {0}
           /\ PoolFor(s) # 0 => s + Hdr <= PoolFor(s) /\ ~Exhausted(PoolFor(s))
           /\ \A q \in Pools : s + Hdr <= q /\ ~Exhausted(q) =>
                (PoolFor(s) # 0 /\ PoolFor(s) <= q) \/ Skipped(s + Hdr, q)
<1> DEFINE c == CeilingOf(s + Hdr)
<1>1. Pools \in SUBSET Nat /\ 0 \notin Pools /\ s + Hdr \in Nat BY PoolSizes
<1>2. /\ c \in Pools \cup {0}
      /\ c = 0 => \A q \in Pools : q < s + Hdr
      /\ c # 0 => c \in Pools /\ s + Hdr <= c /\ \A q \in Pools : s + Hdr <= q => c <= q
      BY <1>1, Ceiling
<1>3. PoolFor(s) = TryFrom[c] BY DEF PoolFor
<1> HIDE DEF c
<1>4. CASE c = 0
  <2>1. PoolFor(s) = 0 BY <1>3, <1>4, SearchFinds
  <2>2. \A q \in Pools : ~(s + Hdr <= q) BY <1>1, <1>2, <1>4
  <2> QED BY <2>1, <2>2
<1>5. CASE c # 0
  <2>1. Served(c) /\ c \in Pools /\ c \in Nat /\ s + Hdr <= c BY <1>1, <1>2, <1>5, SearchFinds
  <2>2. PoolFor(s) \in Pools \cup {0} BY <1>3, <2>1 DEF Served
  <2>3. PoolFor(s) # 0 => c <= PoolFor(s) /\ ~Exhausted(PoolFor(s)) BY <1>3, <2>1 DEF Served
  <2>4. PoolFor(s) # 0 => s + Hdr <= PoolFor(s)
    <3> SUFFICES ASSUME PoolFor(s) # 0 PROVE s + Hdr <= PoolFor(s) OBVIOUS
    <3>1. PoolFor(s) \in Nat /\ c <= PoolFor(s) BY <1>1, <2>2, <2>3
    <3> QED BY <1>1, <2>1, <3>1
  <2>5. ASSUME NEW q \in Pools, s + Hdr <= q, ~Exhausted(q)
        PROVE  (PoolFor(s) # 0 /\ PoolFor(s) <= q) \/ Skipped(s + Hdr, q)
    <3>1. c <= q BY <1>2, <1>5, <2>5
    <3>2. (PoolFor(s) # 0 /\ PoolFor(s) <= q) \/ Skipped(c, q)
          BY <1>3, <2>1, <2>5, <3>1 DEF Served
    <3>3. Skipped(c, q) => Skipped(s + Hdr, q) BY <1>1, <2>1 DEF Skipped
    <3> QED BY <3>2, <3>3
  <2> QED BY <2>2, <2>3, <2>4, <2>5
<1> QED BY <1>4, <1>5

\* alloc() fails only where the pools it skips leave none.
THEOREM ServesTheorem == Spec => []ServesIfItCan
<1>1. ServesIfItCan
  <2> SUFFICES ASSUME NEW s \in 1 .. MaxAsked, NEW p \in Pools, p >= s + Hdr, ~Exhausted(p)
               PROVE  \/ PoolFor(s) # 0 /\ PoolFor(s) <= p
                      \/ \E q \in Pools : s + Hdr <= q /\ q < p /\ p <= q + Hdr /\ Exhausted(q)
      BY DEF ServesIfItCan
  <2>1. s \in Nat /\ s + Hdr <= p BY PoolSizes
  <2>2. (PoolFor(s) # 0 /\ PoolFor(s) <= p) \/ Skipped(s + Hdr, p) BY <2>1, PoolForFinds
  <2> QED BY <2>2 DEF Skipped
<1> QED BY <1>1, PTL

-----------------------------------------------------------------------------
(* Pointers and blocks *)

\* The blocks there are: the places of each pool.
Places == {b \in Block : b[2] \in Idx(b[1])}

\* The place of a block is at most all but one of the capacity.
LEMMA BlockOfPool ==
    ASSUME NEW b \in Places
    PROVE  /\ b = <<b[1], b[2]>> /\ b[1] \in Pools /\ b[2] \in Idx(b[1])
           /\ b[1] \in Nat /\ b[2] \in Nat
<1>1. b = <<b[1], b[2]>> /\ b[1] \in Pools BY DEF Places, Block
<1>2. b[2] \in Idx(b[1]) BY DEF Places
<1>3. Idx(b[1]) \subseteq Nat BY <1>1, AllocAssumption DEF Idx
<1> QED BY <1>1, <1>2, <1>3, PoolSizes

\* Each place of a pool is a block.
LEMMA PoolOfBlock ==
    ASSUME NEW p \in Pools, NEW i \in Idx(p)
    PROVE  <<p, i>> \in Places /\ <<p, i>> \in Block
BY DEF Places, Block

\* Only a multiple that is 0 is less than one.
LEMMA SmallMultiple ==
    ASSUME NEW n \in Int, NEW d \in Nat, d > 0, 0 <= n * d, n * d < d
    PROVE  n = 0
<1>1. n >= 1 => n * d >= d BY Z3
<1>2. n <= -1 => n * d <= -d BY Z3
<1> QED BY <1>1, <1>2

\* get_idx() inverts what get() computes.
LEMMA QuotientOf ==
    ASSUME NEW i \in Nat, NEW d \in Nat, d > 0
    PROVE  (i * d) \div d = i
BY Z3

\* A pointer leads back to its block.
LEMMA PointerOf ==
    ASSUME NEW b \in Places
    PROVE  LET x == PtrTo(b[1], b[2])
           IN  /\ BlockOf(x) = b /\ x # NULL
               /\ x.pool = b[1] /\ x.at = DataAt(b[1], b[2]) + Hdr
               /\ UserRoom(x) = b[1] - Hdr
<1> DEFINE p == b[1]
           i == b[2]
           x == PtrTo(p, i)
<1>1. b = <<p, i>> /\ p \in Pools /\ p \in Nat /\ i \in Nat BY BlockOfPool
<1>2. x.pool = p /\ x.at = i * (p + Flag) + Flag + Hdr BY DEF PtrTo, DataAt
<1>3. x # NULL BY <1>1, <1>2, PoolSizes DEF NULL
<1> HIDE DEF x, p, i
<1>4. GetIdx(x) = i
  <2> DEFINE d == p + Flag
  <2>1. d \in Nat /\ d > 0 BY <1>1, PoolSizes
  <2>2. i * d \in Int BY <1>1, <2>1
  <2>3. x.at - Hdr - Flag = i * d
    <3> HIDE DEF d
    <3>1. x.at = i * d + Flag + Hdr BY <1>2 DEF d
    <3> QED BY <2>2, <3>1, PoolSizes
  <2>4. (i * d) \div d = i
    <3> HIDE DEF d
    <3> QED BY <1>1, <2>1, QuotientOf
  <2>5. x.pool + Flag = d BY <1>2
  <2> QED BY <2>3, <2>4, <2>5 DEF GetIdx
<1>5. BlockOf(x) = b BY <1>1, <1>2, <1>4 DEF BlockOf
<1>6. UserRoom(x) = p - Hdr BY <1>2 DEF UserRoom
<1> QED BY <1>2, <1>3, <1>5, <1>6 DEF x, p, i, DataAt

-----------------------------------------------------------------------------
(* The pools *)

Two == {Free, Used}

\* The lists l of the pool p hold each of its blocks once, the used list those
\* in us.
PoolKept(l, p, us) ==
    /\ ListsOf(l, Two, Idx(p))
    /\ Len(l[Free]) + Len(l[Used]) = Capacity[p]
    /\ Members(l[Free]) \cup Members(l[Used]) = Idx(p)
    /\ Members(l[Used]) = {i \in Idx(p) : <<p, i>> \in us}

PoolsKept(ls, us) ==
    /\ ls = [p \in Pools |-> ls[p]]
    /\ \A p \in Pools : PoolKept(ls[p], p, us)
    /\ us \subseteq Places

\* What becomes of one pool leaves the others as they are.
LEMMA OnePool ==
    ASSUME NEW ls, NEW us, NEW vs, PoolsKept(ls, us), vs \subseteq Places,
           NEW p \in Pools, NEW l, PoolKept(l, p, vs),
           \A b \in Places : b[1] # p => (b \in us <=> b \in vs)
    PROVE  PoolsKept([ls EXCEPT ![p] = l], vs)
<1> DEFINE new == [ls EXCEPT ![p] = l]
<1>1. ls = [q \in Pools |-> ls[q]] BY DEF PoolsKept
<1>2. new = [q \in Pools |-> new[q]] /\ new[p] = l /\ \A q \in Pools : q # p => new[q] = ls[q]
      BY <1>1
<1> HIDE DEF new
<1>3. ASSUME NEW q \in Pools, q # p PROVE PoolKept(ls[q], q, vs)
  <2>1. PoolKept(ls[q], q, us) BY DEF PoolsKept
  <2>2. \A i \in Idx(q) : <<q, i>> \in us <=> <<q, i>> \in vs
    <3> SUFFICES ASSUME NEW i \in Idx(q) PROVE <<q, i>> \in us <=> <<q, i>> \in vs OBVIOUS
    <3> DEFINE b == <<q, i>>
    <3>1. b \in Places /\ b[1] # p BY <1>3, PoolOfBlock
    <3> QED BY <3>1
  <2>3. {i \in Idx(q) : <<q, i>> \in us} = {i \in Idx(q) : <<q, i>> \in vs} BY <2>2
  <2> QED BY <2>1, <2>3 DEF PoolKept
<1>4. \A q \in Pools : PoolKept(new[q], q, vs) BY <1>2, <1>3
<1> QED BY <1>2, <1>4 DEF PoolsKept, new

\* fixed_size_allocator_t::alloc2() takes a block that was free.
LEMMA Taken ==
    ASSUME NEW ls, NEW us, PoolsKept(ls, us), NEW p \in Pools, ls[p][Free] # <<>>
    PROVE  LET b == <<p, Head(ls[p][Free])>>
           IN  /\ b \in Places /\ b \in Block /\ b \notin us
               /\ PoolsKept([ls EXCEPT ![p] = Moved(@, Free, Used)], us \cup {b})
<1> DEFINE l == ls[p]
           i == Head(l[Free])
           b == <<p, i>>
           new == Moved(l, Free, Used)
<1>1. PoolKept(l, p, us) /\ us \subseteq Places BY DEF PoolsKept
<1>2. ListsOf(l, Two, Idx(p)) /\ Free \in Two /\ Used \in Two /\ Free # Used
      BY <1>1 DEF PoolKept, Two, Free, Used
<1>3. Len(l[Free]) \in Nat /\ Len(l[Used]) \in Nat
  <2>1. l[Free] \in Seq(Idx(p)) /\ l[Used] \in Seq(Idx(p)) BY <1>2 DEF ListsOf
  <2> QED BY <2>1, LenProperties
<1>4. /\ ListsOf(new, Two, Idx(p))
      /\ i \in Members(l[Free]) /\ i \in Idx(p)
      /\ MovedTo(l, new, Two, i, Used)
      /\ Len(new[Free]) = Len(l[Free]) - 1 /\ Len(new[Used]) = Len(l[Used]) + 1
      BY <1>2, MovedLists
<1>5. Members(l[Free]) \cap Members(l[Used]) = {} BY <1>2 DEF ListsOf
<1> HIDE DEF l, new
<1>6. Members(new[Used]) = Members(l[Used]) \cup {i} /\ Members(new[Free]) = Members(l[Free]) \ {i}
      BY <1>2, <1>4 DEF MovedTo, Two
<1> HIDE DEF i
<1>7. b \in Places /\ b \in Block BY <1>4, PoolOfBlock
<1>8. b \notin us BY <1>1, <1>4, <1>5 DEF PoolKept
<1>9. PoolKept(new, p, us \cup {b})
  <2>0. Len(l[Free]) + Len(l[Used]) = Capacity[p] BY <1>1 DEF PoolKept
  <2>1. Len(new[Free]) + Len(new[Used]) = Capacity[p]
    <3> DEFINE f == Len(l[Free])
               u == Len(l[Used])
    <3>1. f \in Nat /\ u \in Nat /\ f + u = Capacity[p] BY <1>3, <2>0
    <3>2. Len(new[Free]) = f - 1 /\ Len(new[Used]) = u + 1 BY <1>4
    <3> HIDE DEF f, u
    <3> QED BY <3>1, <3>2
  <2>2. Members(new[Free]) \cup Members(new[Used]) = Idx(p) BY <1>1, <1>4, <1>6 DEF PoolKept
  <2>3. \A j : <<p, j>> \in us \cup {b} <=> <<p, j>> \in us \/ j = i OBVIOUS
  <2>4. Members(new[Used]) = {j \in Idx(p) : <<p, j>> \in us \cup {b}}
        BY <1>1, <1>4, <1>6, <2>3 DEF PoolKept
  <2> QED BY <1>4, <2>1, <2>2, <2>4 DEF PoolKept
<1>10. \A c \in Places : c[1] # p => (c \in us <=> c \in us \cup {b}) OBVIOUS
<1>11. us \cup {b} \subseteq Places BY <1>1, <1>7
<1>12. PoolsKept([ls EXCEPT ![p] = new], us \cup {b})
       BY <1>9, <1>10, <1>11, OnePool
<1> QED BY <1>7, <1>8, <1>12 DEF new, b, i, l

\* fixed_size_allocator_t::dealloc() gives back the block and no other.
LEMMA Given ==
    ASSUME NEW ls, NEW us, PoolsKept(ls, us), NEW b \in us
    PROVE  PoolsKept(GiveBlock(ls, b), us \ {b})
<1> DEFINE p == b[1]
           i == b[2]
           l == ls[p]
           first == Head(l[Used])
           mid == Swapped(l, first, i)
           new == Moved(mid, Used, Free)
<1>1. us \subseteq Places /\ b = <<p, i>> /\ p \in Pools /\ i \in Idx(p)
      BY BlockOfPool DEF PoolsKept
<1>2. PoolKept(l, p, us) BY <1>1 DEF PoolsKept
<1>3. ListsOf(l, Two, Idx(p)) /\ Free \in Two /\ Used \in Two /\ Free # Used
      BY <1>2 DEF PoolKept, Two, Free, Used
<1>4. l[Free] \in Seq(Idx(p)) /\ l[Used] \in Seq(Idx(p)) BY <1>3 DEF ListsOf
<1>5. i \in Members(l[Used]) BY <1>1, <1>2 DEF PoolKept
<1>6. first \in Members(l[Used])
  <2>1. Distinct(l[Used]) /\ l[Used] # <<>> BY <1>3, <1>4, <1>5, MembersEmpty DEF ListsOf
  <2> QED BY <1>4, <2>1, TailOf
<1> HIDE DEF first, l, i, p
<1>7. /\ ListsOf(mid, Two, Idx(p)) /\ SameMembers(l, mid, Two)
      /\ Len(mid[Free]) = Len(l[Free]) /\ Len(mid[Used]) = Len(l[Used])
      /\ mid[Used] # <<>> /\ Head(mid[Used]) = i
      BY <1>3, <1>5, <1>6, SwappedLists DEF first
<1> HIDE DEF mid
<1>8. /\ ListsOf(new, Two, Idx(p))
      /\ MovedTo(mid, new, Two, i, Free)
      /\ Len(new[Used]) = Len(mid[Used]) - 1 /\ Len(new[Free]) = Len(mid[Free]) + 1
      BY <1>3, <1>7, MovedLists
<1> HIDE DEF new
<1>9. Len(l[Free]) \in Nat /\ Len(l[Used]) \in Nat BY <1>4, LenProperties
<1>10. Members(mid[Used]) = Members(l[Used]) /\ Members(mid[Free]) = Members(l[Free])
       BY <1>3, <1>7 DEF SameMembers
<1>11. Members(new[Free]) = Members(l[Free]) \cup {i} /\ Members(new[Used]) = Members(l[Used]) \ {i}
       BY <1>3, <1>8, <1>10 DEF MovedTo
<1>12. PoolKept(new, p, us \ {b})
  <2>0. Len(l[Free]) + Len(l[Used]) = Capacity[p] BY <1>2 DEF PoolKept
  <2>1. Len(new[Free]) + Len(new[Used]) = Capacity[p]
    <3> DEFINE f == Len(l[Free])
               u == Len(l[Used])
    <3>1. f \in Nat /\ u \in Nat /\ f + u = Capacity[p] BY <1>9, <2>0
    <3>2. Len(new[Free]) = f + 1 /\ Len(new[Used]) = u - 1 BY <1>7, <1>8
    <3> HIDE DEF f, u
    <3> QED BY <3>1, <3>2
  <2>2. Members(new[Free]) \cup Members(new[Used]) = Idx(p) BY <1>1, <1>2, <1>5, <1>11 DEF PoolKept
  <2>3. \A j : <<p, j>> \in us \ {b} <=> <<p, j>> \in us /\ j # i BY <1>1
  <2>4. Members(new[Used]) = {j \in Idx(p) : <<p, j>> \in us \ {b}}
        BY <1>2, <1>11, <2>3 DEF PoolKept
  <2> QED BY <1>8, <2>1, <2>2, <2>4 DEF PoolKept
<1>13. \A c \in Places : c[1] # p => (c \in us <=> c \in us \ {b}) BY <1>1
<1>14. PoolsKept([ls EXCEPT ![p] = new], us \ {b})
       BY <1>1, <1>12, <1>13, OnePool
<1>15. GiveBlock(ls, b) = [ls EXCEPT ![p] = new] BY DEF GiveBlock, new, mid, first, l, i, p
<1> QED BY <1>14, <1>15

-----------------------------------------------------------------------------
(* The users *)

Own(u) == BlockOf(ptr[u])

\* Each user that has a pointer has one to a block that has the room it asked for,
\* and the blocks used are those, one for each.
UsersKept ==
    /\ room \in [User -> 0 .. MaxAsked]
    /\ ptr = [u \in User |-> ptr[u]]
    /\ \A u \in Held : \E b \in Places : ptr[u] = PtrTo(b[1], b[2]) /\ room[u] <= b[1] - Hdr
    /\ used = {Own(u) : u \in Held}
    /\ \A u, v \in Held : Own(u) = Own(v) => u = v
    /\ IsFiniteSet(Held)

HeapInv == PoolsKept(lists, used) /\ memory \in [Block -> Content] /\ UsersKept

\* The block a user has.
LEMMA BlockOwned ==
    ASSUME UsersKept, NEW u \in Held
    PROVE  /\ Own(u) \in Places /\ Own(u) \in Block /\ Own(u) \in used
           /\ ptr[u] = PtrTo(Own(u)[1], Own(u)[2]) /\ ptr[u] # NULL
           /\ ptr[u].pool = Own(u)[1] /\ UserRoom(ptr[u]) = Own(u)[1] - Hdr
           /\ room[u] <= UserRoom(ptr[u]) /\ room[u] \in 0 .. MaxAsked
<1>1. PICK b \in Places : ptr[u] = PtrTo(b[1], b[2]) /\ room[u] <= b[1] - Hdr
      BY DEF UsersKept
<1>2. Own(u) = b /\ ptr[u].pool = b[1] /\ UserRoom(ptr[u]) = b[1] - Hdr /\ ptr[u] # NULL
      BY <1>1, PointerOf DEF Own
<1>3. Own(u) \in used BY DEF UsersKept
<1>4. room[u] \in 0 .. MaxAsked BY DEF UsersKept, Held
<1> QED BY <1>1, <1>2, <1>3, <1>4 DEF Places

\* A user is given the block b, instead of the one it may have had.
LEMMA UserGains ==
    ASSUME UsersKept, NEW u \in User, NEW s \in 0 .. MaxAsked, NEW b \in Places,
           b \notin used, s <= b[1] - Hdr,
           ptr' = [ptr EXCEPT ![u] = PtrTo(b[1], b[2])],
           room' = [room EXCEPT ![u] = s],
           used' = {x \in used : u \in Held => x # Own(u)} \cup {b}
    PROVE  /\ UsersKept'
           /\ Held' = Held \cup {u} /\ Own(u)' = b
           /\ \A v \in Held \ {u} : Own(v)' = Own(v)
<1>1. room' \in [User -> 0 .. MaxAsked] /\ room'[u] = s /\ \A v \in User \ {u} : room'[v] = room[v]
      BY DEF UsersKept
<1>2. /\ ptr = [v \in User |-> ptr[v]]
      /\ ptr' = [v \in User |-> ptr'[v]]
      /\ ptr'[u] = PtrTo(b[1], b[2]) /\ \A v \in User \ {u} : ptr'[v] = ptr[v]
  <2>1. ptr = [v \in User |-> ptr[v]] BY DEF UsersKept
  <2> QED BY <2>1
<1>3. ptr'[u] # NULL /\ Own(u)' = b BY <1>2, PointerOf DEF Own
<1>4. Held' = Held \cup {u} BY <1>2, <1>3 DEF Held
<1>5. \A v \in Held \ {u} : v \in User /\ Own(v)' = Own(v) BY <1>2 DEF Own, Held
<1>6. ASSUME NEW v \in Held'
      PROVE  \E c \in Places : ptr'[v] = PtrTo(c[1], c[2]) /\ room'[v] <= c[1] - Hdr
  <2>1. CASE v = u BY <1>1, <1>2, <2>1
  <2>2. CASE v # u
    <3>1. v \in Held /\ v \in User BY <1>4, <2>2 DEF Held
    <3>2. PICK c \in Places : ptr[v] = PtrTo(c[1], c[2]) /\ room[v] <= c[1] - Hdr
          BY <3>1 DEF UsersKept
    <3> QED BY <1>1, <1>2, <2>2, <3>1, <3>2
  <2> QED BY <2>1, <2>2
<1>7. \A v \in Held : Own(v) \in used BY BlockOwned
<1>8. ASSUME NEW v \in Held', NEW w \in Held', Own(v)' = Own(w)' PROVE v = w
  <2>1. \A x \in Held : x # u => Own(x)' # b BY <1>5, <1>7
  <2>2. CASE v = u \/ w = u BY <1>3, <1>4, <1>8, <2>1, <2>2
  <2>3. CASE v # u /\ w # u
    <3>1. v \in Held /\ w \in Held BY <1>4, <2>3
    <3>2. Own(v) = Own(w) BY <1>5, <1>8, <2>3, <3>1
    <3> QED BY <3>1, <3>2 DEF UsersKept
  <2> QED BY <2>2, <2>3
<1>9. used' = {Own(v)' : v \in Held'}
  <2>1. \A x \in used : (u \in Held => x # Own(u)) => \E v \in Held \ {u} : x = Own(v)
    <3>1. \A x \in used : \E v \in Held : x = Own(v) BY DEF UsersKept
    <3> QED BY <3>1
  <2>2. \A v \in Held \ {u} : Own(v) \in used /\ (u \in Held => Own(v) # Own(u))
    <3>1. \A v, w \in Held : Own(v) = Own(w) => v = w BY DEF UsersKept
    <3> QED BY <1>7, <3>1
  <2>3. \A x : x \in used' <=> x = b \/ \E v \in Held \ {u} : x = Own(v) BY <2>1, <2>2
  <2>4. \A x : (\E v \in Held' : x = Own(v)') <=> x = b \/ \E v \in Held \ {u} : x = Own(v)
        BY <1>3, <1>4, <1>5
  <2> DEFINE mine == {Own(v)' : v \in Held'}
  <2>5. \A x : x \in mine <=> \E v \in Held' : x = Own(v)' OBVIOUS
  <2> HIDE DEF mine
  <2>6. used' = mine BY <2>3, <2>4, <2>5
  <2> QED BY <2>6 DEF mine
<1>10. IsFiniteSet(Held')
  <2>1. IsFiniteSet(Held) BY DEF UsersKept
  <2> QED BY <1>4, <2>1, FS_AddElement
<1> QED BY <1>1, <1>2, <1>3, <1>4, <1>5, <1>6, <1>8, <1>9, <1>10 DEF UsersKept

-----------------------------------------------------------------------------
(* The invariant *)

\* At the start every block is free.
LEMMA HeapInit == Init => HeapInv
<1> SUFFICES ASSUME Init PROVE HeapInv OBVIOUS
<1>1. ASSUME NEW p \in Pools PROVE PoolKept(lists[p], p, used)
  <2> DEFINE c == Capacity[p]
             s == [k \in 1 .. c |-> k - 1]
             l == lists[p]
  <2>1. c \in Nat /\ Idx(p) = 0 .. c - 1 BY AllocAssumption DEF Idx
  <2>2. l = [n \in Two |-> IF n = Free THEN s ELSE <<>>] BY DEF Init, Two
  <2> HIDE DEF c, l
  <2>3. s \in Seq(Idx(p)) /\ Len(s) = c
    <3>1. s \in [1 .. c -> Idx(p)] BY <2>1
    <3> HIDE DEF s
    <3> QED BY <2>1, <3>1, LenProperties
  <2>4. Distinct(s)
    <3>1. \A k \in 1 .. Len(s) : s[k] = k - 1 BY <2>3
    <3> HIDE DEF s
    <3> QED BY <3>1 DEF Distinct
  <2>5. Members(s) = Idx(p)
    <3>1. Members(s) \subseteq Idx(p) BY <2>3, MembersEmpty
    <3>2. ASSUME NEW i \in Idx(p) PROVE i \in Members(s)
      <4>1. i + 1 \in 1 .. Len(s) /\ s[i + 1] = i BY <2>1, <2>3
      <4> QED BY <4>1 DEF Members
    <3> QED BY <3>1, <3>2
  <2>6. l[Free] = s /\ l[Used] = <<>> BY <2>2 DEF Two, Free, Used
  <2> HIDE DEF s
  <2>7. Members(l[Used]) = {} /\ Len(l[Used]) = 0 /\ Distinct(l[Used]) BY <2>6 DEF Members, Distinct
  <2>8. l \in [Two -> Seq(Idx(p))]
    <3>1. s \in Seq(Idx(p)) /\ <<>> \in Seq(Idx(p)) BY <2>3
    <3> QED BY <2>2, <3>1
  <2>9. ListsOf(l, Two, Idx(p))
    <3>1. \A n \in Two : Distinct(l[n]) BY <2>4, <2>6, <2>7 DEF Two
    <3>2. \A n, m \in Two : n # m => Members(l[n]) \cap Members(l[m]) = {} BY <2>7 DEF Two
    <3> QED BY <2>8, <3>1, <3>2 DEF ListsOf
  <2>10. used = {} BY DEF Init
  <2>11. Len(l[Free]) + Len(l[Used]) = Capacity[p] BY <2>1, <2>3, <2>6, <2>7 DEF c
  <2> QED BY <2>5, <2>6, <2>7, <2>9, <2>10, <2>11 DEF PoolKept, l
<1>2. lists = [p \in Pools |-> lists[p]] BY DEF Init
<1>3. PoolsKept(lists, used) BY <1>1, <1>2 DEF PoolsKept, Init
<1>4. memory \in [Block -> Content] BY DEF Init
<1>5. Held = {} BY DEF Init, Held
<1>6. UsersKept
  <2>1. room \in [User -> 0 .. MaxAsked] /\ ptr = [u \in User |-> ptr[u]] /\ used = {}
        BY AllocAssumption DEF Init
  <2>2. IsFiniteSet(Held) BY <1>5, FS_EmptySet
  <2> QED BY <1>5, <2>1, <2>2 DEF UsersKept
<1> QED BY <1>3, <1>4, <1>6 DEF HeapInv

\* alloc() gives a user that has none a block that nobody has.
LEMMA AllocStep ==
    ASSUME HeapInv, NEW u \in User, NEW s \in 1 .. MaxAsked, Alloc(u, s)
    PROVE  /\ HeapInv'
           /\ u \notin Held /\ Held' = Held \cup {u} /\ Own(u)' \in Block
           /\ \A v \in Held : Own(v)' = Own(v)
<1> DEFINE p == PoolFor(s)
           b == <<p, Head(lists[p][Free])>>
<1>1. p \in Pools /\ s + Hdr <= p /\ lists[p][Free] # <<>>
  <2>1. s \in Nat /\ PoolFor(s) # 0 BY DEF Alloc
  <2> QED BY <2>1, PoolForFinds DEF Exhausted
<1>2. /\ lists' = [lists EXCEPT ![p] = Moved(@, Free, Used)] /\ used' = used \cup {b}
      /\ ptr' = [ptr EXCEPT ![u] = PtrTo(p, Head(lists[p][Free]))]
      /\ room' = [room EXCEPT ![u] = s] /\ memory' = memory
      BY DEF Alloc, TakeBlock
<1>3. u \notin Held BY DEF Alloc, Held
<1> HIDE DEF p
<1>4. b \in Places /\ b \in Block /\ b \notin used /\ PoolsKept(lists', used')
  <2>1. PoolsKept(lists, used) BY DEF HeapInv
  <2> QED BY <1>1, <1>2, <2>1, Taken
<1>5. b[1] = p /\ b[2] = Head(lists[p][Free]) OBVIOUS
<1> HIDE DEF b
<1>6. s \in 0 .. MaxAsked /\ s <= b[1] - Hdr
  <2>1. p \in Nat BY <1>1, PoolSizes
  <2> QED BY <1>1, <1>5, <2>1, PoolSizes
<1>7. used' = {x \in used : u \in Held => x # Own(u)} \cup {b} BY <1>2, <1>3
<1>8. UsersKept' /\ Held' = Held \cup {u} /\ Own(u)' = b /\ \A v \in Held \ {u} : Own(v)' = Own(v)
  <2>1. UsersKept BY DEF HeapInv
  <2> QED BY <1>2, <1>4, <1>5, <1>6, <1>7, <2>1, UserGains
<1>9. HeapInv' BY <1>2, <1>4, <1>8 DEF HeapInv
<1> QED BY <1>3, <1>4, <1>8, <1>9

\* A user writes into its own block.
LEMMA WriteStep ==
    ASSUME HeapInv, NEW u \in User, NEW c \in Content, Write(u, c)
    PROVE  HeapInv' /\ u \in Held /\ Held' = Held /\ \A v : Own(v)' = Own(v)
<1>1. u \in Held BY DEF Write, Held
<1>2. Held' = Held /\ \A v : Own(v)' = Own(v) BY DEF Write, Held, Own
<1>3. memory' \in [Block -> Content] BY DEF Write, HeapInv
<1>4. PoolsKept(lists, used)' /\ UsersKept' BY <1>2 DEF Write, HeapInv, UsersKept
<1> QED BY <1>1, <1>2, <1>3, <1>4 DEF HeapInv

\* realloc() finds that the block is large enough.
LEMMA StaysStep ==
    ASSUME HeapInv, NEW u \in User, NEW s \in MoreRoom(u), ReallocStays(u, s)
    PROVE  /\ HeapInv' /\ u \in Held /\ Held' = Held /\ \A v : Own(v)' = Own(v)
           /\ s \in 0 .. MaxAsked /\ s >= room[u]
<1>1. u \in Held BY DEF ReallocStays, Held
<1>2. Held' = Held /\ \A v : Own(v)' = Own(v) BY DEF ReallocStays, Held, Own
<1>3. room[u] \in 0 .. MaxAsked BY <1>1, BlockOwned DEF HeapInv
<1>4. s \in 0 .. MaxAsked /\ s >= room[u] BY <1>3, AllocAssumption DEF MoreRoom
<1>5. room' \in [User -> 0 .. MaxAsked] /\ room'[u] = s /\ \A v \in User \ {u} : room'[v] = room[v]
  <2>1. room \in [User -> 0 .. MaxAsked] BY DEF HeapInv, UsersKept
  <2> QED BY <1>4, <2>1 DEF ReallocStays
<1>6. ASSUME NEW v \in Held
      PROVE  \E b \in Places : ptr[v] = PtrTo(b[1], b[2]) /\ room'[v] <= b[1] - Hdr
  <2>1. PICK b \in Places : ptr[v] = PtrTo(b[1], b[2]) /\ room[v] <= b[1] - Hdr
        BY DEF HeapInv, UsersKept
  <2>2. room'[v] <= b[1] - Hdr
    <3>1. CASE v = u
      <4>1. UserRoom(ptr[u]) = b[1] - Hdr BY <2>1, <3>1, PointerOf
      <4>2. UserRoom(ptr[u]) >= s BY DEF ReallocStays
      <4>3. b[1] - Hdr \in Int BY BlockOfPool, PoolSizes
      <4> QED BY <1>4, <1>5, <3>1, <4>1, <4>2, <4>3
    <3>2. CASE v # u BY <1>5, <2>1, <3>2 DEF Held
    <3> QED BY <3>1, <3>2
  <2> QED BY <2>1, <2>2
<1>7. UsersKept'
  <2>1. ptr' = ptr /\ used' = used BY DEF ReallocStays
  <2>2. /\ ptr = [v \in User |-> ptr[v]] /\ used = {Own(v) : v \in Held}
        /\ \A v, w \in Held : Own(v) = Own(w) => v = w
        /\ IsFiniteSet(Held)
        BY DEF HeapInv, UsersKept
  <2> QED BY <1>2, <1>5, <1>6, <2>1, <2>2 DEF UsersKept
<1>8. memory' \in [Block -> Content] /\ PoolsKept(lists, used)' BY DEF ReallocStays, HeapInv
<1> QED BY <1>1, <1>2, <1>4, <1>7, <1>8 DEF HeapInv

\* realloc() moves the content to a larger block and gives the old one back.
LEMMA MovesStep ==
    ASSUME HeapInv, NEW u \in User, NEW s \in MoreRoom(u), ReallocMoves(u, s)
    PROVE  /\ HeapInv' /\ u \in Held /\ Held' = Held
           /\ \A v \in Held \ {u} : Own(v)' = Own(v) /\ Own(v)' # Own(u)'
           /\ memory' = [memory EXCEPT ![Own(u)'] = memory[Own(u)]]
           /\ Own(u)' \in Block
           /\ room' = [room EXCEPT ![u] = s]
           /\ s \in 0 .. MaxAsked /\ s >= room[u]
<1> DEFINE p == PoolFor(s)
           b == <<p, Head(lists[p][Free])>>
           ls == [lists EXCEPT ![p] = Moved(@, Free, Used)]
<1>1. u \in Held BY DEF ReallocMoves, Held
<1>2. room[u] \in 0 .. MaxAsked /\ Own(u) \in used BY <1>1, BlockOwned DEF HeapInv
<1>3. s \in 0 .. MaxAsked /\ s >= room[u] BY <1>2, AllocAssumption DEF MoreRoom
<1>4. p \in Pools /\ s + Hdr <= p /\ lists[p][Free] # <<>>
  <2>1. s \in Nat /\ PoolFor(s) # 0 BY <1>3 DEF ReallocMoves
  <2> QED BY <2>1, PoolForFinds DEF Exhausted
<1>5. /\ lists' = GiveBlock(ls, Own(u))
      /\ used' = (used \cup {b}) \ {Own(u)}
      /\ memory' = [memory EXCEPT ![b] = memory[Own(u)]]
      /\ ptr' = [ptr EXCEPT ![u] = PtrTo(p, b[2])]
      /\ room' = [room EXCEPT ![u] = s]
      BY DEF ReallocMoves, Own
<1> HIDE DEF p
<1>6. b \in Places /\ b \in Block /\ b \notin used /\ PoolsKept(ls, used \cup {b})
  <2>1. PoolsKept(lists, used) BY DEF HeapInv
  <2> QED BY <1>4, <2>1, Taken
<1>7. b[1] = p /\ p \in Nat /\ s <= b[1] - Hdr
  <2>1. b[1] = p /\ p \in Nat BY <1>4, PoolSizes
  <2> QED BY <1>3, <1>4, <2>1, PoolSizes
<1> HIDE DEF b, ls
<1>8. PoolsKept(lists', used')
  <2>1. Own(u) \in used \cup {b} BY <1>2
  <2> QED BY <1>5, <1>6, <2>1, Given
<1>9. used' = {x \in used : u \in Held => x # Own(u)} \cup {b} BY <1>1, <1>2, <1>5, <1>6
<1>10. UsersKept' /\ Held' = Held /\ Own(u)' = b /\ \A v \in Held \ {u} : Own(v)' = Own(v)
  <2>1. UsersKept BY DEF HeapInv
  <2>2. ptr' = [ptr EXCEPT ![u] = PtrTo(b[1], b[2])] BY <1>5, <1>7
  <2>3. /\ UsersKept' /\ Held' = Held \cup {u} /\ Own(u)' = b
        /\ \A v \in Held \ {u} : Own(v)' = Own(v)
        BY <1>3, <1>5, <1>6, <1>7, <1>9, <2>1, <2>2, UserGains
  <2> QED BY <1>1, <2>3
<1>11. \A v \in Held : Own(v) \in used BY BlockOwned DEF HeapInv
<1>12. memory' \in [Block -> Content]
  <2>1. memory \in [Block -> Content] /\ Own(u) \in Block BY <1>1, BlockOwned DEF HeapInv
  <2> QED BY <1>5, <2>1
<1>13. HeapInv' BY <1>8, <1>10, <1>12 DEF HeapInv
<1>14. \A v \in Held \ {u} : Own(v)' = Own(v) /\ Own(v)' # Own(u)' BY <1>6, <1>10, <1>11
<1> QED BY <1>1, <1>3, <1>5, <1>6, <1>10, <1>13, <1>14

\* dealloc() gives a user's block back.
LEMMA DeallocStep ==
    ASSUME HeapInv, NEW u \in User, Dealloc(u)
    PROVE  HeapInv' /\ u \in Held /\ Held' = Held \ {u} /\ \A v \in Held \ {u} : Own(v)' = Own(v)
<1>1. u \in Held BY DEF Dealloc, Held
<1>2. Own(u) \in used BY <1>1, BlockOwned DEF HeapInv
<1>3. /\ lists' = GiveBlock(lists, Own(u)) /\ used' = used \ {Own(u)}
      /\ ptr' = [ptr EXCEPT ![u] = NULL] /\ room' = [room EXCEPT ![u] = 0] /\ memory' = memory
      BY DEF Dealloc, Own
<1>4. PoolsKept(lists', used')
  <2>1. PoolsKept(lists, used) BY DEF HeapInv
  <2> QED BY <1>2, <1>3, <2>1, Given
<1>5. ptr = [v \in User |-> ptr[v]] /\ room \in [User -> 0 .. MaxAsked] BY DEF HeapInv, UsersKept
<1>6. ptr' = [v \in User |-> ptr'[v]] /\ ptr'[u] = NULL /\ \A v \in User \ {u} : ptr'[v] = ptr[v]
      BY <1>3, <1>5
<1>7. room' \in [User -> 0 .. MaxAsked] /\ \A v \in User \ {u} : room'[v] = room[v]
      BY <1>3, <1>5, AllocAssumption
<1>8. Held' = Held \ {u} BY <1>6 DEF Held
<1>9. \A v \in Held \ {u} : v \in User /\ Own(v)' = Own(v) BY <1>6 DEF Own, Held
<1>10. \A v, w \in Held : Own(v) = Own(w) => v = w BY DEF HeapInv, UsersKept
<1>11. \A v \in Held' : \E b \in Places : ptr'[v] = PtrTo(b[1], b[2]) /\ room'[v] <= b[1] - Hdr
  <2>1. \A v \in Held : \E b \in Places : ptr[v] = PtrTo(b[1], b[2]) /\ room[v] <= b[1] - Hdr
        BY DEF HeapInv, UsersKept
  <2> QED BY <1>6, <1>7, <1>8, <1>9, <2>1
<1>12. used' = {Own(v)' : v \in Held'}
  <2>1. used = {Own(v) : v \in Held} BY DEF HeapInv, UsersKept
  <2>2. \A x : x \in used' <=> \E v \in Held \ {u} : x = Own(v) BY <1>1, <1>3, <1>10, <2>1
  <2> DEFINE mine == {Own(v)' : v \in Held'}
  <2>3. \A x : x \in mine <=> \E v \in Held' : x = Own(v)' OBVIOUS
  <2> HIDE DEF mine
  <2>4. used' = mine BY <1>8, <1>9, <2>2, <2>3
  <2> QED BY <2>4 DEF mine
<1>13. IsFiniteSet(Held')
  <2>1. IsFiniteSet(Held) BY DEF HeapInv, UsersKept
  <2> QED BY <1>8, <2>1, FS_RemoveElement
<1>14. UsersKept'
  <2>1. \A v, w \in Held' : Own(v)' = Own(w)' => v = w BY <1>8, <1>9, <1>10
  <2> QED BY <1>6, <1>7, <1>11, <1>12, <1>13, <2>1 DEF UsersKept
<1>15. memory' \in [Block -> Content] BY <1>3 DEF HeapInv
<1> QED BY <1>1, <1>4, <1>8, <1>9, <1>14, <1>15 DEF HeapInv

\* Blocks, lists, flags and pointers agree, whatever the users ask for.
THEOREM HeapInvariance == Spec => []HeapInv
<1>1. Init => HeapInv BY HeapInit
<1>2. HeapInv /\ [Next]_vars => HeapInv'
  <2> SUFFICES ASSUME HeapInv, [Next]_vars PROVE HeapInv' OBVIOUS
  <2>1. ASSUME NEW u \in User, NEW s \in 1 .. MaxAsked, Alloc(u, s) PROVE HeapInv'
        BY <2>1, AllocStep
  <2>2. ASSUME NEW u \in User, NEW s \in MoreRoom(u), ReallocStays(u, s) PROVE HeapInv'
        BY <2>2, StaysStep
  <2>3. ASSUME NEW u \in User, NEW s \in MoreRoom(u), ReallocMoves(u, s) PROVE HeapInv'
        BY <2>3, MovesStep
  <2>4. ASSUME NEW u \in User, NEW c \in Content, Write(u, c) PROVE HeapInv'
        BY <2>4, WriteStep
  <2>5. ASSUME NEW u \in User, Dealloc(u) PROVE HeapInv'
        BY <2>5, DeallocStep
  <2>6. CASE UNCHANGED vars
    <3>1. PoolsKept(lists, used)' /\ memory' \in [Block -> Content] BY <2>6 DEF vars, HeapInv
    <3>2. UsersKept' BY <2>6 DEF vars, HeapInv, UsersKept, Held, Own
    <3> QED BY <3>1, <3>2 DEF HeapInv
  <2> QED BY <2>1, <2>2, <2>3, <2>4, <2>5, <2>6 DEF Next
<1> QED BY <1>1, <1>2, PTL DEF Spec

\* As many blocks are used as users have one.
LEMMA SameNumber == ASSUME UsersKept PROVE Cardinality(used) = Cardinality(Held)
<1> DEFINE f == [u \in Held |-> Own(u)]
<1>1. used = {Own(u) : u \in Held} /\ (\A u, v \in Held : Own(u) = Own(v) => u = v)
      /\ IsFiniteSet(Held)
      BY DEF UsersKept
<1>2. f \in Bijection(Held, used)
  <2>1. f \in [Held -> used] BY <1>1
  <2>2. \A u, v \in Held : f[u] = f[v] => u = v BY <1>1
  <2>3. \A b \in used : \E u \in Held : f[u] = b BY <1>1
  <2> HIDE DEF f
  <2> QED BY <2>1, <2>2, <2>3 DEF Bijection, Injection, Surjection, IsInjective
<1>3. ExistsBijection(Held, used) BY <1>2 DEF ExistsBijection
<1> QED BY <1>1, <1>3, FS_Bijection

\* Pointers lead to blocks, each block is in one place and has one user.
THEOREM AllocTheorem == Spec => []AllocInv
<1>1. ASSUME HeapInv PROVE AllocInv
  <2>1. ASSUME NEW p \in Pools
        PROVE  /\ \A l \in {Free, Used} : lists[p][l] \in Seq(Idx(p))
               /\ Len(lists[p][Free]) + Len(lists[p][Used]) = Capacity[p]
               /\ Members(lists[p][Free]) \cup Members(lists[p][Used]) = Idx(p)
               /\ Members(lists[p][Used]) = {i \in Idx(p) : <<p, i>> \in used}
    <3>1. PoolKept(lists[p], p, used) BY <1>1 DEF HeapInv, PoolsKept
    <3> QED BY <3>1 DEF PoolKept, ListsOf, Two
  <2>2. used \subseteq Block BY <1>1 DEF HeapInv, PoolsKept, Places
  <2>3. memory \in [Block -> Content] /\ room \in [User -> 0 .. MaxAsked] /\ UsersKept
        BY <1>1 DEF HeapInv, UsersKept
  <2>4. \A u \in User : ptr[u] = NULL \/ BlockOf(ptr[u]) \in Block
        BY <2>3, BlockOwned DEF Held, Own
  <2>5. used = {BlockOf(ptr[u]) : u \in Held} BY <2>3 DEF UsersKept, Own
  <2>6. Cardinality(used) = Cardinality(Held) BY <2>3, SameNumber
  <2>7. TypeOK BY <2>1, <2>2, <2>3, <2>4 DEF TypeOK
  <2>8. NoLeak BY <2>1, <2>5, <2>6 DEF NoLeak
  <2> QED BY <2>7, <2>8 DEF AllocInv
<1> QED BY <1>1, HeapInvariance, PTL

-----------------------------------------------------------------------------
(* The bytes of a block *)

\* Multiples keep their order and their distance.
LEMMA Multiples ==
    ASSUME NEW i \in Nat, NEW j \in Nat, NEW d \in Nat
    PROVE  /\ i * d \in Nat
           /\ j <= i => j * d <= i * d
           /\ j > i => j * d >= i * d + d
<1>1. i * d \in Nat /\ j * d \in Nat OBVIOUS
<1>2. j <= i => j * d <= i * d BY Z3
<1>3. j > i => j * d >= i * d + d BY Z3
<1> QED BY <1>1, <1>2, <1>3

\* The bytes asked for lie in their block, behind its header.
LEMMA BytesWithin ==
    ASSUME UsersKept, NEW u \in Held, NEW x \in Bytes(ptr[u], room[u])
    PROVE  LET b == Own(u)
               d == b[1] + Flag
           IN  \E k \in Nat : /\ x = <<b[1], k>>
                              /\ b[2] * d + Flag + Hdr <= k /\ k < b[2] * d + d
<1> DEFINE b == Own(u)
           d == b[1] + Flag
           m == b[2] * d
<1>1. /\ b \in Places /\ ptr[u] = PtrTo(b[1], b[2]) /\ room[u] \in 0 .. MaxAsked
      /\ room[u] <= b[1] - Hdr
      BY BlockOwned
<1>2. b[1] \in Nat /\ b[2] \in Nat BY <1>1, BlockOfPool
<1>3. ptr[u].pool = b[1] /\ ptr[u].at = m + Flag + Hdr
  <2>1. ptr[u].pool = b[1] /\ ptr[u].at = DataAt(b[1], b[2]) + Hdr BY <1>1, PointerOf
  <2> QED BY <2>1 DEF DataAt
<1>4. PICK k \in ptr[u].at .. ptr[u].at + room[u] - 1 : x = <<ptr[u].pool, k>> BY DEF Bytes
<1>5. d \in Nat /\ m \in Nat /\ d = b[1] + Flag
  <2>1. d \in Nat BY <1>2, PoolSizes
  <2> HIDE DEF d
  <2> QED BY <1>2, <2>1, Multiples DEF d
<1>6. k \in m + Flag + Hdr .. m + Flag + Hdr + room[u] - 1 BY <1>3, <1>4
<1>7. x = <<b[1], k>> BY <1>3, <1>4
<1> HIDE DEF m, d, b
<1>8. k \in Nat /\ m + Flag + Hdr <= k /\ k < m + d
  <2> DEFINE r == room[u]
  <2>1. r \in Nat /\ r <= b[1] - Hdr BY <1>1, AllocAssumption
  <2>2. k \in m + Flag + Hdr .. m + Flag + Hdr + r - 1 BY <1>6
  <2> HIDE DEF r
  <2> QED BY <1>2, <1>5, <2>1, <2>2, PoolSizes
<1> QED BY <1>7, <1>8 DEF m, d, b

\* A user's bytes are within the buffers of its pool, outside every flag and
\* header, and are nobody else's.
THEOREM OwnRoomTheorem == Spec => []OwnRoom
<1>1. ASSUME UsersKept PROVE OwnRoom
  <2> SUFFICES ASSUME NEW u \in Held
               PROVE  LET p == ptr[u].pool
                          mine == Bytes(ptr[u], room[u])
                      IN  /\ mine \subseteq {<<p, k>> : k \in 0 .. Capacity[p] * (p + Flag) - 1}
                          /\ \A i \in Idx(p) : mine \cap {<<p, k>> : k \in DataAt(p, i) - Flag .. DataAt(p, i) + Hdr - 1} = {}
                          /\ \A v \in Held \ {u} : mine \cap Bytes(ptr[v], room[v]) = {}
      BY DEF OwnRoom
  <2> DEFINE b == Own(u)
             p == b[1]
             j == b[2]
             d == p + Flag
             mine == Bytes(ptr[u], room[u])
  <2>1. b \in Places /\ ptr[u].pool = p BY <1>1, BlockOwned
  <2>2. b = <<p, j>> /\ p \in Pools /\ p \in Nat /\ j \in Idx(p) /\ j \in Nat BY <2>1, BlockOfPool
  <2>3. d \in Nat /\ d = p + Flag BY <2>2, PoolSizes
  <2>4. \A x \in mine : \E k \in Nat : x = <<p, k>> /\ j * d + Flag + Hdr <= k /\ k < j * d + d
        BY <1>1, BytesWithin
  <2>5. Capacity[p] \in Nat /\ j < Capacity[p]
    <3>1. Capacity[p] \in Nat BY <2>2, AllocAssumption
    <3> QED BY <2>2, <3>1 DEF Idx
  <2> HIDE DEF b, p, j, d, mine
  <2>6. j * d \in Nat BY <2>2, <2>3, Multiples
  <2>7. mine \subseteq {<<p, k>> : k \in 0 .. Capacity[p] * d - 1}
    <3>1. Capacity[p] * d \in Nat /\ Capacity[p] * d >= j * d + d
          BY <2>2, <2>3, <2>5, Multiples
    <3>2. ASSUME NEW k \in Nat, k < j * d + d PROVE k \in 0 .. Capacity[p] * d - 1
          BY <2>3, <2>6, <3>1, <3>2
    <3> QED BY <2>4, <3>2
  <2>8. ASSUME NEW i \in Idx(p)
        PROVE  mine \cap {<<p, k>> : k \in DataAt(p, i) - Flag .. DataAt(p, i) + Hdr - 1} = {}
    <3>1. i \in Nat BY <2>5 DEF Idx
    <3>2. i * d \in Nat BY <2>3, <3>1, Multiples
    <3>3. DataAt(p, i) = i * d + Flag BY <2>3 DEF DataAt
    <3>4. ASSUME NEW k \in Nat, j * d + Flag + Hdr <= k, k < j * d + d,
                 k \in i * d .. i * d + Flag + Hdr - 1
          PROVE  FALSE
      <4>1. CASE i <= j
        <5>1. i * d <= j * d BY <2>2, <2>3, <3>1, <4>1, Multiples
        <5> QED BY <2>6, <3>2, <3>4, <5>1, PoolSizes
      <4>2. CASE i > j
        <5>1. i * d >= j * d + d BY <2>2, <2>3, <3>1, <4>2, Multiples
        <5> QED BY <2>3, <2>6, <3>2, <3>4, <5>1, PoolSizes
      <4> QED BY <2>2, <3>1, <4>1, <4>2
    <3>5. /\ DataAt(p, i) - Flag = i * d
          /\ DataAt(p, i) + Hdr - 1 = i * d + Flag + Hdr - 1
          BY <3>2, <3>3, PoolSizes
    <3>6. ASSUME NEW x \in mine, NEW k \in i * d .. i * d + Flag + Hdr - 1 PROVE x # <<p, k>>
      <4>1. PICK n \in Nat : x = <<p, n>> /\ j * d + Flag + Hdr <= n /\ n < j * d + d BY <2>4
      <4>2. n # k BY <3>4, <4>1
      <4> QED BY <4>1, <4>2
    <3> QED BY <3>5, <3>6
  <2>9. ASSUME NEW v \in Held \ {u} PROVE mine \cap Bytes(ptr[v], room[v]) = {}
    <3> DEFINE c == Own(v)
               i == c[2]
    <3>1. c \in Places /\ c # b BY <1>1, BlockOwned DEF UsersKept, b
    <3>2. c = <<c[1], i>> /\ i \in Nat BY <3>1, BlockOfPool
    <3>3. ASSUME NEW x \in Bytes(ptr[v], room[v])
          PROVE  \E k \in Nat : x = <<c[1], k>> /\ i * (c[1] + Flag) + Flag + Hdr <= k
                                /\ k < i * (c[1] + Flag) + (c[1] + Flag)
          BY <1>1, BytesWithin
    <3> HIDE DEF c, i
    <3>4. CASE c[1] # p BY <2>4, <3>3, <3>4
    <3>5. CASE c[1] = p
      <4>1. i # j /\ i * d \in Nat BY <2>2, <2>3, <3>1, <3>2, <3>5, Multiples
      <4>2. \A x \in Bytes(ptr[v], room[v]) :
                \E k \in Nat : x = <<p, k>> /\ i * d + Flag + Hdr <= k /\ k < i * d + d
            BY <2>3, <3>3, <3>5
      <4>3. i * d >= j * d + d \/ j * d >= i * d + d
        <5>1. CASE i > j BY <2>2, <2>3, <3>2, <5>1, Multiples
        <5>2. CASE j > i BY <2>2, <2>3, <3>2, <5>2, Multiples
        <5>3. i > j \/ j > i BY <2>2, <3>2, <4>1
        <5> QED BY <5>1, <5>2, <5>3
      <4>4. ASSUME NEW k \in Nat, j * d + Flag + Hdr <= k, k < j * d + d,
                   i * d + Flag + Hdr <= k, k < i * d + d
            PROVE  FALSE
            BY <2>3, <2>6, <4>1, <4>3, <4>4, PoolSizes
      <4>5. ASSUME NEW x \in mine, x \in Bytes(ptr[v], room[v]) PROVE FALSE
        <5>1. PICK k \in Nat : x = <<p, k>> /\ j * d + Flag + Hdr <= k /\ k < j * d + d
              BY <2>4
        <5>2. PICK n \in Nat : x = <<p, n>> /\ i * d + Flag + Hdr <= n /\ n < i * d + d
              BY <4>2, <4>5
        <5>3. k = n BY <5>1, <5>2
        <5> QED BY <4>4, <5>1, <5>2, <5>3
      <4> QED BY <4>5
    <3> QED BY <3>4, <3>5
  <2> QED BY <2>1, <2>3, <2>7, <2>8, <2>9 DEF mine
<1>2. HeapInv => UsersKept BY DEF HeapInv
<1> QED BY <1>1, <1>2, HeapInvariance, PTL

-----------------------------------------------------------------------------
(* The allocator implements Heap *)

\* What the user u sees of its buffer: the heap of the refinement.
View(u) == IF u \in Held THEN [room |-> room[u], content |-> memory[Own(u)]] ELSE NoBuffer
Views == [u \in User |-> View(u)]

\* A buffer is one of Heap's.
LEMMA ViewHeld ==
    ASSUME HeapInv, NEW u \in Held
    PROVE  /\ u \in User /\ View(u) \in H!Buffer /\ View(u) # NoBuffer
           /\ View(u).room = room[u] /\ View(u).content = memory[Own(u)]
           /\ View(u) = [room |-> room[u], content |-> memory[Own(u)]]
<1>1. UsersKept /\ memory \in [Block -> Content] BY DEF HeapInv
<1>2. Own(u) \in Block /\ room[u] \in 0 .. MaxAsked BY <1>1, BlockOwned
<1>3. View(u) = [room |-> room[u], content |-> memory[Own(u)]] BY DEF View
<1>4. View(u) \in H!Buffer BY <1>1, <1>2, <1>3 DEF H!Buffer
<1>5. View(u).room # NoBuffer.room
  <2>1. View(u).room \in 0 .. MaxAsked /\ NoBuffer.room = -1 BY <1>2, <1>3 DEF NoBuffer
  <2> QED BY <2>1, AllocAssumption
<1>6. u \in User BY DEF Held
<1> QED BY <1>3, <1>4, <1>5, <1>6

\* What a step leaves of the views of other users.
LEMMA OthersView ==
    ASSUME NEW u \in User, NEW v \in User, v # u,
           v \in Held <=> v \in Held', room'[v] = room[v],
           v \in Held => memory'[Own(v)'] = memory[Own(v)]
    PROVE  View(v)' = View(v)
BY DEF View, NoBuffer, NULL

\* Where only the view of u changes, the heap changes there.
LEMMA OneView ==
    ASSUME NEW u \in User, \A v \in User \ {u} : View(v)' = View(v)
    PROVE  Views[u] = View(u) /\ Views' = [Views EXCEPT ![u] = View(u)']
<1>1. Views = [v \in User |-> View(v)] /\ Views' = [v \in User |-> View(v)'] BY DEF Views
<1> QED BY <1>1

\* alloc(), realloc(), dealloc() and the users' writes do to the buffers what
\* Heap allows, and leave those of the others alone.
LEMMA HeapStep == ASSUME HeapInv, [Next]_vars PROVE [H!Next]_Views
<1>1. room \in [User -> 0 .. MaxAsked] /\ memory \in [Block -> Content]
      BY DEF HeapInv, UsersKept
<1>2. \A v \in Held : v \in User /\ Own(v) \in Block /\ Own(v) \in used
      BY BlockOwned DEF HeapInv, Held
<1>3. \A v, w \in Held : Own(v) = Own(w) => v = w BY DEF HeapInv, UsersKept
<1>4. ASSUME NEW u \in User, NEW s \in 1 .. MaxAsked, Alloc(u, s)
      PROVE  s \in 0 .. MaxAsked /\ H!Alloc(u, s)
  <2>1. /\ HeapInv' /\ u \notin Held /\ Held' = Held \cup {u}
        /\ Own(u)' \in Block /\ \A v \in Held : Own(v)' = Own(v)
        BY <1>4, AllocStep
  <2>2. room' = [room EXCEPT ![u] = s] /\ memory' = memory BY <1>4 DEF Alloc
  <2>3. \A v \in User \ {u} : View(v)' = View(v) BY <1>1, <2>1, <2>2, OthersView
  <2>4. View(u)' \in H!Buffer /\ View(u)'.room = s
    <3>1. View(u)' = [room |-> s, content |-> memory[Own(u)']] BY <1>1, <2>1, <2>2 DEF View
    <3>2. memory[Own(u)'] \in Content /\ s \in 0 .. MaxAsked BY <1>1, <2>1
    <3> QED BY <3>1, <3>2 DEF H!Buffer
  <2>5. View(u) = NoBuffer BY <2>1 DEF View
  <2>6. s \in 0 .. MaxAsked /\ s >= s OBVIOUS
  <2>7. Views[u] = NoBuffer /\ Views' = [Views EXCEPT ![u] = View(u)'] BY <2>3, <2>5, OneView
  <2>8. Views[u] = NoBuffer /\ \E b \in H!Buffer : b.room >= s /\ Views' = [Views EXCEPT ![u] = b]
        BY <2>4, <2>6, <2>7
  <2> QED BY <2>6, <2>8 DEF H!Alloc, Views, View, Own
<1>5. ASSUME NEW u \in User, NEW c \in Content, Write(u, c) PROVE H!Write(u)
  <2>1. HeapInv' /\ u \in Held /\ Held' = Held /\ \A v : Own(v)' = Own(v) BY <1>5, WriteStep
  <2>2. room' = room /\ memory' = [memory EXCEPT ![Own(u)] = c] BY <1>5 DEF Write, Own
  <2>3. ASSUME NEW v \in User \ {u} PROVE View(v)' = View(v)
    <3>1. v \in Held => memory'[Own(v)'] = memory[Own(v)] BY <1>1, <1>2, <1>3, <2>1, <2>2
    <3> QED BY <2>1, <2>2, <3>1, OthersView
  <2>4. View(u)' = [room |-> room[u], content |-> c]
    <3>1. memory'[Own(u)'] = c BY <1>1, <1>2, <2>1, <2>2
    <3> QED BY <2>1, <2>2, <3>1 DEF View
  <2>5. View(u) = [room |-> room[u], content |-> memory[Own(u)]] /\ View(u) # NoBuffer
        BY <2>1, ViewHeld
  <2>6. View(u)' = [View(u) EXCEPT !.content = c] BY <2>4, <2>5
  <2>7. Views[u] = View(u) /\ Views' = [Views EXCEPT ![u] = View(u)'] BY <2>3, OneView
  <2>8. Views[u] # NoBuffer /\ \E d \in Content : Views' = [Views EXCEPT ![u].content = d]
        BY <2>5, <2>6, <2>7
  <2> QED BY <2>8 DEF H!Write, Views, View, Own
<1>6. ASSUME NEW u \in User, NEW s, s \in 0 .. MaxAsked, s >= room[u],
             HeapInv', u \in Held, Held' = Held, room' = [room EXCEPT ![u] = s],
             memory'[Own(u)'] = memory[Own(u)], \A v \in User \ {u} : View(v)' = View(v)
      PROVE  H!Realloc(u, s)
  <2>1. View(u) = [room |-> room[u], content |-> memory[Own(u)]] /\ View(u) # NoBuffer
        BY <1>6, ViewHeld
  <2>2. View(u)' = [room |-> s, content |-> memory[Own(u)]] BY <1>1, <1>6 DEF View
  <2>3. View(u)' = [View(u) EXCEPT !.room = s] /\ View(u).room = room[u] BY <2>1, <2>2
  <2>4. Views[u] = View(u) /\ Views' = [Views EXCEPT ![u] = View(u)'] BY <1>6, OneView
  <2>5. s >= s /\ s >= Views[u].room BY <1>6, <2>3, <2>4
  <2>6. Views[u] # NoBuffer /\ Views' = [Views EXCEPT ![u].room = s] BY <2>1, <2>3, <2>4
  <2>7. \E r \in 0 .. MaxAsked : r >= s /\ r >= Views[u].room /\ Views' = [Views EXCEPT ![u].room = r]
        BY <1>6, <2>5, <2>6
  <2> QED BY <2>6, <2>7 DEF H!Realloc, Views, View, Own
<1>7. ASSUME NEW u \in User, NEW s \in MoreRoom(u), ReallocStays(u, s)
      PROVE  s \in 0 .. MaxAsked /\ H!Realloc(u, s)
  <2>1. /\ HeapInv' /\ u \in Held /\ Held' = Held /\ \A v : Own(v)' = Own(v)
        /\ s \in 0 .. MaxAsked /\ s >= room[u]
        BY <1>7, StaysStep
  <2>2. room' = [room EXCEPT ![u] = s] /\ memory' = memory BY <1>7 DEF ReallocStays
  <2>3. \A v \in User \ {u} : View(v)' = View(v) BY <1>1, <2>1, <2>2, OthersView
  <2> QED BY <1>6, <2>1, <2>2, <2>3
<1>8. ASSUME NEW u \in User, NEW s \in MoreRoom(u), ReallocMoves(u, s)
      PROVE  s \in 0 .. MaxAsked /\ H!Realloc(u, s)
  <2>1. /\ HeapInv' /\ u \in Held /\ Held' = Held
        /\ \A v \in Held \ {u} : Own(v)' = Own(v) /\ Own(v)' # Own(u)'
        /\ memory' = [memory EXCEPT ![Own(u)'] = memory[Own(u)]]
        /\ Own(u)' \in Block /\ room' = [room EXCEPT ![u] = s]
        /\ s \in 0 .. MaxAsked /\ s >= room[u]
        BY <1>8, MovesStep
  <2>2. memory'[Own(u)'] = memory[Own(u)] BY <1>1, <2>1
  <2>3. ASSUME NEW v \in User \ {u} PROVE View(v)' = View(v)
    <3>1. v \in Held => memory'[Own(v)'] = memory[Own(v)] BY <1>1, <1>2, <2>1
    <3> QED BY <1>1, <2>1, <3>1, OthersView
  <2> QED BY <1>6, <2>1, <2>2, <2>3
<1>9. ASSUME NEW u \in User, Dealloc(u) PROVE H!Dealloc(u)
  <2>1. HeapInv' /\ u \in Held /\ Held' = Held \ {u} /\ \A v \in Held \ {u} : Own(v)' = Own(v)
        BY <1>9, DeallocStep
  <2>2. room' = [room EXCEPT ![u] = 0] /\ memory' = memory BY <1>9 DEF Dealloc
  <2>3. \A v \in User \ {u} : View(v)' = View(v) BY <1>1, <2>1, <2>2, OthersView
  <2>4. View(u) # NoBuffer BY <2>1, ViewHeld
  <2>5. View(u)' = NoBuffer BY <2>1 DEF View, NoBuffer, NULL
  <2>6. Views[u] # NoBuffer /\ Views' = [Views EXCEPT ![u] = NoBuffer]
        BY <2>3, <2>4, <2>5, OneView
  <2> QED BY <2>6 DEF H!Dealloc, Views, View, Own
<1>10. CASE UNCHANGED vars
  <2>1. Views' = Views BY <1>10 DEF vars, Views, View, Own, Held, NoBuffer, NULL
  <2> QED BY <2>1
<1> QED BY <1>4, <1>5, <1>7, <1>8, <1>9, <1>10 DEF Next, H!Next

\* Heap is what the users of the allocator see: each buffer is its user's alone,
\* keeps what was written, and takes its content along when it grows.
THEOREM HeapTheorem == Spec => ImplementsHeap
<1>1. Init => H!Init
  <2> SUFFICES ASSUME Init PROVE H!Init OBVIOUS
  <2>1. Held = {} BY DEF Init, Held
  <2>2. Views = [u \in User |-> NoBuffer] BY <2>1 DEF Views, View
  <2> QED BY <2>2 DEF H!Init, Views, View, Own
<1>2. HeapInv /\ [Next]_vars => [H!Next]_Views BY HeapStep
<1>3. Spec => H!Init /\ [][H!Next]_Views BY <1>1, <1>2, HeapInvariance, PTL DEF Spec
<1>4. (H!Init /\ [][H!Next]_Views) => H!Spec BY DEF H!Spec, Views, View, Own
<1> QED BY <1>3, <1>4 DEF ImplementsHeap
-----------------------------------------------------------------------------
(* Timers: the order of _time_cmp *)

Timer == [deadline : Nat, idx : Nat, interval : Intervals \cup {Once}]

\* Where a deadline comes in the order: the seconds upwards, within one the
\* microseconds downwards.
Rank(d) == PerSecond * Sec(d) - Usec(d)

\* A time is its second and what is left of it.
LEMMA SecAndUsec ==
    ASSUME NEW d \in Nat
    PROVE  /\ Sec(d) \in Nat /\ Usec(d) \in 0 .. PerSecond - 1
           /\ d = PerSecond * Sec(d) + Usec(d)
<1>1. PerSecond \in Nat /\ PerSecond > 0 BY TimeAssumption
<1>2. d \div PerSecond \in Nat BY <1>1
<1>3. d % PerSecond \in 0 .. PerSecond - 1 BY <1>1
<1>4. d = PerSecond * (d \div PerSecond) + (d % PerSecond) BY <1>1
<1> QED BY <1>2, <1>3, <1>4 DEF Sec, Usec

\* A second more is at least PerSecond ticks more.
LEMMA SecondsApart ==
    ASSUME NEW p \in Nat, NEW a \in Nat, NEW b \in Nat, a < b
    PROVE  p * b >= p * a + p
<1>1. PICK c \in Nat : b = a + 1 + c
  <2>1. b - a - 1 \in Nat /\ b = a + 1 + (b - a - 1) OBVIOUS
  <2> QED BY <2>1
<1>2. p * c \in Nat BY Z3
<1>3. p * b = p * a + p + p * c BY <1>1, Z3
<1> QED BY <1>2, <1>3, Z3

\* Of two deadlines of different seconds the later one has the greater rank; of
\* two of one second, the earlier one.
LEMMA RankOrder ==
    ASSUME NEW d \in Nat, NEW e \in Nat, Rank(d) <= Rank(e)
    PROVE  /\ Sec(d) <= Sec(e)
           /\ Rank(d) = Rank(e) => d = e
<1> DEFINE a == PerSecond * Sec(d)
           b == PerSecond * Sec(e)
<1>1. Sec(d) \in Nat /\ Sec(e) \in Nat /\ PerSecond \in Nat BY SecAndUsec, TimeAssumption
<1>2. /\ Usec(d) \in 0 .. PerSecond - 1 /\ Usec(e) \in 0 .. PerSecond - 1
      /\ d = a + Usec(d) /\ e = b + Usec(e)
  BY SecAndUsec
<1>3. a \in Nat /\ b \in Nat BY <1>1, Z3
<1>4. a - Usec(d) <= b - Usec(e) BY DEF Rank
<1>5. Sec(e) < Sec(d) => a >= b + PerSecond BY <1>1, SecondsApart
<1>6. Sec(d) < Sec(e) => b >= a + PerSecond BY <1>1, SecondsApart
<1> HIDE DEF a, b
<1>7. Sec(d) <= Sec(e) BY <1>1, <1>2, <1>3, <1>4, <1>5
<1>8. ASSUME Rank(d) = Rank(e) PROVE d = e
  <2>1. a - Usec(d) = b - Usec(e) BY <1>8 DEF Rank, a, b
  <2>2. ~(Sec(d) < Sec(e)) BY <2>1, <1>1, <1>2, <1>3, <1>6
  <2>3. Sec(d) = Sec(e) BY <2>2, <1>1, <1>7
  <2>4. a = b BY <2>3 DEF a, b
  <2> QED BY <2>1, <2>4, <1>2, <1>3
<1> QED BY <1>7, <1>8

\* Ranks are integers.
LEMMA RankType == \A d \in Nat : Rank(d) \in Int
<1> SUFFICES ASSUME NEW d \in Nat PROVE Rank(d) \in Int OBVIOUS
<1>1. Sec(d) \in Nat /\ Usec(d) \in Int /\ PerSecond \in Nat BY SecAndUsec, TimeAssumption
<1>2. PerSecond * Sec(d) \in Int BY <1>1, Z3
<1> QED BY <1>1, <1>2 DEF Rank

\* A later time is of no earlier second.
LEMMA LaterSecond ==
    ASSUME NEW d \in Nat, NEW e \in Nat, d <= e
    PROVE  Sec(d) <= Sec(e)
<1> DEFINE a == PerSecond * Sec(d)
           b == PerSecond * Sec(e)
<1>1. Sec(d) \in Nat /\ Sec(e) \in Nat /\ PerSecond \in Nat BY SecAndUsec, TimeAssumption
<1>2. /\ Usec(d) \in 0 .. PerSecond - 1 /\ Usec(e) \in 0 .. PerSecond - 1
      /\ d = a + Usec(d) /\ e = b + Usec(e)
  BY SecAndUsec
<1>3. a \in Nat /\ b \in Nat BY <1>1, Z3
<1>4. Sec(e) < Sec(d) => a >= b + PerSecond BY <1>1, SecondsApart
<1> HIDE DEF a, b
<1> QED BY <1>1, <1>2, <1>3, <1>4

\* What an int can hold the conversion leaves alone.
LEMMA SmallEnough ==
    ASSUME NEW v \in Int, -IntMax <= v, v <= IntMax
    PROVE  ToInt(v) = v
<1>1. PICK m \in Nat : m = IntMax BY TimeAssumption
<1>2. PICK w \in Nat : w = v + m + 1 BY <1>1
<1>3. w < 2 * (m + 1) BY <1>1, <1>2
<1>4. PICK c \in Nat \ {0} : c = 2 * (m + 1) OBVIOUS
<1>5. w % c = w BY <1>3, <1>4, Z3
<1> QED BY <1>1, <1>2, <1>4, <1>5 DEF ToInt

\* Of timers near each other _time_cmp is the difference of the ranks, or of the
\* numbers of two of one deadline.
LEMMA CmpIsDifference ==
    ASSUME NEW l \in Timer, NEW r \in Timer, Near(l, r)
    PROVE  TimeCmp(l, r) = IF l.deadline = r.deadline THEN l.idx - r.idx
                           ELSE Rank(l.deadline) - Rank(r.deadline)
<1> PICK d, e : d = l.deadline /\ e = r.deadline OBVIOUS
<1>1. PICK d2, e2 : d2 = d - e + 2 * PerSecond /\ e2 = e - d + 2 * PerSecond OBVIOUS
<1>2. d \in Nat /\ e \in Nat /\ d2 <= IntMax /\ e2 <= IntMax
  BY <1>1 DEF Timer, Near
<1>3. /\ Sec(d) \in Nat /\ Usec(d) \in 0 .. PerSecond - 1 /\ d = PerSecond * Sec(d) + Usec(d)
      /\ Sec(e) \in Nat /\ Usec(e) \in 0 .. PerSecond - 1 /\ e = PerSecond * Sec(e) + Usec(e)
      /\ PerSecond \in Nat
  BY <1>2, SecAndUsec, TimeAssumption
<1>4. PICK p \in Nat, s \in Nat, t \in Nat, u \in Nat, v \in Nat :
          p = PerSecond /\ s = Sec(d) /\ t = Sec(e) /\ u = Usec(d) /\ v = Usec(e)
  <2>1. Usec(d) \in Nat /\ Usec(e) \in Nat BY <1>3
  <2> QED BY <1>3, <2>1
<1>5. u < p /\ v < p /\ d = p * s + u /\ e = p * t + v BY <1>3, <1>4
<1>6. p * s \in Nat /\ p * t \in Nat /\ p * (s - t) = p * s - p * t BY <1>4, Z3
<1> DEFINE w == p * (s - t) - (u - v)
<1>7. w = (p * s - u) - (p * t - v) BY <1>4, <1>6
<1>8. PICK a \in Nat, b \in Nat : a = p * s /\ b = p * t BY <1>6
<1>9. w = (a - u) - (b - v) /\ d = a + u /\ e = b + v BY <1>5, <1>7, <1>8
<1>10. IntMax \in Nat BY TimeAssumption
<1> HIDE DEF w
<1>11. d - e + p + p <= IntMax /\ e - d + p + p <= IntMax
  <2>1. 2 * p = p + p BY <1>4
  <2>2. d2 = d - e + p + p /\ e2 = e - d + p + p BY <2>1, <1>1, <1>2, <1>4
  <2> QED BY <2>2, <1>2
<1>12. w \in Int /\ -IntMax <= w /\ w <= IntMax 
  <2>1. PICK n \in Nat : n = IntMax BY <1>10
  <2>2. PICK x \in Nat, y \in Nat : x = d /\ y = e BY <1>2
  <2>3. /\ x = a + u /\ y = b + v /\ x - y + p + p <= n /\ y - x + p + p <= n
        /\ u < p /\ v < p /\ w = (a - u) - (b - v)
    BY <2>1, <2>2, <1>11, <1>5, <1>9
  <2>4. w \in Int /\ -n <= w /\ w <= n BY <2>3
  <2> QED BY <2>1, <2>4
<1>13. ToInt(w) = w BY <1>12, SmallEnough
<1>14. Rank(d) - Rank(e) = w BY <1>4, <1>7 DEF Rank
<1>15. TimeCmp(l, r) = IF d = e THEN l.idx - r.idx ELSE ToInt(w)
  BY <1>4 DEF TimeCmp, w
<1> QED BY <1>13, <1>14, <1>15

\* Among timers near each other there is a first one.
LEMMA FirstExists ==
    ASSUME NEW S \in SUBSET Timer, S # {}, \A t, u \in S : Near(t, u)
    PROVE  \E f \in S : \A u \in S : TimeCmp(f, u) <= 0
<1> DEFINE Ranks == {PerSecond + Rank(t.deadline) : t \in S}
<1>1. ASSUME NEW t \in Timer
      PROVE  t.deadline \in Nat /\ t.idx \in Nat /\ Rank(t.deadline) \in Int
             /\ PerSecond + Rank(t.deadline) \in Nat
  <2>1. t.deadline \in Nat /\ t.idx \in Nat BY DEF Timer
  <2>2. Sec(t.deadline) \in Nat /\ Usec(t.deadline) \in 0 .. PerSecond - 1 /\ PerSecond \in Nat
    BY <2>1, SecAndUsec, TimeAssumption
  <2>3. PerSecond * Sec(t.deadline) \in Nat BY <2>2, Z3
  <2> QED BY <2>1, <2>2, <2>3 DEF Rank
<1>2. Ranks \in SUBSET Nat /\ Ranks # {} BY <1>1
<1>3. PICK m \in Ranks : \A k \in Ranks : m <= k BY <1>2, LeastOf
<1>4. PICK g \in S : m = PerSecond + Rank(g.deadline) BY <1>3 DEF Ranks
<1>5. ASSUME NEW u \in S PROVE Rank(g.deadline) <= Rank(u.deadline)
  <2>1. PerSecond + Rank(g.deadline) <= PerSecond + Rank(u.deadline) BY <1>3, <1>4 DEF Ranks
  <2> QED BY <2>1, <1>1, TimeAssumption
<1> DEFINE Same == {t \in S : t.deadline = g.deadline}
           Numbers == {t.idx : t \in Same}
<1>6. Numbers \in SUBSET Nat /\ Numbers # {} BY <1>1
<1>7. PICK n \in Numbers : \A k \in Numbers : n <= k BY <1>6, LeastOf
<1>8. PICK f \in Same : n = f.idx BY <1>7 DEF Numbers
<1>9. ASSUME NEW u \in S PROVE TimeCmp(f, u) <= 0
  <2>1. TimeCmp(f, u) = IF f.deadline = u.deadline THEN f.idx - u.idx
                        ELSE Rank(f.deadline) - Rank(u.deadline)
    <3>1. f \in Timer /\ u \in Timer /\ Near(f, u) BY <1>8
    <3> QED BY <3>1, CmpIsDifference
  <2>2. f.deadline = g.deadline BY <1>8
  <2>3. f.deadline = u.deadline => f.idx <= u.idx BY <2>2, <1>7, <1>8 DEF Numbers, Same
  <2>4. Rank(f.deadline) <= Rank(u.deadline) BY <2>2, <1>5
  <2> QED BY <2>1, <2>3, <2>4, <1>1, <1>8
<1> QED BY <1>8, <1>9
-----------------------------------------------------------------------------
(* Timers: none is lost and none called twice *)

\* Every variable stays within its type; the walk began at a time of the clock.
TimersTyped ==
    /\ timers \subseteq Timer /\ IsFiniteSet(timers)
    /\ idx \in Nat /\ clock \in 0 .. MaxTime /\ nowtime \in 0 .. MaxTime
    /\ pc \in {"idle", "top", "called"}
    /\ quota \in Int /\ perms \in Nat

\* global_idx_ tells the timers of one deadline apart.
Numbered == \A t \in timers : t.idx < idx

NoInstant == \A t \in timers : t.interval # 0

\* What is due can all be called within the quota, unless a timer comes back at
\* once.  The timer that has been called stays set and due whatever its callback
\* adds.
WithinQuota ==
    /\ pc = "called" => cur \in Due
    /\ NoInstant => /\ pc = "idle" => quota >= 0
                    /\ pc = "top" => Cardinality(Due) <= quota
                    /\ pc = "called" => Cardinality(Due) <= quota + 1

\* The inductive invariant.
TimersIInv == TimersTyped /\ Numbered /\ PermanentKept /\ WithinQuota

\* A set of timers, the permanent ones of it and the ones due at a time.
PermanentOf(S) == {t \in S : t.interval # Once}
DueOf(S, now) == {t \in S : t.deadline <= now}

\* One more timer makes one more permanent timer if it is one, and at most one
\* more that is due.
LEMMA OneMore ==
    ASSUME NEW S, IsFiniteSet(S), NEW t, t \notin S, NEW now
    PROVE  /\ IsFiniteSet(S \cup {t})
           /\ Cardinality(PermanentOf(S)) \in Nat /\ Cardinality(DueOf(S, now)) \in Nat
           /\ Cardinality(PermanentOf(S \cup {t})) =
                Cardinality(PermanentOf(S)) + IF t.interval # Once THEN 1 ELSE 0
           /\ Cardinality(DueOf(S \cup {t}, now)) =
                Cardinality(DueOf(S, now)) + IF t.deadline <= now THEN 1 ELSE 0
<1>1. IsFiniteSet(S \cup {t}) BY FS_AddElement
<1>2. IsFiniteSet(PermanentOf(S)) /\ IsFiniteSet(DueOf(S, now))
  BY FS_Subset DEF PermanentOf, DueOf
<1>3. Cardinality(PermanentOf(S)) \in Nat /\ Cardinality(DueOf(S, now)) \in Nat
  BY <1>2, FS_CardinalityType
<1>4. t \notin PermanentOf(S) /\ t \notin DueOf(S, now) BY DEF PermanentOf, DueOf
<1>5. Cardinality(PermanentOf(S \cup {t})) =
        Cardinality(PermanentOf(S)) + IF t.interval # Once THEN 1 ELSE 0
  <2>1. CASE t.interval # Once
    <3>1. PermanentOf(S \cup {t}) = PermanentOf(S) \cup {t} BY <2>1 DEF PermanentOf
    <3> QED BY <3>1, <1>2, <1>4, <2>1, FS_AddElement
  <2>2. CASE t.interval = Once
    <3>1. PermanentOf(S \cup {t}) = PermanentOf(S) BY <2>2 DEF PermanentOf
    <3> QED BY <3>1, <1>3, <2>2
  <2> QED BY <2>1, <2>2
<1>6. Cardinality(DueOf(S \cup {t}, now)) =
        Cardinality(DueOf(S, now)) + IF t.deadline <= now THEN 1 ELSE 0
  <2>1. CASE t.deadline <= now
    <3>1. DueOf(S \cup {t}, now) = DueOf(S, now) \cup {t} BY <2>1 DEF DueOf
    <3> QED BY <3>1, <1>2, <1>4, <2>1, FS_AddElement
  <2>2. CASE ~(t.deadline <= now)
    <3>1. DueOf(S \cup {t}, now) = DueOf(S, now) BY <2>2 DEF DueOf
    <3> QED BY <3>1, <1>3, <2>2
  <2> QED BY <2>1, <2>2
<1> QED BY <1>1, <1>3, <1>5, <1>6

\* A timer of the user is a timer, not yet set.
LEMMA UserTimer ==
    ASSUME TimersIInv, NEW new \in UserTimers
    PROVE  new \in Timer /\ new \notin timers /\ new.idx = idx
<1>1. PICK d \in clock .. clock + MaxAhead, i \in Intervals \cup {Once} : new = TimerOf(d, i)
  BY DEF UserTimers
<1>2. clock \in 0 .. MaxTime /\ idx \in Nat BY DEF TimersIInv, TimersTyped
<1>3. MaxTime \in Nat /\ MaxAhead \in Nat BY TimeAssumption
<1>4. d \in Nat BY <1>1, <1>2, <1>3
<1>5. new \in Timer BY <1>1, <1>2, <1>4 DEF Timer, TimerOf
<1>6. new.idx = idx BY <1>1 DEF TimerOf
<1> QED BY <1>5, <1>6, <1>2 DEF TimersIInv, Numbered

\* What a timer of the user changes: the permanent ones are counted, and at most
\* one more is due.
LEMMA UserStep ==
    ASSUME TimersIInv, NEW new \in UserTimers, UserPuts(new), UNCHANGED <<clock, nowtime>>
    PROVE  /\ timers' = timers \cup {new}
           /\ timers' \subseteq Timer /\ IsFiniteSet(timers')
           /\ idx' \in Nat /\ perms' \in Nat
           /\ Numbered' /\ PermanentKept' /\ (NoInstant' => NoInstant)
           /\ Due \subseteq Due'
           /\ Cardinality(Due) \in Nat /\ Cardinality(Due') \in Nat
           /\ Cardinality(Due') <= Cardinality(Due) + 1
<1>1. new \in Timer /\ new \notin timers /\ new.idx = idx BY UserTimer
<1>2. /\ timers' = timers \cup {new} /\ idx' = idx + 1
      /\ perms' = IF new.interval # Once THEN perms + 1 ELSE perms
  BY DEF UserPuts, Put
<1>3. /\ timers \subseteq Timer /\ IsFiniteSet(timers) /\ idx \in Nat /\ perms \in Nat
      /\ Numbered /\ PermanentKept
  BY DEF TimersIInv, TimersTyped
<1>4. /\ IsFiniteSet(timers \cup {new})
      /\ Cardinality(PermanentOf(timers)) \in Nat /\ Cardinality(DueOf(timers, nowtime)) \in Nat
      /\ Cardinality(PermanentOf(timers \cup {new})) =
           Cardinality(PermanentOf(timers)) + IF new.interval # Once THEN 1 ELSE 0
      /\ Cardinality(DueOf(timers \cup {new}, nowtime)) =
           Cardinality(DueOf(timers, nowtime)) + IF new.deadline <= nowtime THEN 1 ELSE 0
  BY <1>1, <1>3, OneMore
<1>5. Cardinality(PermanentOf(timers)) = perms BY <1>3 DEF PermanentKept, Permanent, PermanentOf
<1>6. PermanentKept'
  <2>1. Cardinality(PermanentOf(timers \cup {new})) = perms' BY <1>2, <1>3, <1>4, <1>5
  <2> QED BY <2>1, <1>2 DEF PermanentKept, Permanent, PermanentOf
<1>7. Numbered' BY <1>1, <1>2, <1>3 DEF Numbered, Timer
<1>8. Due = DueOf(timers, nowtime) /\ Due' = DueOf(timers \cup {new}, nowtime)
  BY <1>2 DEF Due, DueOf
<1>9. Due \subseteq Due' BY <1>8 DEF DueOf
<1>10. /\ Cardinality(Due) \in Nat /\ Cardinality(Due') \in Nat
       /\ Cardinality(Due') <= Cardinality(Due) + 1
  BY <1>4, <1>8
<1>11. NoInstant' => NoInstant BY <1>2 DEF NoInstant
<1> QED BY <1>1, <1>2, <1>3, <1>4, <1>6, <1>7, <1>9, <1>10, <1>11

\* A timer is set while no walk is under way.
LEMMA AddOneStep ==
    ASSUME TimersIInv, NEW new \in UserTimers, AddOne(new)
    PROVE  TimersIInv'
<1>1. UserPuts(new) /\ pc = "idle" /\ UNCHANGED <<clock, pc, nowtime, cur, quota>> BY DEF AddOne
<1>2. /\ timers' \subseteq Timer /\ IsFiniteSet(timers') /\ idx' \in Nat /\ perms' \in Nat
      /\ Numbered' /\ PermanentKept' /\ (NoInstant' => NoInstant)
  BY <1>1, UserStep
<1>3. TimersTyped' BY <1>1, <1>2 DEF TimersIInv, TimersTyped
<1>4. WithinQuota' BY <1>1, <1>2 DEF TimersIInv, WithinQuota
<1> QED BY <1>2, <1>3, <1>4 DEF TimersIInv

\* Time passes.
LEMMA TimePassesStep ==
    ASSUME TimersIInv, TimePasses
    PROVE  TimersIInv'
<1>1. /\ clock < MaxTime /\ clock' = clock + 1
      /\ UNCHANGED <<timers, idx, pc, nowtime, cur, quota, adds, perms>>
  BY DEF TimePasses
<1>2. clock' \in 0 .. MaxTime BY <1>1, TimeAssumption DEF TimersIInv, TimersTyped
<1>3. TimersTyped' BY <1>1, <1>2 DEF TimersIInv, TimersTyped
<1>4. Due' = Due BY <1>1 DEF Due
<1>5. Numbered' /\ PermanentKept' /\ WithinQuota'
  BY <1>1, <1>4 DEF TimersIInv, Numbered, PermanentKept, Permanent, WithinQuota, NoInstant
<1> QED BY <1>3, <1>5 DEF TimersIInv

\* A walk begins: there are at most as many due as there are.
LEMMA StartWalkStep ==
    ASSUME TimersIInv, StartWalk
    PROVE  TimersIInv'
<1>1. /\ pc' = "top" /\ nowtime' = clock /\ quota' = Cardinality(timers)
      /\ UNCHANGED <<timers, idx, clock, cur, adds, perms>>
  BY DEF StartWalk
<1>2. IsFiniteSet(timers) BY DEF TimersIInv, TimersTyped
<1>3. Cardinality(timers) \in Nat BY <1>2, FS_CardinalityType
<1>4. Due' \subseteq timers BY <1>1 DEF Due
<1>5. Cardinality(Due') <= Cardinality(timers) BY <1>2, <1>4, FS_Subset
<1>6. WithinQuota' BY <1>1, <1>5 DEF WithinQuota
<1>7. TimersTyped' BY <1>1, <1>3 DEF TimersIInv, TimersTyped
<1>8. Numbered' /\ PermanentKept'
  BY <1>1 DEF TimersIInv, Numbered, PermanentKept, Permanent
<1> QED BY <1>6, <1>7, <1>8 DEF TimersIInv

\* A walk ends.
LEMMA EndWalkStep ==
    ASSUME TimersIInv, EndWalk
    PROVE  TimersIInv'
<1>1. /\ pc' = "idle" /\ nowtime' = 0 /\ quota' = 0
      /\ UNCHANGED <<timers, idx, clock, cur, adds, perms>>
  BY DEF EndWalk
<1>2. TimersTyped' BY <1>1, TimeAssumption DEF TimersIInv, TimersTyped
<1>3. Numbered' /\ PermanentKept' /\ WithinQuota'
  BY <1>1 DEF TimersIInv, Numbered, PermanentKept, Permanent, WithinQuota, NoInstant
<1> QED BY <1>2, <1>3 DEF TimersIInv

\* The first timer is called: it was due, and it uses one of the quota unless its
\* callback has set another.
LEMMA CallFirstStep ==
    ASSUME TimersIInv, NEW timer \in timers, CallFirst(timer)
    PROVE  TimersIInv'
<1>1. /\ pc = "top" /\ pc' = "called" /\ cur' = timer /\ timer \in Due
      /\ clock' = clock /\ nowtime' = nowtime
  BY DEF CallFirst, FirstDue, First, Due
<1>2. (NoInstant => Cardinality(Due) <= quota) /\ quota \in Int
  BY <1>1 DEF TimersIInv, WithinQuota, TimersTyped
<1>3. IsFiniteSet(Due) /\ Cardinality(Due) \in Nat
  BY FS_Subset, FS_CardinalityType DEF Due, TimersIInv, TimersTyped
<1>4. CASE UNCHANGED <<timers, idx, adds, perms>> /\ quota' = quota - 1
  <2>1. Due' = Due BY <1>1, <1>4 DEF Due
  <2>2. NoInstant' => Cardinality(Due') <= quota' + 1
    <3>1. NoInstant' => NoInstant BY <1>4 DEF NoInstant
    <3> QED BY <3>1, <2>1, <1>2, <1>3, <1>4
  <2>3. WithinQuota' BY <2>1, <2>2, <1>1 DEF WithinQuota
  <2>4. TimersTyped' BY <1>1, <1>2, <1>4 DEF TimersIInv, TimersTyped
  <2>5. Numbered' /\ PermanentKept'
    BY <1>4 DEF TimersIInv, Numbered, PermanentKept, Permanent
  <2> QED BY <2>3, <2>4, <2>5 DEF TimersIInv
<1>5. CASE (\E new \in UserTimers : UserPuts(new)) /\ UNCHANGED quota
  <2>1. PICK new \in UserTimers : UserPuts(new) BY <1>5
  <2>2. /\ timers' \subseteq Timer /\ IsFiniteSet(timers') /\ idx' \in Nat /\ perms' \in Nat
        /\ Numbered' /\ PermanentKept' /\ (NoInstant' => NoInstant) /\ Due \subseteq Due'
        /\ Cardinality(Due') \in Nat /\ Cardinality(Due') <= Cardinality(Due) + 1
    BY <2>1, <1>1, UserStep
  <2>3. NoInstant' => Cardinality(Due') <= quota' + 1 BY <2>2, <1>2, <1>3, <1>5
  <2>4. cur' \in Due' BY <1>1, <2>2
  <2>5. WithinQuota' BY <2>3, <2>4, <1>1 DEF WithinQuota
  <2>6. TimersTyped' BY <1>1, <1>2, <1>5, <2>2 DEF TimersIInv, TimersTyped
  <2> QED BY <2>2, <2>5, <2>6 DEF TimersIInv
<1> QED BY <1>4, <1>5 DEF CallFirst

\* The timer that has been called goes.  A permanent one comes back as another
\* timer, which is not due unless its interval is 0: it is set to a time after the
\* walk began.
LEMMA RetireStep ==
    ASSUME TimersIInv, Retire
    PROVE  TimersIInv'
<1> DEFINE rest == timers \ {cur}
<1>1. /\ pc = "called" /\ pc' = "top"
      /\ UNCHANGED <<clock, nowtime, quota, adds, perms>>
  BY DEF Retire
<1>2. /\ cur \in timers /\ cur.deadline <= nowtime
      /\ (NoInstant => Cardinality(Due) <= quota + 1)
      /\ timers \subseteq Timer /\ IsFiniteSet(timers)
      /\ idx \in Nat /\ clock \in 0 .. MaxTime /\ nowtime \in 0 .. MaxTime
      /\ quota \in Int /\ perms \in Nat /\ Numbered
  BY <1>1 DEF TimersIInv, TimersTyped, WithinQuota, Due
<1>3. IsFiniteSet(rest) /\ cur \notin rest /\ rest \cup {cur} = timers
  BY <1>2, FS_RemoveElement
<1>4. /\ Cardinality(PermanentOf(rest)) \in Nat /\ Cardinality(DueOf(rest, nowtime)) \in Nat
      /\ Cardinality(PermanentOf(rest \cup {cur})) =
           Cardinality(PermanentOf(rest)) + IF cur.interval # Once THEN 1 ELSE 0
      /\ Cardinality(DueOf(rest \cup {cur}, nowtime)) =
           Cardinality(DueOf(rest, nowtime)) + IF cur.deadline <= nowtime THEN 1 ELSE 0
  BY <1>3, OneMore
<1>5. Cardinality(PermanentOf(timers)) = perms
  BY DEF TimersIInv, PermanentKept, Permanent, PermanentOf
<1>6. NoInstant => Cardinality(DueOf(timers, nowtime)) <= quota + 1 BY <1>2 DEF Due, DueOf
<1>7. /\ perms = Cardinality(PermanentOf(rest)) + IF cur.interval # Once THEN 1 ELSE 0
      /\ (NoInstant => Cardinality(DueOf(rest, nowtime)) <= quota)
  <2> HIDE DEF rest
  <2> QED BY <1>2, <1>3, <1>4, <1>5, <1>6
<1>8. CASE cur.interval = Once
  <2>1. timers' = rest /\ idx' = idx BY <1>8 DEF Retire
  <2>2. PermanentKept'
    <3>1. Cardinality(PermanentOf(rest)) = perms BY <1>7, <1>8, <1>4
    <3> QED BY <3>1, <2>1, <1>1 DEF PermanentKept, Permanent, PermanentOf
  <2>3. NoInstant' => Cardinality(Due') <= quota'
    <3>1. Once # 0 BY DEF Once
    <3>2. NoInstant' => NoInstant BY <2>1, <1>8, <3>1 DEF NoInstant
    <3> QED BY <3>2, <2>1, <1>1, <1>7 DEF Due, DueOf
  <2>4. WithinQuota' BY <2>3, <1>1 DEF WithinQuota
  <2>5. Numbered' BY <2>1, <1>2 DEF Numbered
  <2>6. TimersTyped' BY <2>1, <1>1, <1>2, <1>3 DEF TimersTyped
  <2> QED BY <2>2, <2>4, <2>5, <2>6 DEF TimersIInv
<1>9. CASE cur.interval # Once
  <2> DEFINE new == TimerOf(nowtime + cur.interval, cur.interval)
  <2>1. timers' = rest \cup {new} /\ idx' = idx + 1 BY <1>9 DEF Retire, Put
  <2>2. cur.interval \in Intervals BY <1>2, <1>9 DEF Timer
  <2>3. /\ new \in Timer /\ new.idx = idx /\ new.interval = cur.interval
        /\ new.deadline = nowtime + cur.interval
    <3>1. cur.interval \in Nat BY <2>2, TimeAssumption
    <3>2. nowtime \in Nat BY <1>2, TimeAssumption
    <3>3. nowtime + cur.interval \in Nat BY <3>1, <3>2
    <3> QED BY <3>3, <2>2, <1>2 DEF Timer, TimerOf
  <2> HIDE DEF new
  <2>4. new \notin rest BY <2>3, <1>2 DEF Numbered
  <2>5. /\ IsFiniteSet(rest \cup {new})
        /\ Cardinality(PermanentOf(rest \cup {new})) =
             Cardinality(PermanentOf(rest)) + IF new.interval # Once THEN 1 ELSE 0
        /\ Cardinality(DueOf(rest \cup {new}, nowtime)) =
             Cardinality(DueOf(rest, nowtime)) + IF new.deadline <= nowtime THEN 1 ELSE 0
    <3> HIDE DEF rest
    <3> QED BY <2>4, <1>3, OneMore
  <2>6. cur.interval # 0 => ~ (new.deadline <= nowtime)
    <3>1. cur.interval \in Nat BY <2>2, TimeAssumption
    <3>2. nowtime \in Nat BY <1>2, TimeAssumption
    <3> QED BY <2>3, <3>1, <3>2
  <2>7. /\ Cardinality(PermanentOf(rest \cup {new})) = perms
        /\ (NoInstant /\ cur.interval # 0 => Cardinality(DueOf(rest \cup {new}, nowtime)) <= quota)
    <3> HIDE DEF rest
    <3> QED BY <2>3, <2>5, <2>6, <1>2, <1>4, <1>7, <1>9
  <2>8. PermanentKept' BY <2>1, <2>7, <1>1 DEF PermanentKept, Permanent, PermanentOf
  <2>9. NoInstant' => Cardinality(Due') <= quota'
    <3>1. NoInstant' => NoInstant /\ cur.interval # 0 BY <2>1, <2>3 DEF NoInstant
    <3> QED BY <3>1, <2>1, <2>7, <1>1 DEF Due, DueOf
  <2>10. WithinQuota' BY <2>9, <1>1 DEF WithinQuota
  <2>11. Numbered' BY <2>1, <2>3, <1>2 DEF Numbered, Timer
  <2>12. TimersTyped' BY <2>1, <2>3, <2>5, <1>1, <1>2 DEF TimersTyped
  <2> QED BY <2>8, <2>10, <2>11, <2>12 DEF TimersIInv
<1> QED BY <1>8, <1>9

\* TimersIInv is inductive.
THEOREM TimersInvariance == TimersSpec => []TimersIInv
<1>1. TimersInit => TimersIInv
  <2> SUFFICES ASSUME TimersInit PROVE TimersIInv OBVIOUS
  <2>1. IsFiniteSet({}) /\ Cardinality({}) = 0 BY FS_EmptySet
  <2>2. Permanent = {} BY DEF TimersInit, Permanent
  <2> QED BY <2>1, <2>2, TimeAssumption
    DEF TimersInit, TimersIInv, TimersTyped, Numbered, PermanentKept, WithinQuota
<1>2. TimersIInv /\ [TimersNext]_timerVars => TimersIInv'
  <2> SUFFICES ASSUME TimersIInv, [TimersNext]_timerVars PROVE TimersIInv' OBVIOUS
  <2>1. CASE UNCHANGED timerVars
    BY <2>1 DEF timerVars, TimersIInv, TimersTyped, Numbered, PermanentKept, Permanent,
                WithinQuota, NoInstant, Due
  <2>2. CASE \E timer \in UserTimers : AddOne(timer) BY <2>2, AddOneStep
  <2>3. CASE TimePasses BY <2>3, TimePassesStep
  <2>4. CASE StartWalk BY <2>4, StartWalkStep
  <2>5. CASE EndWalk BY <2>5, EndWalkStep
  <2>6. CASE \E timer \in timers : CallFirst(timer) BY <2>6, CallFirstStep
  <2>7. CASE Retire BY <2>7, RetireStep
  <2> QED BY <2>1, <2>2, <2>3, <2>4, <2>5, <2>6, <2>7 DEF TimersNext
<1> QED BY <1>1, <1>2, PTL DEF TimersSpec

\* A timer that is due and of an earlier second than the walk ranks before any
\* that is not due, so that the first of all is due.
LEMMA OnlyThatSecond == TimersIInv => LateWithinSecond
<1> SUFFICES ASSUME TimersIInv, pc = "top", AllNear, \A t \in timers : ~FirstDue(t), NEW t \in Due
             PROVE  Sec(t.deadline) = Sec(nowtime)
  BY DEF LateWithinSecond
<1>1. t \in timers /\ t.deadline <= nowtime /\ timers \in SUBSET Timer /\ nowtime \in Nat
  BY TimeAssumption DEF Due, TimersIInv, TimersTyped
<1>2. PICK f \in timers : \A u \in timers : TimeCmp(f, u) <= 0 BY <1>1, FirstExists DEF AllNear
<1>3. PICK d, e : d = f.deadline /\ e = t.deadline OBVIOUS
<1>4. d \in Nat /\ e \in Nat BY <1>1, <1>2, <1>3 DEF Timer
<1>5. d > nowtime BY <1>1, <1>2, <1>3, <1>4 DEF FirstDue, First
<1>6. e <= nowtime /\ d # e BY <1>1, <1>3, <1>4, <1>5
<1>7. Rank(d) - Rank(e) <= 0 
  <2>1. Near(f, t) BY <1>1, <1>2 DEF AllNear
  <2> QED BY <2>1, <1>1, <1>2, <1>3, <1>6, CmpIsDifference
<1>8. Rank(d) <= Rank(e) BY <1>4, <1>7, RankType
<1>9. Sec(d) <= Sec(e) BY <1>4, <1>8, RankOrder
<1>10. Sec(e) <= Sec(nowtime) /\ Sec(nowtime) <= Sec(d) BY <1>1, <1>4, <1>5, <1>6, LaterSecond
<1>11. Sec(d) \in Nat /\ Sec(e) \in Nat /\ Sec(nowtime) \in Nat BY <1>1, <1>4, SecAndUsec
<1> QED BY <1>3, <1>9, <1>10, <1>11

\* No permanent timer is lost, however far apart the timers are and however long
\* the program runs; none is called twice by a walk while no timer has an interval
\* of 0; and of timers near enough for _time_cmp walk() leaves none of an earlier
\* second.
THEOREM TimersTheorem == TimersSpec => []TimersKept
<1>1. TimersIInv => TimersKept
  <2> SUFFICES ASSUME TimersIInv PROVE TimersKept OBVIOUS
  <2>1. LateWithinSecond BY OnlyThatSecond
  <2>2. IsFiniteSet(Due) /\ Cardinality(Due) \in Nat
    BY FS_Subset, FS_CardinalityType DEF Due, TimersIInv, TimersTyped
  <2>3. cur \in Due => Cardinality(Due) # 0 BY <2>2, FS_EmptySet
  <2>4. EachOnce BY <2>2, <2>3 DEF EachOnce, NoInstant, TimersIInv, TimersTyped, WithinQuota
  <2> QED BY <2>1, <2>4 DEF TimersKept, TimersIInv
<1> QED BY <1>1, TimersInvariance, PTL
=============================================================================
