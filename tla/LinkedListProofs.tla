-------------------------- MODULE LinkedListProofs --------------------------
(***************************************************************************)
(* Machine-checked proofs about linked_list_t, for every number of nodes   *)
(* and lists: the pointers thread the lists that calypso_network_t thinks  *)
(* in, and every operation on them does to those lists what it promises.   *)
(***************************************************************************)
EXTENDS LinkedList, ListOpsProofs

\* The pointers p and n, h and t thread the lists ls.
Threads(ls, p, n, h, t) ==
    \A l \in Lids : Chained(ls[l], p, n) /\ h[l] = FirstOf(ls[l]) /\ t[l] = LastOf(ls[l])

\* Every node says which of the lists ls it is in, and c counts them.
Labels(ls, li, c) ==
    \A l \in Lids : Members(ls[l]) = {i \in Idx : li[i] = l} /\ c[l] = Len(ls[l])

\* What the array stands for: the inductive invariant, for some lists ls.
StandsFor(ls) ==
    /\ ListsOf(ls, Lids, Idx)
    /\ Threads(ls, prev, next, head, tail)
    /\ Labels(ls, lid, num)

-----------------------------------------------------------------------------
(* The walk along the links *)

\* One more node of the walk, after f[n - 1] have been walked.
Walked(link, f, n) ==
    [i \in Idx \cup {Nil} |-> IF n = 0 \/ i = Nil THEN <<>> ELSE <<i>> \o f[n - 1][link[i]]]

\* The recursion of Along is well defined.
LEMMA AlongIsDefined ==
    ASSUME NEW link
    PROVE  \A n \in 0 .. N + 1 : Along(link)[n] = Walked(link, Along(link), n)
<1> DEFINE Solves(f, b) == f = [n \in 0 .. b |-> Walked(link, f, n)]
           S == {b \in Nat : \E f : Solves(f, b)}
<1>0. N \in Nat BY LLAssumption
<1>1. 0 \in S
  <2> DEFINE g == [n \in 0 .. 0 |-> Walked(link, <<>>, n)]
  <2>1. \A f : Walked(link, f, 0) = [i \in Idx \cup {Nil} |-> <<>>] BY DEF Walked
  <2>2. g = [n \in 0 .. 0 |-> Walked(link, g, n)]
    <3>1. \A n \in 0 .. 0 : n = 0 OBVIOUS
    <3>2. \A n \in 0 .. 0 : Walked(link, <<>>, n) = Walked(link, g, n)
          BY <2>1, <3>1
    <3> QED BY <3>2
  <2> QED BY <2>2
<1>2. ASSUME NEW b \in S PROVE b + 1 \in S
  <2>1. PICK f : Solves(f, b) /\ b \in Nat BY <1>2
  <2> DEFINE g == [n \in 0 .. b + 1 |-> Walked(link, f, n)]
  <2>2. \A n \in 0 .. b : n \in 0 .. b + 1 /\ f[n] = Walked(link, f, n) BY <2>1
  <2>3. ASSUME NEW n \in 0 .. b + 1 PROVE Walked(link, f, n) = Walked(link, g, n)
    <3>1. CASE n = 0 BY <3>1 DEF Walked
    <3>2. CASE n # 0
      <4>1. n - 1 \in 0 .. b BY <2>1, <3>2
      <4>2. g[n - 1] = f[n - 1] BY <2>2, <4>1
      <4> HIDE DEF g
      <4> QED BY <4>2 DEF Walked
    <3> QED BY <3>1, <3>2
  <2>4. g = [n \in 0 .. b + 1 |-> Walked(link, g, n)] BY <2>3
  <2> HIDE DEF g
  <2>5. Solves(g, b + 1) BY <2>4
  <2> QED BY <2>1, <2>5
<1>3. N + 1 \in S
  <2> DEFINE Missing == {b \in Nat : b \notin S}
  <2> SUFFICES ASSUME N + 1 \notin S PROVE FALSE OBVIOUS
  <2>1. Missing \in SUBSET Nat /\ Missing # {} BY <1>0
  <2> HIDE DEF S
  <2>2. PICK b \in Missing : \A k \in Missing : b <= k BY <2>1, LeastOf
  <2>3. b # 0 /\ b \in Nat BY <1>1, <2>2
  <2>4. b - 1 \in Nat /\ ~(b <= b - 1) /\ (b - 1) + 1 = b BY <2>3
  <2>5. b - 1 \in S BY <2>2, <2>4
  <2>6. b \in S BY <1>2, <2>4, <2>5
  <2> QED BY <2>2, <2>6
<1>4. \E f : Solves(f, N + 1) BY <1>3
<1>5. Along(link) = CHOOSE f : Solves(f, N + 1) BY DEF Along, Walked
<1>6. PICK g : g = Along(link) OBVIOUS
<1>7. Solves(g, N + 1) BY <1>4, <1>5, <1>6
<1>8. \A n \in 0 .. N + 1 : g[n] = Walked(link, g, n) BY <1>7
<1> QED BY <1>6, <1>8

\* Walking a chain of distinct nodes from its first meets exactly its nodes.
LEMMA WalkOf ==
    ASSUME NEW link, NEW s \in Seq(Idx), Len(s) <= N + 1,
           \A k \in 1 .. Len(s) : link[s[k]] = IF k = Len(s) THEN Nil ELSE s[k + 1]
    PROVE  Along(link)[N + 1][FirstOf(s)] = s
<1> DEFINE L == Len(s)
           Last(m) == [k \in 1 .. m |-> s[(L - m) + k]]
           At(m) == IF m = 0 THEN Nil ELSE s[(L - m) + 1]
<1>1. N \in Nat /\ L \in Nat BY LLAssumption, LenProperties
<1>2. Nil \notin Idx BY DEF Nil, Idx
<1>3. PICK A : A = Along(link) OBVIOUS
<1>4. \A n \in 0 .. N + 1 : A[n] = Walked(link, A, n) BY <1>3, AlongIsDefined
<1>5. \A k \in 1 .. L : s[k] \in Idx BY ElementOfSeq
<1>6. \A k \in 1 .. L : link[s[k]] = IF k = L THEN Nil ELSE s[k + 1] OBVIOUS
<1> DEFINE Right(m) == \A n \in 0 .. N + 1 : n >= m => A[n][At(m)] = Last(m)
           Bad == {m \in 0 .. L : ~Right(m)}
<1>8. Right(0)
  <2>1. Last(0) = <<>> OBVIOUS
  <2>2. \A n \in 0 .. N + 1 : A[n][Nil] = <<>> BY <1>4 DEF Walked
  <2> QED BY <2>1, <2>2
<1>9. ASSUME NEW m \in Nat, m < L, Right(m) PROVE Right(m + 1)
  <2> SUFFICES ASSUME NEW n \in 0 .. N + 1, n >= m + 1
               PROVE  A[n][At(m + 1)] = Last(m + 1) OBVIOUS
  <2>1. n - 1 \in 0 .. N + 1 /\ n - 1 >= m /\ n # 0 BY <1>1
  <2>2. A[n - 1][At(m)] = Last(m) BY <1>9, <2>1
  <2>3. PICK j : j = L - m OBVIOUS
  <2>4. j \in 1 .. L /\ L - (m + 1) = j - 1 /\ (j - 1) + 1 = j BY <1>1, <1>9, <2>3
  <2>5. At(m + 1) = s[j] /\ s[j] \in Idx /\ s[j] # Nil BY <1>2, <1>5, <2>4
  <2>6. link[s[j]] = At(m)
    <3>1. j = L <=> m = 0 BY <1>1, <1>9, <2>3
    <3> QED BY <1>6, <2>3, <2>4, <3>1
  <2>7. A[n][s[j]] = <<s[j]>> \o A[n - 1][link[s[j]]] BY <1>4, <2>1, <2>5 DEF Walked
  <2>8. PICK w : w = Last(m) OBVIOUS
  <2>9. \A k \in 1 .. m : w[k] = s[j + k] /\ s[j + k] \in Idx
    <3>1. \A k \in 1 .. m : j + k \in 1 .. L BY <1>1, <1>9, <2>3
    <3> QED BY <1>5, <2>3, <2>8, <3>1
  <2>10. w \in Seq(Idx) /\ Len(w) = m
    <3>1. w = [k \in 1 .. m |-> w[k]] BY <2>8
    <3>2. w \in [1 .. m -> Idx] BY <2>9, <3>1
    <3> QED BY <1>9, <3>2, LenProperties
  <2>11. PICK v : v = <<s[j]>> \o w OBVIOUS
  <2>12. /\ v \in Seq(Idx) /\ Len(v) = m + 1
         /\ v[1] = s[j] /\ \A k \in 1 .. m : v[k + 1] = w[k]
    <3>1. s[j] \in Idx BY <2>5
    <3> QED BY <2>10, <2>11, <3>1
  <2>13. ASSUME NEW k \in 1 .. m + 1 PROVE v[k] = s[(L - (m + 1)) + k]
    <3>1. CASE k = 1 BY <2>4, <2>12, <3>1
    <3>2. CASE k # 1
      <4>1. k - 1 \in 1 .. m /\ (k - 1) + 1 = k BY <1>9, <3>2
      <4>2. j + (k - 1) = (j - 1) + k BY <2>4
      <4>3. v[k] = w[k - 1] BY <2>12, <4>1
      <4> QED BY <2>4, <2>9, <4>1, <4>2, <4>3
    <3> QED BY <3>1, <3>2
  <2>14. v = Last(m + 1)
    <3>1. v = [k \in 1 .. m + 1 |-> v[k]] BY <2>12, LenProperties
    <3> QED BY <2>13, <3>1
  <2>15. A[n][s[j]] = v BY <2>2, <2>6, <2>7, <2>8, <2>11
  <2> QED BY <2>5, <2>14, <2>15
<1>10. Right(L)
  <2> SUFFICES ASSUME ~Right(L) PROVE FALSE OBVIOUS
  <2> HIDE DEF Right
  <2>1. Bad \in SUBSET Nat /\ L \in Bad BY <1>1
  <2> HIDE DEF Bad
  <2>2. PICK m \in Bad : \A k \in Bad : m <= k BY <2>1, LeastOf
  <2>3. m \in 0 .. L /\ ~Right(m) BY <2>2 DEF Bad
  <2>4. m # 0 BY <1>8, <2>3
  <2>5. m - 1 \in Nat /\ m - 1 < L /\ m - 1 \in 0 .. L /\ ~(m <= m - 1) /\ (m - 1) + 1 = m
        BY <1>1, <2>3, <2>4
  <2>6. Right(m - 1) BY <2>2, <2>5 DEF Bad
  <2> QED BY <1>9, <2>3, <2>5, <2>6
<1>11. A[N + 1][At(L)] = Last(L) BY <1>1, <1>10
<1>12. Last(L) = s
  <2>1. s = [k \in 1 .. L |-> s[k]] BY LenProperties
  <2>2. \A k \in 1 .. L : (L - L) + k = k BY <1>1
  <2> QED BY <2>1, <2>2
<1>13. At(L) = FirstOf(s)
  <2>1. s = <<>> <=> L = 0 BY EmptySeq, LenProperties
  <2>2. (L - L) + 1 = 1 BY <1>1
  <2> QED BY <2>1, <2>2 DEF FirstOf
<1> QED BY <1>3, <1>11, <1>12, <1>13

-----------------------------------------------------------------------------
(* Sequences of distinct nodes *)

\* A list has as many members as it is long.
LEMMA LengthIsNumber ==
    ASSUME NEW S, NEW s \in Seq(S), Distinct(s)
    PROVE  IsFiniteSet(Members(s)) /\ Cardinality(Members(s)) = Len(s)
<1>1. Len(s) \in Nat /\ s \in [1 .. Len(s) -> S] BY LenProperties
<1>2. IsFiniteSet(1 .. Len(s)) /\ Cardinality(1 .. Len(s)) = Len(s)
  <2>1. IsFiniteSet(1 .. Len(s)) /\ Cardinality(1 .. Len(s)) = IF 1 > Len(s) THEN 0 ELSE Len(s) - 1 + 1
        BY <1>1, FS_Interval
  <2> QED BY <1>1, <2>1
<1>3. s \in [1 .. Len(s) -> Members(s)]
  <2>1. s = [k \in 1 .. Len(s) |-> s[k]] BY <1>1
  <2>2. \A k \in 1 .. Len(s) : s[k] \in Members(s) BY DEF Members
  <2> QED BY <2>1, <2>2
<1>4. s \in Injection(1 .. Len(s), Members(s))
  <2>1. \A j, k \in 1 .. Len(s) : s[j] = s[k] => j = k BY DEF Distinct
  <2> QED BY <1>3, <2>1 DEF Injection, IsInjective
<1>5. s \in Surjection(1 .. Len(s), Members(s))
  <2>1. \A x \in Members(s) : \E k \in 1 .. Len(s) : s[k] = x BY DEF Members
  <2> QED BY <1>3, <2>1 DEF Surjection
<1>6. s \in Bijection(1 .. Len(s), Members(s)) BY <1>4, <1>5 DEF Bijection
<1>7. ExistsBijection(1 .. Len(s), Members(s)) BY <1>6 DEF ExistsBijection
<1> QED BY <1>2, <1>7, FS_Bijection

\* No list is longer than the array.
LEMMA ListFits ==
    ASSUME NEW s \in Seq(Idx), Distinct(s)
    PROVE  Len(s) \in Nat /\ Len(s) <= N
<1>1. N \in Nat /\ N > 0 BY LLAssumption
<1>2. IsFiniteSet(Idx) /\ Cardinality(Idx) = N
  <2>1. IsFiniteSet(0 .. N - 1) /\ Cardinality(0 .. N - 1) = IF 0 > N - 1 THEN 0 ELSE (N - 1) - 0 + 1
        BY <1>1, FS_Interval
  <2> QED BY <1>1, <2>1 DEF Idx
<1>3. Members(s) \in SUBSET Idx BY MembersEmpty
<1>4. Cardinality(Members(s)) <= Cardinality(Idx) BY <1>2, <1>3, FS_Subset
<1>5. Cardinality(Members(s)) = Len(s) BY LengthIsNumber
<1> QED BY <1>2, <1>4, <1>5, LenProperties

\* The ends of a list are among its members, and it has some unless it is empty.
LEMMA EndsOf ==
    ASSUME NEW s \in Seq(Idx)
    PROVE  /\ s = <<>> => FirstOf(s) = Nil /\ LastOf(s) = Nil
           /\ s # <<>> => /\ 1 \in 1 .. Len(s) /\ Len(s) \in 1 .. Len(s)
                          /\ FirstOf(s) = s[1] /\ LastOf(s) = s[Len(s)]
                          /\ FirstOf(s) \in Members(s) /\ LastOf(s) \in Members(s)
                          /\ FirstOf(s) \in Idx /\ LastOf(s) \in Idx
<1>1. Len(s) \in Nat /\ (s # <<>> => Len(s) # 0) BY LenProperties, EmptySeq
<1>2. \A k \in 1 .. Len(s) : s[k] \in Members(s) /\ s[k] \in Idx BY ElementOfSeq DEF Members
<1>3. s # <<>> => 1 \in 1 .. Len(s) /\ Len(s) \in 1 .. Len(s) BY <1>1
<1> QED BY <1>2, <1>3 DEF FirstOf, LastOf

\* -1 is no node.
LEMMA NilIsNoNode == Nil \notin Idx BY DEF Nil, Idx

-----------------------------------------------------------------------------
(* The walks give the lists the pointers stand for *)

\* Nodes threaded in both directions are met from either end.
LEMMA BothWalks ==
    ASSUME NEW p, NEW n, NEW s \in Seq(Idx), Distinct(s), Chained(s, p, n)
    PROVE  /\ Along(n)[N + 1][FirstOf(s)] = s
           /\ Along(p)[N + 1][LastOf(s)] = [k \in 1 .. Len(s) |-> s[Len(s) + 1 - k]]
<1>1. N \in Nat /\ Len(s) \in Nat /\ Len(s) <= N + 1 BY ListFits, LLAssumption
<1>2. \A k \in 1 .. Len(s) : n[s[k]] = IF k = Len(s) THEN Nil ELSE s[k + 1] BY DEF Chained
<1>3. Along(n)[N + 1][FirstOf(s)] = s BY <1>1, <1>2, WalkOf
<1>4. PICK r : r = [k \in 1 .. Len(s) |-> s[Len(s) + 1 - k]] OBVIOUS
<1>5. \A k \in 1 .. Len(s) : Len(s) + 1 - k \in 1 .. Len(s) BY <1>1
<1>6. \A k \in 1 .. Len(s) : r[k] = s[Len(s) + 1 - k] /\ r[k] \in Idx BY <1>4, <1>5, ElementOfSeq
<1>7. r \in Seq(Idx) /\ Len(r) = Len(s)
  <2>1. r = [k \in 1 .. Len(s) |-> r[k]] BY <1>4
  <2>2. r \in [1 .. Len(s) -> Idx] BY <1>6, <2>1
  <2> QED BY <1>1, <2>2, LenProperties
<1>8. ASSUME NEW k \in 1 .. Len(r) PROVE p[r[k]] = IF k = Len(r) THEN Nil ELSE r[k + 1]
  <2>1. PICK j : j = Len(s) + 1 - k OBVIOUS
  <2>2. j \in 1 .. Len(s) /\ r[k] = s[j] BY <1>5, <1>6, <1>7, <2>1
  <2>3. p[s[j]] = IF j = 1 THEN Nil ELSE s[j - 1] BY <2>2 DEF Chained
  <2>4. j = 1 <=> k = Len(r) BY <1>1, <1>7, <2>1
  <2>5. k # Len(r) => k + 1 \in 1 .. Len(s) /\ Len(s) + 1 - (k + 1) = j - 1
        BY <1>1, <1>7, <2>1
  <2>6. k # Len(r) => r[k + 1] = s[j - 1] BY <1>6, <2>5
  <2> QED BY <2>2, <2>3, <2>4, <2>6
<1>9. Along(p)[N + 1][FirstOf(r)] = r
  <2>1. Len(r) <= N + 1 BY <1>1, <1>7
  <2> QED BY <1>7, <1>8, <2>1, WalkOf
<1>10. FirstOf(r) = LastOf(s)
  <2>1. CASE s = <<>>
    <3>1. Len(s) = 0 BY <2>1, EmptySeq
    <3>2. r = <<>> BY <1>7, <3>1, EmptySeq
    <3> QED BY <2>1, <3>2 DEF FirstOf, LastOf
  <2>2. CASE s # <<>>
    <3>1. 1 \in 1 .. Len(s) /\ Len(s) + 1 - 1 = Len(s) /\ Len(r) # 0 BY <1>1, <1>7, <2>2, EndsOf
    <3>2. r # <<>> BY <3>1, EmptySeq
    <3>3. r[1] = s[Len(s)] BY <1>6, <3>1
    <3> QED BY <2>2, <3>2, <3>3 DEF FirstOf, LastOf
  <2> QED BY <2>1, <2>2
<1> QED BY <1>3, <1>4, <1>9, <1>10

\* The pointers stand for no lists but those the walks give, and those are sound
\* in both directions.
LEMMA WalksGiveLists ==
    ASSUME TypeOK, NEW ls, StandsFor(ls)
    PROVE  ListInv /\ [l \in Lids |-> Forward(l)] = ls
<1>1. ASSUME NEW l \in Lids
      PROVE  /\ ls[l] \in Seq(Idx) /\ Distinct(ls[l])
             /\ Chained(ls[l], prev, next)
             /\ head[l] = FirstOf(ls[l]) /\ tail[l] = LastOf(ls[l])
             /\ Members(ls[l]) = {i \in Idx : lid[i] = l}
             /\ num[l] = Len(ls[l])
      BY DEF StandsFor, ListsOf, Threads, Labels
<1>2. ASSUME NEW l \in Lids
      PROVE  /\ Forward(l) = ls[l]
             /\ Backward(l) = [k \in 1 .. Len(ls[l]) |-> ls[l][Len(ls[l]) + 1 - k]]
      BY <1>1, BothWalks DEF Forward, Backward
<1>3. NothingLost
  <2>1. ASSUME NEW l \in Lids
        PROVE  Len(ls[l]) = Cardinality({i \in Idx : lid[i] = l})
        BY <1>1, LengthIsNumber
  <2> QED BY <1>1, <1>2, <2>1 DEF NothingLost, Members
<1>4. PrevReversesNext BY <1>2 DEF PrevReversesNext
<1>5. Threaded BY <1>1, <1>2 DEF Threaded
<1>6. [l \in Lids |-> Forward(l)] = ls
  <2>1. ls = [l \in Lids |-> ls[l]] BY DEF StandsFor, ListsOf
  <2> QED BY <1>2, <2>1
<1> QED BY <1>3, <1>4, <1>5, <1>6 DEF ListInv

-----------------------------------------------------------------------------
(* What the stores of an operation do to one list *)

\* The links p1 and n1 are what is left of p and n when the neighbours of node i
\* have been tied together.
TiedOver(i, p, n, p1, n1) ==
    \A x \in Idx \ {i} : /\ n1[x] = IF x = p[i] THEN n[i] ELSE n[x]
                         /\ p1[x] = IF x = n[i] THEN p[i] ELSE p[x]

\* The same after node i has been hung behind node a, which had none behind it.
HungBehind(i, a, p, n, p1, n1) ==
    \A x \in Idx : /\ n1[x] = IF x = i THEN Nil ELSE IF x = a THEN i ELSE n[x]
                   /\ p1[x] = IF x = i THEN a ELSE p[x]

\* And after it has been hung before node a, which had none before it.
HungBefore(i, a, p, n, p1, n1) ==
    \A x \in Idx : /\ n1[x] = IF x = i THEN a ELSE n[x]
                   /\ p1[x] = IF x = i THEN Nil ELSE IF x = a THEN i ELSE p[x]

\* Stores to other nodes do not touch a list.
LEMMA OthersUntouched ==
    ASSUME NEW s, NEW p, NEW n, NEW p1, NEW n1, Chained(s, p, n),
           \A x \in Members(s) : p1[x] = p[x] /\ n1[x] = n[x]
    PROVE  Chained(s, p1, n1)
BY DEF Chained, Members

\* Tying its neighbours together takes a node out of its list.
LEMMA TiedOverList ==
    ASSUME NEW s \in Seq(Idx), Distinct(s), NEW i \in Members(s),
           NEW p, NEW n, NEW p1, NEW n1, Chained(s, p, n), TiedOver(i, p, n, p1, n1)
    PROVE  LET w == Without(s, i)
           IN  /\ Chained(w, p1, n1)
               /\ FirstOf(w) = IF FirstOf(s) = i THEN n[i] ELSE FirstOf(s)
               /\ LastOf(w) = IF LastOf(s) = i THEN p[i] ELSE LastOf(s)
<1>1. PICK w : w = Without(s, i) OBVIOUS
<1>2. PICK q : q = PlaceOf(s, i) OBVIOUS
<1>3. q \in 1 .. Len(s) /\ s[q] = i BY <1>2, PlaceOfMember
<1>4. Len(s) \in Nat /\ Len(s) # 0 /\ s # <<>> BY <1>3, LenProperties, EmptySeq
<1>5. w \in Seq(Idx) /\ Len(w) = Len(s) - 1 BY <1>1, WithoutMember
<1>6. \A k \in 1 .. Len(s) - 1 : w[k] = IF k < q THEN s[k] ELSE s[k + 1] BY <1>1, <1>2 DEF Without
<1>7. \A j, k \in 1 .. Len(s) : s[j] = s[k] => j = k BY DEF Distinct
<1>8. \A k \in 1 .. Len(s) : s[k] \in Idx BY ElementOfSeq
<1>9. \A k \in 1 .. Len(s) : /\ p[s[k]] = IF k = 1 THEN Nil ELSE s[k - 1]
                             /\ n[s[k]] = IF k = Len(s) THEN Nil ELSE s[k + 1]
      BY DEF Chained
<1>10. /\ p[i] = IF q = 1 THEN Nil ELSE s[q - 1]
       /\ n[i] = IF q = Len(s) THEN Nil ELSE s[q + 1]
       BY <1>3, <1>9
\* the node at place k of s, k # q, and what is stored in it
<1>11. ASSUME NEW k \in 1 .. Len(s), k # q
       PROVE  /\ n1[s[k]] = IF k = q - 1 THEN n[i] ELSE n[s[k]]
              /\ p1[s[k]] = IF k = q + 1 THEN p[i] ELSE p[s[k]]
  <2>1. s[k] \in Idx \ {i} BY <1>3, <1>7, <1>8, <1>11
  <2>2. s[k] = p[i] <=> k = q - 1
    <3>1. CASE q = 1 BY <1>8, <1>10, <1>11, <3>1, NilIsNoNode
    <3>2. CASE q # 1
      <4>1. q - 1 \in 1 .. Len(s) BY <1>3, <1>4, <3>2
      <4> QED BY <1>7, <1>10, <3>2, <4>1
    <3> QED BY <3>1, <3>2
  <2>3. s[k] = n[i] <=> k = q + 1
    <3>1. CASE q = Len(s) BY <1>4, <1>8, <1>10, <1>11, <3>1, NilIsNoNode
    <3>2. CASE q # Len(s)
      <4>1. q + 1 \in 1 .. Len(s) BY <1>3, <1>4, <3>2
      <4> QED BY <1>7, <1>10, <3>2, <4>1
    <3> QED BY <3>1, <3>2
  <2> QED BY <2>1, <2>2, <2>3 DEF TiedOver
<1>12. ASSUME NEW k \in 1 .. Len(w)
       PROVE  /\ p1[w[k]] = IF k = 1 THEN Nil ELSE w[k - 1]
              /\ n1[w[k]] = IF k = Len(w) THEN Nil ELSE w[k + 1]
  <2>1. CASE k < q
    <3>1. k \in 1 .. Len(s) /\ k # q /\ k # q + 1 /\ w[k] = s[k] BY <1>3, <1>4, <1>5, <1>6, <2>1
    <3>2. k # 1 => w[k - 1] = s[k - 1] BY <1>3, <1>4, <1>5, <1>6, <2>1
    <3>3. p1[w[k]] = IF k = 1 THEN Nil ELSE w[k - 1] BY <1>9, <1>11, <3>1, <3>2
    <3>4. CASE k = q - 1
      <4>1. n1[w[k]] = n[i] BY <1>11, <3>1, <3>4
      <4>2. k = Len(w) <=> q = Len(s) BY <1>3, <1>4, <1>5, <3>4
      <4>3. k # Len(w) => w[k + 1] = s[q + 1]
            BY <1>3, <1>4, <1>5, <1>6, <3>4
      <4> QED BY <1>10, <3>3, <4>1, <4>2, <4>3
    <3>5. CASE k # q - 1
      <4>1. k # Len(w) /\ k # Len(s) /\ k + 1 \in 1 .. Len(s) - 1 /\ k + 1 < q
            BY <1>3, <1>4, <1>5, <2>1, <3>1, <3>5
      <4>2. w[k + 1] = s[k + 1] BY <1>6, <4>1
      <4>3. n1[w[k]] = s[k + 1] BY <1>9, <1>11, <3>1, <3>5, <4>1
      <4> QED BY <3>3, <4>1, <4>2, <4>3
    <3> QED BY <3>4, <3>5
  <2>2. CASE k >= q
    <3>1. /\ k + 1 \in 1 .. Len(s) /\ k + 1 # q /\ k + 1 # q - 1 /\ ~(k < q)
          /\ w[k] = s[k + 1] /\ (k + 1) - 1 = k /\ k + 1 # 1
          BY <1>3, <1>4, <1>5, <1>6, <2>2
    <3>2. n1[w[k]] = IF k = Len(w) THEN Nil ELSE w[k + 1]
      <4>1. n1[w[k]] = IF k + 1 = Len(s) THEN Nil ELSE s[(k + 1) + 1] BY <1>9, <1>11, <3>1
      <4>2. k + 1 = Len(s) <=> k = Len(w) BY <1>4, <1>5
      <4>3. k # Len(w) => w[k + 1] = s[(k + 1) + 1] BY <1>3, <1>4, <1>5, <1>6, <2>2
      <4> QED BY <4>1, <4>2, <4>3
    <3>3. CASE k = q
      <4>1. p1[w[k]] = p[i] BY <1>11, <3>1, <3>3
      <4>2. k # 1 => w[k - 1] = s[q - 1] BY <1>3, <1>4, <1>5, <1>6, <3>3
      <4> QED BY <1>10, <3>2, <3>3, <4>1, <4>2
    <3>4. CASE k # q
      <4>1. k # 1 /\ k - 1 \in 1 .. Len(s) - 1 /\ ~(k - 1 < q) /\ (k - 1) + 1 = k
            BY <1>3, <1>4, <1>5, <2>2, <3>4
      <4>2. w[k - 1] = s[k] BY <1>6, <4>1
      <4>3. k + 1 # q + 1 BY <3>1, <1>3, <3>4
      <4>4. p1[w[k]] = p[s[k + 1]] BY <1>11, <3>1, <4>3
      <4>5. p[s[k + 1]] = s[k] BY <1>9, <3>1
      <4> QED BY <3>2, <4>1, <4>2, <4>4, <4>5
    <3> QED BY <3>3, <3>4
  <2> QED BY <1>3, <1>4, <1>5, <2>1, <2>2
<1>13. w = <<>> <=> Len(s) = 1 BY <1>4, <1>5, EmptySeq
<1>14. FirstOf(s) = i <=> q = 1
  <2>1. 1 \in 1 .. Len(s) BY <1>4
  <2> QED BY <1>3, <1>4, <1>7, <2>1 DEF FirstOf
<1>15. LastOf(s) = i <=> q = Len(s)
  <2>1. Len(s) \in 1 .. Len(s) BY <1>4
  <2> QED BY <1>3, <1>4, <1>7, <2>1 DEF LastOf
<1>16. FirstOf(w) = IF FirstOf(s) = i THEN n[i] ELSE FirstOf(s)
  <2>1. CASE Len(s) = 1
    <3>1. w = <<>> /\ q = 1 BY <1>3, <1>13, <2>1
    <3> QED BY <1>10, <1>14, <2>1, <3>1 DEF FirstOf
  <2>2. CASE Len(s) # 1
    <3>1. 1 \in 1 .. Len(s) - 1 /\ w # <<>> BY <1>4, <1>13, <2>2
    <3>2. CASE q = 1
      <4>1. w[1] = s[1 + 1] BY <1>6, <3>1, <3>2
      <4>2. n[i] = s[1 + 1] BY <1>10, <2>2, <3>2
      <4> QED BY <1>14, <3>1, <3>2, <4>1, <4>2 DEF FirstOf
    <3>3. CASE q # 1
      <4>1. w[1] = s[1] BY <1>3, <1>6, <3>1, <3>3
      <4> QED BY <1>4, <1>14, <3>1, <3>3, <4>1 DEF FirstOf
    <3> QED BY <3>2, <3>3
  <2> QED BY <2>1, <2>2
<1>17. LastOf(w) = IF LastOf(s) = i THEN p[i] ELSE LastOf(s)
  <2>1. CASE Len(s) = 1
    <3>1. w = <<>> /\ q = 1 BY <1>3, <1>13, <2>1
    <3> QED BY <1>10, <1>15, <2>1, <3>1 DEF LastOf
  <2>2. CASE Len(s) # 1
    <3>1. /\ w # <<>> /\ Len(w) = Len(s) - 1 /\ (Len(s) - 1) + 1 = Len(s)
          /\ w[Len(w)] = IF Len(s) - 1 < q THEN s[Len(s) - 1] ELSE s[Len(s)]
          BY <1>4, <1>5, <1>6, <1>13, <2>2
    <3>2. Len(s) - 1 < q <=> q = Len(s) BY <1>3, <1>4
    <3> QED BY <1>3, <1>4, <1>10, <1>15, <2>2, <3>1, <3>2 DEF LastOf
  <2> QED BY <2>1, <2>2
<1> QED BY <1>1, <1>12, <1>16, <1>17 DEF Chained

\* A node that is in no list becomes the tail of one.
LEMMA AppendedList ==
    ASSUME NEW s \in Seq(Idx), Distinct(s), NEW i \in Idx, i \notin Members(s),
           NEW p, NEW n, NEW p1, NEW n1, Chained(s, p, n),
           HungBehind(i, LastOf(s), p, n, p1, n1)
    PROVE  LET t == Append(s, i)
           IN  /\ Chained(t, p1, n1)
               /\ FirstOf(t) = IF LastOf(s) = Nil THEN i ELSE FirstOf(s)
               /\ LastOf(t) = i
<1>1. PICK t : t = Append(s, i) OBVIOUS
<1>2. Len(s) \in Nat BY LenProperties
<1>3. /\ t \in Seq(Idx) /\ Len(t) = Len(s) + 1 /\ t # <<>>
      /\ t[Len(s) + 1] = i /\ \A k \in 1 .. Len(s) : t[k] = s[k]
  <2>1. t \in Seq(Idx) /\ Len(t) = Len(s) + 1 /\ t[Len(s) + 1] = i /\ \A k \in 1 .. Len(s) : t[k] = s[k]
        BY <1>1, AppendProperties
  <2> QED BY <1>2, <2>1, EmptySeq
<1>4. \A k \in 1 .. Len(s) : s[k] \in Idx /\ s[k] # i BY ElementOfSeq DEF Members
<1>5. ASSUME NEW k \in 1 .. Len(s)
      PROVE  /\ p1[s[k]] = p[s[k]]
             /\ n1[s[k]] = IF k = Len(s) THEN i ELSE n[s[k]]
  <2>1. s # <<>> BY <1>2, EmptySeq
  <2>2. s[k] = LastOf(s) <=> k = Len(s)
    <3>1. Len(s) \in 1 .. Len(s) BY <1>2
    <3> QED BY <2>1, <3>1 DEF LastOf, Distinct
  <2> QED BY <1>4, <2>2 DEF HungBehind
<1>6. ASSUME NEW k \in 1 .. Len(t)
      PROVE  /\ p1[t[k]] = IF k = 1 THEN Nil ELSE t[k - 1]
             /\ n1[t[k]] = IF k = Len(t) THEN Nil ELSE t[k + 1]
  <2>1. CASE k \in 1 .. Len(s)
    <3>1. t[k] = s[k] /\ k # Len(t) BY <1>2, <1>3, <2>1
    <3>2. k # 1 => t[k - 1] = s[k - 1] BY <1>2, <1>3, <2>1
    <3>3. p1[t[k]] = IF k = 1 THEN Nil ELSE t[k - 1] BY <1>5, <2>1, <3>1, <3>2 DEF Chained
    <3>4. CASE k = Len(s)
      <4>1. n1[t[k]] = i BY <1>5, <2>1, <3>1, <3>4
      <4> QED BY <1>3, <3>1, <3>3, <3>4, <4>1
    <3>5. CASE k # Len(s)
      <4>1. n1[t[k]] = s[k + 1] BY <1>5, <2>1, <3>1, <3>5 DEF Chained
      <4>2. k + 1 \in 1 .. Len(s) BY <1>2, <2>1, <3>5
      <4> QED BY <1>3, <3>1, <3>3, <4>1, <4>2
    <3> QED BY <3>4, <3>5
  <2>2. CASE k = Len(s) + 1
    <3>1. t[k] = i /\ k = Len(t) BY <1>3, <2>2
    <3>2. n1[t[k]] = Nil /\ p1[t[k]] = LastOf(s) BY <3>1 DEF HungBehind
    <3>3. CASE s = <<>>
      <4>1. k = 1 BY <2>2, <3>3, EmptySeq
      <4> QED BY <3>1, <3>2, <3>3, <4>1 DEF LastOf
    <3>4. CASE s # <<>>
      <4>1. Len(s) \in 1 .. Len(s) /\ k # 1 /\ k - 1 = Len(s) BY <1>2, <2>2, <3>4, EmptySeq
      <4>2. t[k - 1] = LastOf(s) BY <1>3, <3>4, <4>1 DEF LastOf
      <4> QED BY <3>1, <3>2, <4>1, <4>2
    <3> QED BY <3>3, <3>4
  <2>3. k \in 1 .. Len(s) \/ k = Len(s) + 1 BY <1>2, <1>3
  <2> QED BY <2>1, <2>2, <2>3
<1>7. LastOf(t) = i BY <1>3 DEF LastOf
<1>8. FirstOf(t) = IF LastOf(s) = Nil THEN i ELSE FirstOf(s)
  <2>1. CASE s = <<>>
    <3>1. Len(s) = 0 BY <2>1, EmptySeq
    <3> QED BY <1>3, <2>1, <3>1 DEF FirstOf, LastOf
  <2>2. CASE s # <<>>
    <3>1. LastOf(s) # Nil /\ 1 \in 1 .. Len(s) BY <2>2, EndsOf, NilIsNoNode
    <3> QED BY <1>3, <2>2, <3>1 DEF FirstOf
  <2> QED BY <2>1, <2>2
<1> QED BY <1>1, <1>6, <1>7, <1>8 DEF Chained

\* A node that is in no list becomes the head of one that is not empty.
LEMMA PrependedList ==
    ASSUME NEW s \in Seq(Idx), Distinct(s), s # <<>>, NEW i \in Idx, i \notin Members(s),
           NEW p, NEW n, NEW p1, NEW n1, Chained(s, p, n),
           HungBefore(i, FirstOf(s), p, n, p1, n1),
           NEW t, t = <<i>> \o s
    PROVE  Chained(t, p1, n1) /\ FirstOf(t) = i /\ LastOf(t) = LastOf(s)
<1>1. t = <<i>> \o s OBVIOUS
<1>2. Len(s) \in Nat /\ 1 \in 1 .. Len(s) /\ FirstOf(s) = s[1] BY LenProperties, EndsOf
<1>3. /\ t \in Seq(Idx) /\ Len(t) = Len(s) + 1
      /\ t[1] = i /\ \A k \in 1 .. Len(s) : t[k + 1] = s[k]
      BY <1>1, <1>2
<1>4. t # <<>> BY <1>2, <1>3, EmptySeq
<1>5. \A k \in 1 .. Len(s) : s[k] \in Idx /\ s[k] # i BY ElementOfSeq DEF Members
<1>6. \A k \in 1 .. Len(s) : s[k] = s[1] <=> k = 1 BY <1>2 DEF Distinct
<1>7. ASSUME NEW k \in 1 .. Len(s)
      PROVE  /\ n1[s[k]] = n[s[k]]
             /\ p1[s[k]] = IF k = 1 THEN i ELSE p[s[k]]
      BY <1>2, <1>5, <1>6 DEF HungBefore
<1>8. ASSUME NEW k \in 1 .. Len(t)
      PROVE  /\ p1[t[k]] = IF k = 1 THEN Nil ELSE t[k - 1]
             /\ n1[t[k]] = IF k = Len(t) THEN Nil ELSE t[k + 1]
  <2>1. CASE k = 1
    <3>1. p1[t[k]] = Nil /\ n1[t[k]] = s[1] BY <1>2, <1>3, <2>1 DEF HungBefore
    <3>2. t[k + 1] = s[1] /\ k # Len(t) BY <1>2, <1>3, <2>1
    <3> QED BY <2>1, <3>1, <3>2
  <2>2. CASE k # 1
    <3>1. PICK j : j = k - 1 OBVIOUS
    <3>2. j \in 1 .. Len(s) /\ k = j + 1 /\ t[k] = s[j]
      <4>1. j \in 1 .. Len(s) /\ k = j + 1 BY <1>2, <1>3, <2>2, <3>1
      <4> QED BY <1>3, <4>1
    <3>3. p1[t[k]] = t[k - 1]
      <4>1. CASE j = 1 BY <1>3, <1>7, <3>1, <3>2, <4>1
      <4>2. CASE j # 1
        <5>1. j - 1 \in 1 .. Len(s) /\ (j - 1) + 1 = j BY <3>2, <4>2
        <5>2. t[j] = s[j - 1] BY <1>3, <5>1
        <5>3. p1[s[j]] = s[j - 1] BY <1>7, <3>2, <4>2 DEF Chained
        <5> QED BY <3>1, <3>2, <5>2, <5>3
      <4> QED BY <4>1, <4>2
    <3>4. n1[t[k]] = IF k = Len(t) THEN Nil ELSE t[k + 1]
      <4>1. n1[t[k]] = IF j = Len(s) THEN Nil ELSE s[j + 1] BY <1>7, <3>2 DEF Chained
      <4>2. j = Len(s) <=> k = Len(t) BY <1>2, <1>3, <3>2
      <4>3. k # Len(t) => j + 1 \in 1 .. Len(s) /\ k + 1 = (j + 1) + 1 BY <1>2, <1>3, <3>2
      <4>4. k # Len(t) => t[k + 1] = s[j + 1] BY <1>3, <4>3
      <4> QED BY <4>1, <4>2, <4>4
    <3> QED BY <2>2, <3>3, <3>4
  <2> QED BY <2>1, <2>2
<1>9. FirstOf(t) = i BY <1>3, <1>4 DEF FirstOf
<1>10. LastOf(t) = LastOf(s)
  <2>1. Len(s) \in 1 .. Len(s) BY <1>2
  <2>2. t[Len(t)] = s[Len(s)] BY <1>3, <2>1
  <2> QED BY <1>4, <2>2 DEF LastOf
<1> QED BY <1>1, <1>8, <1>9, <1>10 DEF Chained

\* The two directions of a chain agree, and no node points to itself.
LEMMA LinksAgree ==
    ASSUME NEW s \in Seq(Idx), Distinct(s), NEW p, NEW n, Chained(s, p, n)
    PROVE  \A x \in Members(s) : /\ x \in Idx /\ n[x] # x /\ p[x] # x
                                 /\ n[x] \in Members(s) \cup {Nil} /\ p[x] \in Members(s) \cup {Nil}
                                 /\ \A y \in Members(s) : x = p[y] <=> n[x] = y
<1>1. Len(s) \in Nat /\ \A k \in 1 .. Len(s) : s[k] \in Idx BY LenProperties, ElementOfSeq
<1>2. \A j, k \in 1 .. Len(s) : s[j] = s[k] => j = k BY DEF Distinct
<1>3. ASSUME NEW k \in 1 .. Len(s)
      PROVE  /\ n[s[k]] # s[k] /\ p[s[k]] # s[k]
             /\ n[s[k]] \in Members(s) \cup {Nil} /\ p[s[k]] \in Members(s) \cup {Nil}
  <2>1. CASE k = Len(s)
    <3>1. n[s[k]] = Nil BY <2>1 DEF Chained
    <3>2. CASE k = 1
      <4>1. p[s[k]] = Nil BY <3>2 DEF Chained
      <4> QED BY <1>1, <3>1, <4>1, NilIsNoNode
    <3>3. CASE k # 1
      <4>1. p[s[k]] = s[k - 1] /\ k - 1 \in 1 .. Len(s) /\ k - 1 # k BY <1>1, <3>3 DEF Chained
      <4>2. s[k - 1] # s[k] BY <1>2, <4>1
      <4>3. s[k - 1] \in Members(s) BY <4>1 DEF Members
      <4> QED BY <1>1, <3>1, <4>1, <4>2, <4>3, NilIsNoNode
    <3> QED BY <3>2, <3>3
  <2>2. CASE k # Len(s)
    <3>1. n[s[k]] = s[k + 1] /\ k + 1 \in 1 .. Len(s) /\ k + 1 # k BY <1>1, <2>2 DEF Chained
    <3>2. s[k + 1] # s[k] /\ s[k + 1] \in Members(s) BY <1>2, <3>1 DEF Members
    <3>3. CASE k = 1
      <4>1. p[s[k]] = Nil BY <3>3 DEF Chained
      <4> QED BY <1>1, <3>1, <3>2, <4>1, NilIsNoNode
    <3>4. CASE k # 1
      <4>1. p[s[k]] = s[k - 1] /\ k - 1 \in 1 .. Len(s) /\ k - 1 # k BY <1>1, <3>4 DEF Chained
      <4>2. s[k - 1] # s[k] BY <1>2, <4>1
      <4>3. s[k - 1] \in Members(s) BY <4>1 DEF Members
      <4> QED BY <3>1, <3>2, <4>1, <4>2, <4>3
    <3> QED BY <3>3, <3>4
  <2> QED BY <2>1, <2>2
<1>4. ASSUME NEW k \in 1 .. Len(s), NEW m \in 1 .. Len(s)
      PROVE  s[k] = p[s[m]] <=> n[s[k]] = s[m]
  <2>1. s[k] = p[s[m]] => k + 1 = m
    <3>1. CASE m = 1
      <4>1. p[s[m]] = Nil BY <3>1 DEF Chained
      <4> QED BY <1>1, <4>1, NilIsNoNode
    <3>2. CASE m # 1
      <4>1. p[s[m]] = s[m - 1] /\ m - 1 \in 1 .. Len(s) BY <1>1, <3>2 DEF Chained
      <4>2. s[k] = s[m - 1] => k = m - 1 BY <1>2, <4>1
      <4> QED BY <4>1, <4>2
    <3> QED BY <3>1, <3>2
  <2>2. n[s[k]] = s[m] => k + 1 = m
    <3>1. CASE k = Len(s)
      <4>1. n[s[k]] = Nil BY <3>1 DEF Chained
      <4> QED BY <1>1, <4>1, NilIsNoNode
    <3>2. CASE k # Len(s)
      <4>1. n[s[k]] = s[k + 1] /\ k + 1 \in 1 .. Len(s) BY <1>1, <3>2 DEF Chained
      <4>2. s[k + 1] = s[m] => k + 1 = m BY <1>2, <4>1
      <4> QED BY <4>1, <4>2
    <3> QED BY <3>1, <3>2
  <2>3. ASSUME k + 1 = m PROVE s[k] = p[s[m]] /\ n[s[k]] = s[m]
    <3>1. m # 1 /\ m - 1 = k /\ k # Len(s) BY <1>1, <2>3
    <3> QED BY <2>3, <3>1 DEF Chained
  <2> QED BY <2>1, <2>2, <2>3
<1> QED BY <1>1, <1>3, <1>4 DEF Members

\* The links p1 and n1 are p and n after the stores of a swap of i and j.
Crossed(i, j, p, n, p1, n1) ==
    \A x \in Idx :
        /\ n1[x] = CASE x = j -> IF j = n[i] THEN i ELSE n[i]
                     [] x = i -> IF i = n[j] THEN j ELSE n[j]
                     [] OTHER -> IF x = p[j] THEN i ELSE IF x = p[i] THEN j ELSE n[x]
        /\ p1[x] = CASE x = j -> IF j = p[i] THEN i ELSE p[i]
                     [] x = i -> IF i = p[j] THEN j ELSE p[j]
                     [] OTHER -> IF x = n[j] THEN i ELSE IF x = n[i] THEN j ELSE p[x]

\* The stores of a swap exchange two nodes of a list, neighbours or not.
LEMMA CrossedList ==
    ASSUME NEW s \in Seq(Idx), Distinct(s), NEW i \in Members(s), NEW j \in Members(s), i # j,
           NEW p, NEW n, NEW p1, NEW n1, Chained(s, p, n), Crossed(i, j, p, n, p1, n1)
    PROVE  LET t == Exchanged(s, i, j)
               Other(x) == IF x = i THEN j ELSE IF x = j THEN i ELSE x
           IN  /\ Chained(t, p1, n1)
               /\ FirstOf(t) = Other(FirstOf(s)) /\ LastOf(t) = Other(LastOf(s))
<1> DEFINE Other(x) == IF x = i THEN j ELSE IF x = j THEN i ELSE x
<1>1. PICK t : t = Exchanged(s, i, j) OBVIOUS
<1>2. t \in Seq(Idx) /\ Len(t) = Len(s) /\ Len(s) \in Nat BY <1>1, SwapOf, LenProperties
<1>3. \A k \in 1 .. Len(s) : t[k] = Other(s[k]) BY <1>1 DEF Exchanged
<1>4. \A k \in 1 .. Len(s) : s[k] \in Members(s) BY DEF Members
<1>5. \A x \in Members(s) : /\ x \in Idx /\ n[x] # x /\ p[x] # x
                            /\ n[x] \in Members(s) \cup {Nil} /\ p[x] \in Members(s) \cup {Nil}
                            /\ \A y \in Members(s) : x = p[y] <=> n[x] = y
      BY LinksAgree
<1>6. ASSUME NEW x \in Members(s)
      PROVE  n1[Other(x)] = Other(n[x]) /\ p1[Other(x)] = Other(p[x])
  <2>1. CASE x = i
    <3>1. n1[j] = IF j = n[i] THEN i ELSE n[i] BY <1>5 DEF Crossed
    <3>2. p1[j] = IF j = p[i] THEN i ELSE p[i] BY <1>5 DEF Crossed
    <3>3. n[i] # i /\ p[i] # i BY <1>5
    <3> QED BY <2>1, <3>1, <3>2, <3>3
  <2>2. CASE x = j
    <3>1. n1[i] = IF i = n[j] THEN j ELSE n[j] BY <1>5 DEF Crossed
    <3>2. p1[i] = IF i = p[j] THEN j ELSE p[j] BY <1>5 DEF Crossed
    <3>3. n[j] # j /\ p[j] # j BY <1>5
    <3> QED BY <2>2, <3>1, <3>2, <3>3
  <2>3. CASE x # i /\ x # j
    <3>1. n1[x] = IF x = p[j] THEN i ELSE IF x = p[i] THEN j ELSE n[x] BY <1>5, <2>3 DEF Crossed
    <3>2. p1[x] = IF x = n[j] THEN i ELSE IF x = n[i] THEN j ELSE p[x] BY <1>5, <2>3 DEF Crossed
    <3>3. (x = p[j] <=> n[x] = j) /\ (x = p[i] <=> n[x] = i) BY <1>5
    <3>4. (x = n[j] <=> p[x] = j) /\ (x = n[i] <=> p[x] = i) BY <1>5
    <3> QED BY <2>3, <3>1, <3>2, <3>3, <3>4
  <2> QED BY <2>1, <2>2, <2>3
<1>7. Other(Nil) = Nil BY <1>5, NilIsNoNode
<1> HIDE DEF Other
<1>8. ASSUME NEW k \in 1 .. Len(t)
      PROVE  /\ p1[t[k]] = IF k = 1 THEN Nil ELSE t[k - 1]
             /\ n1[t[k]] = IF k = Len(t) THEN Nil ELSE t[k + 1]
  <2>1. k \in 1 .. Len(s) BY <1>2
  <2>2. p1[t[k]] = Other(p[s[k]]) /\ n1[t[k]] = Other(n[s[k]]) BY <1>3, <1>4, <1>6, <2>1
  <2>3. /\ p[s[k]] = IF k = 1 THEN Nil ELSE s[k - 1]
        /\ n[s[k]] = IF k = Len(s) THEN Nil ELSE s[k + 1]
        BY <2>1 DEF Chained
  <2>4. k # 1 => k - 1 \in 1 .. Len(s) BY <1>2
  <2>5. k # Len(s) => k + 1 \in 1 .. Len(s) BY <1>2
  <2>6. (k # 1 => t[k - 1] = Other(s[k - 1])) /\ (k # Len(s) => t[k + 1] = Other(s[k + 1]))
        BY <1>3, <2>4, <2>5
  <2> QED BY <1>2, <1>7, <2>2, <2>3, <2>6
<1>9. FirstOf(t) = Other(FirstOf(s)) /\ LastOf(t) = Other(LastOf(s))
  <2>1. s # <<>> /\ Len(s) # 0 BY MembersEmpty, EmptySeq
  <2>2. t # <<>> /\ 1 \in 1 .. Len(s) /\ Len(s) \in 1 .. Len(s) BY <1>2, <2>1, EmptySeq
  <2>3. t[1] = Other(s[1]) /\ t[Len(s)] = Other(s[Len(s)]) BY <1>3, <2>2
  <2> QED BY <1>2, <2>1, <2>2, <2>3 DEF FirstOf, LastOf
<1> QED BY <1>1, <1>8, <1>9 DEF Chained, Other

-----------------------------------------------------------------------------
(* What they do to all the lists *)

\* Node i is in none of the lists ls.
InNone(ls, i) == \A l \in Lids : i \notin Members(ls[l])

\* list_head_ and list_tail_ of the other lists are left alone.
OnlyOf(l, f, f1) == \A m \in Lids : m # l => f1[m] = f[m]

\* Taking a node out of its list.
LEMMA TakenOut ==
    ASSUME NEW ls, ListsOf(ls, Lids, Idx), NEW l \in Lids, NEW i \in Members(ls[l]),
           NEW p, NEW n, NEW h, NEW t, Threads(ls, p, n, h, t),
           NEW p1, NEW n1, TiedOver(i, p, n, p1, n1),
           NEW h1, OnlyOf(l, h, h1), h1[l] = IF h[l] = i THEN n[i] ELSE h[l],
           NEW t1, OnlyOf(l, t, t1), t1[l] = IF t[l] = i THEN p[i] ELSE t[l]
    PROVE  LET rest == [ls EXCEPT ![l] = Without(@, i)]
           IN  ListsOf(rest, Lids, Idx) /\ Threads(rest, p1, n1, h1, t1) /\ InNone(rest, i)
<1>1. PICK rest : rest = [ls EXCEPT ![l] = Without(@, i)] OBVIOUS
<1>2. PICK w : w = Without(ls[l], i) OBVIOUS
<1>3. ls \in [Lids -> Seq(Idx)] /\ Distinct(ls[l]) /\ ls[l] \in Seq(Idx) BY DEF ListsOf
<1>4. \A m \in Lids : m # l => Members(ls[l]) \cap Members(ls[m]) = {} BY DEF ListsOf
<1>5. w \in Seq(Idx) /\ Distinct(w) /\ Members(w) = Members(ls[l]) \ {i} BY <1>2, <1>3, WithoutMember
<1>6. rest[l] = w /\ rest \in [Lids -> Seq(Idx)] /\ \A m \in Lids : m # l => rest[m] = ls[m]
      BY <1>1, <1>2, <1>3, <1>5
<1>7. \A m \in Lids : Members(rest[m]) \subseteq Members(ls[m]) /\ Distinct(rest[m])
  <2>1. \A m \in Lids : Distinct(ls[m]) BY DEF ListsOf
  <2> QED BY <1>5, <1>6, <2>1
<1>8. ListsOf(rest, Lids, Idx)
  <2>1. \A m, k \in Lids : m # k => Members(ls[m]) \cap Members(ls[k]) = {} BY DEF ListsOf
  <2>2. \A m, k \in Lids : m # k => Members(rest[m]) \cap Members(rest[k]) = {} BY <1>7, <2>1
  <2> QED BY <1>6, <1>7, <2>2 DEF ListsOf
<1>9. InNone(rest, i) BY <1>4, <1>5, <1>6 DEF InNone
<1>10. Chained(ls[l], p, n) BY DEF Threads
<1>11. p[i] \in Members(ls[l]) \cup {Nil} /\ n[i] \in Members(ls[l]) \cup {Nil}
       BY <1>3, <1>10, LinksAgree
<1>12. Chained(w, p1, n1) /\ h1[l] = FirstOf(w) /\ t1[l] = LastOf(w)
  <2>1. /\ Chained(w, p1, n1)
        /\ FirstOf(w) = IF FirstOf(ls[l]) = i THEN n[i] ELSE FirstOf(ls[l])
        /\ LastOf(w) = IF LastOf(ls[l]) = i THEN p[i] ELSE LastOf(ls[l])
        BY <1>2, <1>3, <1>10, TiedOverList
  <2>2. h[l] = FirstOf(ls[l]) /\ t[l] = LastOf(ls[l]) BY DEF Threads
  <2> QED BY <2>1, <2>2
<1>13. ASSUME NEW m \in Lids, m # l
       PROVE  Chained(ls[m], p1, n1) /\ h1[m] = FirstOf(ls[m]) /\ t1[m] = LastOf(ls[m])
  <2>1. Members(ls[m]) \subseteq Idx
    <3>1. ls[m] \in Seq(Idx) BY <1>3
    <3> QED BY <3>1, MembersEmpty
  <2>2. \A x \in Members(ls[m]) : x \in Idx \ {i} /\ x # p[i] /\ x # n[i]
        BY <1>4, <1>11, <1>13, <2>1, NilIsNoNode
  <2>3. \A x \in Members(ls[m]) : p1[x] = p[x] /\ n1[x] = n[x] BY <2>2 DEF TiedOver
  <2>4. Chained(ls[m], p, n) /\ h[m] = FirstOf(ls[m]) /\ t[m] = LastOf(ls[m]) BY DEF Threads
  <2> QED BY <1>13, <2>3, <2>4, OthersUntouched DEF OnlyOf
<1>14. Threads(rest, p1, n1, h1, t1) BY <1>6, <1>12, <1>13 DEF Threads
<1> QED BY <1>1, <1>8, <1>9, <1>14

\* The tail of a list takes a node that is in none.
LEMMA PutLast ==
    ASSUME NEW ls, ListsOf(ls, Lids, Idx), NEW l \in Lids, NEW i \in Idx, InNone(ls, i),
           NEW p, NEW n, NEW h, NEW t, Threads(ls, p, n, h, t),
           NEW p1, NEW n1, NEW h1, OnlyOf(l, h, h1), NEW t1, OnlyOf(l, t, t1),
           HungBehind(i, t[l], p, n, p1, n1),
           h1[l] = IF t[l] = Nil THEN i ELSE h[l], t1[l] = i
    PROVE  Threads([ls EXCEPT ![l] = Append(@, i)], p1, n1, h1, t1)
<1>1. PICK new : new = [ls EXCEPT ![l] = Append(@, i)] OBVIOUS
<1>2. ls \in [Lids -> Seq(Idx)] /\ Distinct(ls[l]) /\ ls[l] \in Seq(Idx) BY DEF ListsOf
<1>3. new[l] = Append(ls[l], i) /\ \A m \in Lids : m # l => new[m] = ls[m] BY <1>1, <1>2
<1>4. Chained(ls[l], p, n) /\ h[l] = FirstOf(ls[l]) /\ t[l] = LastOf(ls[l]) BY DEF Threads
<1>5. i \notin Members(ls[l]) BY DEF InNone
<1>6. HungBehind(i, LastOf(ls[l]), p, n, p1, n1) BY <1>4
<1>7. /\ Chained(new[l], p1, n1)
      /\ FirstOf(new[l]) = IF LastOf(ls[l]) = Nil THEN i ELSE FirstOf(ls[l])
      /\ LastOf(new[l]) = i
      BY <1>2, <1>3, <1>4, <1>5, <1>6, AppendedList
<1>8. t[l] \in Members(ls[l]) \cup {Nil} BY <1>2, <1>4, EndsOf
<1>9. ASSUME NEW m \in Lids, m # l
      PROVE  Chained(ls[m], p1, n1) /\ h1[m] = FirstOf(ls[m]) /\ t1[m] = LastOf(ls[m])
  <2>1. Members(ls[m]) \subseteq Idx
    <3>1. ls[m] \in Seq(Idx) BY <1>2
    <3> QED BY <3>1, MembersEmpty
  <2>2. Members(ls[l]) \cap Members(ls[m]) = {} BY <1>9 DEF ListsOf
  <2>3. \A x \in Members(ls[m]) : x \in Idx /\ x # i /\ x # t[l]
        BY <1>8, <2>1, <2>2, NilIsNoNode DEF InNone
  <2>4. \A x \in Members(ls[m]) : p1[x] = p[x] /\ n1[x] = n[x] BY <2>3 DEF HungBehind
  <2>5. Chained(ls[m], p, n) /\ h[m] = FirstOf(ls[m]) /\ t[m] = LastOf(ls[m]) BY DEF Threads
  <2> QED BY <1>9, <2>4, <2>5, OthersUntouched DEF OnlyOf
<1>10. Threads(new, p1, n1, h1, t1) BY <1>3, <1>4, <1>7, <1>9 DEF Threads
<1> QED BY <1>1, <1>10

\* So does the head of a list that is not empty.
LEMMA PutFirst ==
    ASSUME NEW ls, ListsOf(ls, Lids, Idx), NEW l \in Lids, NEW i \in Idx, InNone(ls, i),
           ls[l] # <<>>,
           NEW p, NEW n, NEW h, NEW t, Threads(ls, p, n, h, t),
           NEW p1, NEW n1, NEW h1, OnlyOf(l, h, h1), NEW t1, OnlyOf(l, t, t1),
           HungBefore(i, h[l], p, n, p1, n1),
           h1[l] = i, t1[l] = t[l]
    PROVE  Threads([ls EXCEPT ![l] = <<i>> \o @], p1, n1, h1, t1)
<1>1. PICK new : new = [ls EXCEPT ![l] = <<i>> \o @] OBVIOUS
<1>2. ls \in [Lids -> Seq(Idx)] /\ Distinct(ls[l]) /\ ls[l] \in Seq(Idx) BY DEF ListsOf
<1>3. new[l] = <<i>> \o ls[l] /\ \A m \in Lids : m # l => new[m] = ls[m] BY <1>1, <1>2
<1>4. Chained(ls[l], p, n) /\ h[l] = FirstOf(ls[l]) /\ t[l] = LastOf(ls[l]) BY DEF Threads
<1>5. i \notin Members(ls[l]) BY DEF InNone
<1>6. HungBefore(i, FirstOf(ls[l]), p, n, p1, n1) BY <1>4
<1>7. Chained(new[l], p1, n1) /\ FirstOf(new[l]) = i /\ LastOf(new[l]) = LastOf(ls[l])
  <2>1. PICK s : s = ls[l] OBVIOUS
  <2>2. s \in Seq(Idx) /\ Distinct(s) /\ s # <<>> /\ i \notin Members(s) /\ Chained(s, p, n)
        BY <1>2, <1>4, <1>5, <2>1
  <2>3. HungBefore(i, FirstOf(s), p, n, p1, n1) BY <1>6, <2>1
  <2>4. PICK u : u = <<i>> \o s OBVIOUS
  <2>5. Chained(u, p1, n1) /\ FirstOf(u) = i /\ LastOf(u) = LastOf(s)
        BY <2>2, <2>3, <2>4, PrependedList
  <2> QED BY <1>3, <2>1, <2>4, <2>5
<1>8. h[l] \in Members(ls[l]) BY <1>2, <1>4, EndsOf
<1>9. ASSUME NEW m \in Lids, m # l
      PROVE  Chained(ls[m], p1, n1) /\ h1[m] = FirstOf(ls[m]) /\ t1[m] = LastOf(ls[m])
  <2>1. Members(ls[m]) \subseteq Idx
    <3>1. ls[m] \in Seq(Idx) BY <1>2
    <3> QED BY <3>1, MembersEmpty
  <2>2. Members(ls[l]) \cap Members(ls[m]) = {} BY <1>9 DEF ListsOf
  <2>3. \A x \in Members(ls[m]) : x \in Idx /\ x # i /\ x # h[l]
        BY <1>8, <2>1, <2>2 DEF InNone
  <2>4. \A x \in Members(ls[m]) : p1[x] = p[x] /\ n1[x] = n[x] BY <2>3 DEF HungBefore
  <2>5. Chained(ls[m], p, n) /\ h[m] = FirstOf(ls[m]) /\ t[m] = LastOf(ls[m]) BY DEF Threads
  <2> QED BY <1>9, <2>4, <2>5, OthersUntouched DEF OnlyOf
<1>10. Threads(new, p1, n1, h1, t1) BY <1>3, <1>4, <1>7, <1>9 DEF Threads
<1> QED BY <1>1, <1>10

\* The stores of a swap exchange two nodes of the same list.
LEMMA SwappedThreads ==
    ASSUME NEW ls, ListsOf(ls, Lids, Idx), NEW l \in Lids,
           NEW i \in Members(ls[l]), NEW j \in Members(ls[l]), i # j,
           NEW p, NEW n, NEW h, NEW t, Threads(ls, p, n, h, t),
           NEW p1, NEW n1, Crossed(i, j, p, n, p1, n1),
           NEW h1, OnlyOf(l, h, h1),
           h1[l] = IF h[l] = i THEN j ELSE IF h[l] = j THEN i ELSE h[l],
           NEW t1, OnlyOf(l, t, t1),
           t1[l] = IF t[l] = i THEN j ELSE IF t[l] = j THEN i ELSE t[l]
    PROVE  Threads(Swapped(ls, i, j), p1, n1, h1, t1)
<1>1. PICK new : new = Swapped(ls, i, j) OBVIOUS
<1>2. new[l] = Exchanged(ls[l], i, j) /\ \A m \in Lids : m # l => new[m] = ls[m]
  <2>1. SwappedIn(ls, Swapped(ls, i, j), Lids, l, i, j) BY SwappedLists
  <2> QED BY <1>1, <2>1 DEF SwappedIn
<1>3. ls \in [Lids -> Seq(Idx)] /\ Distinct(ls[l]) /\ ls[l] \in Seq(Idx) BY DEF ListsOf
<1>4. Chained(ls[l], p, n) /\ h[l] = FirstOf(ls[l]) /\ t[l] = LastOf(ls[l]) BY DEF Threads
<1>5. /\ Chained(new[l], p1, n1)
      /\ h1[l] = FirstOf(new[l]) /\ t1[l] = LastOf(new[l])
      BY <1>2, <1>3, <1>4, CrossedList
<1>6. /\ i \in Members(ls[l]) /\ j \in Members(ls[l])
      /\ {p[i], n[i], p[j], n[j]} \subseteq Members(ls[l]) \cup {Nil}
      BY <1>3, <1>4, LinksAgree
<1>7. ASSUME NEW m \in Lids, m # l
      PROVE  Chained(ls[m], p1, n1) /\ h1[m] = FirstOf(ls[m]) /\ t1[m] = LastOf(ls[m])
  <2>1. Members(ls[m]) \subseteq Idx
    <3>1. ls[m] \in Seq(Idx) BY <1>3
    <3> QED BY <3>1, MembersEmpty
  <2>2. Members(ls[l]) \cap Members(ls[m]) = {} BY <1>7 DEF ListsOf
  <2>3. \A x \in Members(ls[m]) : x \in Idx /\ x \notin {i, j, p[i], n[i], p[j], n[j]}
        BY <1>6, <2>1, <2>2, NilIsNoNode
  <2>4. \A x \in Members(ls[m]) : p1[x] = p[x] /\ n1[x] = n[x] BY <2>3 DEF Crossed
  <2>5. Chained(ls[m], p, n) /\ h[m] = FirstOf(ls[m]) /\ t[m] = LastOf(ls[m]) BY DEF Threads
  <2> QED BY <1>7, <2>4, <2>5, OthersUntouched DEF OnlyOf
<1>8. Threads(new, p1, n1, h1, t1) BY <1>2, <1>5, <1>7 DEF Threads
<1> QED BY <1>1, <1>8

-----------------------------------------------------------------------------
(* The steps *)

\* A store that is left out for -1.
LEMMA PutAt ==
    ASSUME NEW f \in [Idx -> Idx \cup {Nil}], NEW i, NEW v \in Idx \cup {Nil},
           NEW g, g = Put(f, i, v)
    PROVE  /\ g \in [Idx -> Idx \cup {Nil}]
           /\ \A x \in Idx : g[x] = IF x = i THEN v ELSE f[x]
BY DEF Put

\* A list without its head.
LEMMA WithoutHead ==
    ASSUME NEW S, NEW s \in Seq(S), Distinct(s), s # <<>>
    PROVE  Without(s, Head(s)) = Tail(s)
<1>1. /\ Tail(s) \in Seq(S) /\ Len(Tail(s)) = Len(s) - 1 /\ Head(s) = s[1]
      /\ Head(s) \in Members(s)
      BY TailOf
<1>2. \A k \in 1 .. Len(Tail(s)) : Tail(s)[k] = s[k + 1] BY HeadTailProperties
<1>3. Len(s) \in Nat /\ Len(s) # 0 BY LenProperties, EmptySeq
<1>4. PlaceOf(s, Head(s)) = 1
  <2>1. PlaceOf(s, Head(s)) \in 1 .. Len(s) /\ s[PlaceOf(s, Head(s))] = Head(s)
        BY <1>1, PlaceOfMember
  <2>2. 1 \in 1 .. Len(s) BY <1>3
  <2> QED BY <1>1, <2>1, <2>2 DEF Distinct
<1>5. Without(s, Head(s)) = [k \in 1 .. Len(s) - 1 |-> s[k + 1]]
  <2>1. \A k \in 1 .. Len(s) - 1 : ~(k < 1) BY <1>3
  <2> QED BY <1>4, <2>1 DEF Without
<1>6. Tail(s) = [k \in 1 .. Len(s) - 1 |-> Tail(s)[k]] BY <1>1, LenProperties
<1> QED BY <1>1, <1>2, <1>5, <1>6

\* What the array stands for, taken apart.
LEMMA PartsOf ==
    ASSUME TypeOK, NEW ls, StandsFor(ls), NEW l \in Lids
    PROVE  /\ ls \in [Lids -> Seq(Idx)] /\ ls[l] \in Seq(Idx) /\ Distinct(ls[l])
           /\ Chained(ls[l], prev, next)
           /\ head[l] = FirstOf(ls[l]) /\ tail[l] = LastOf(ls[l])
           /\ \A i \in Idx : i \in Members(ls[l]) <=> lid[i] = l
           /\ Members(ls[l]) \subseteq Idx
           /\ num[l] = Len(ls[l]) /\ Len(ls[l]) \in Nat
<1>1. ls[l] \in Seq(Idx) BY DEF StandsFor, ListsOf
<1> QED BY <1>1, LenProperties, MembersEmpty DEF StandsFor, ListsOf, Threads, Labels

\* move() takes the head of one list and hangs it behind the tail of another, or
\* of the same.
LEMMA MoveStep ==
    ASSUME TypeOK, NEW ls, StandsFor(ls), NEW src \in Lids, NEW dst \in Lids, Move(src, dst)
    PROVE  ls[src] # <<>> /\ TypeOK' /\ StandsFor(Moved(ls, src, dst))'
<1>1. PICK s : s = ls[src] OBVIOUS
<1>2. PICK m : m = head[src] OBVIOUS
<1>3. PICK nm : nm = next[m] OBVIOUS
<1>4. PICK after : after = IF src = dst /\ nm = Nil THEN Nil ELSE tail[dst] OBVIOUS
<1>13. PICK h1 : h1 = [head EXCEPT ![src] = nm] OBVIOUS
<1>14. PICK t1 : t1 = [tail EXCEPT ![src] = IF nm = Nil THEN Nil ELSE tail[src]] OBVIOUS
<1>33. PICK nd : nd = [num EXCEPT ![src] = IF nm = Nil THEN 0 ELSE num[src] - 1] OBVIOUS
<1>5. /\ m \in Idx
      /\ lid' = [lid EXCEPT ![m] = dst]
      /\ prev' = Put(Put(prev, nm, Nil), m, after)
      /\ next' = Put(Put(next, after, m), m, Nil)
      /\ head' = [h1 EXCEPT ![dst] = IF after = Nil THEN m ELSE h1[dst]]
      /\ tail' = [t1 EXCEPT ![dst] = m]
      /\ num' = [nd EXCEPT ![dst] = nd[dst] + 1]
      BY <1>2, <1>3, <1>4, <1>13, <1>14, <1>33 DEF Move
<1>6. /\ s \in Seq(Idx) /\ Distinct(s) /\ Chained(s, prev, next)
      /\ m = FirstOf(s) /\ tail[src] = LastOf(s) /\ num[src] = Len(s) /\ Len(s) \in Nat
      BY <1>1, <1>2, PartsOf
<1>7. s # <<>> BY <1>5, <1>6, NilIsNoNode DEF FirstOf
<1>8. Head(s) = m /\ s[1] = m /\ m \in Members(s) BY <1>6, <1>7, EndsOf, TailOf
<1>9. 1 \in 1 .. Len(s) /\ Len(s) \in 1 .. Len(s) /\ Len(s) >= 1
  <2>1. Len(s) # 0 BY <1>6, <1>7, EmptySeq
  <2> QED BY <1>6, <2>1
<1>10. prev[m] = Nil /\ (nm = Nil <=> Len(s) = 1) /\ (tail[src] = m <=> Len(s) = 1)
  <2>1. prev[m] = Nil /\ nm = IF 1 = Len(s) THEN Nil ELSE s[1 + 1] BY <1>3, <1>6, <1>8, <1>9 DEF Chained
  <2>2. 1 # Len(s) => s[1 + 1] \in Idx
    <3> SUFFICES ASSUME 1 # Len(s) PROVE s[1 + 1] \in Idx OBVIOUS
    <3>1. Len(s) \in Nat /\ Len(s) >= 2
      <4>1. PICK k : k = Len(s) OBVIOUS
      <4>2. k \in Nat /\ k >= 1 /\ k # 1 BY <1>6, <1>9, <4>1
      <4> QED BY <4>1, <4>2
    <3>2. 2 \in 1 .. Len(s) /\ 1 + 1 = 2 BY <3>1
    <3> QED BY <1>6, <3>2, ElementOfSeq
  <2>3. s[Len(s)] = s[1] <=> Len(s) = 1 BY <1>6, <1>9 DEF Distinct
  <2> QED BY <1>6, <1>7, <1>8, <2>1, <2>2, <2>3, NilIsNoNode DEF LastOf
<1>11. {nm, after, m, Nil} \subseteq Idx \cup {Nil} BY <1>3, <1>4, <1>5 DEF TypeOK
<1>32. nd \in [Lids -> Nat] /\ nd[src] = Len(s) - 1 /\ \A l \in Lids : l # src => nd[l] = num[l]
  <2>1. PICK k : k = Len(s) OBVIOUS
  <2>2. k \in Nat /\ k >= 1 /\ num[src] = k /\ (nm = Nil <=> k = 1) BY <1>6, <1>9, <1>10, <2>1
  <2>3. PICK c : c = IF nm = Nil THEN 0 ELSE num[src] - 1 OBVIOUS
  <2>4. c = k - 1 /\ c \in Nat BY <2>2, <2>3
  <2> QED BY <1>33, <2>1, <2>3, <2>4 DEF TypeOK
<1>12. PICK p1 : p1 = Put(prev, nm, Nil) OBVIOUS
<1>15. /\ p1 \in [Idx -> Idx \cup {Nil}]
       /\ \A x \in Idx : p1[x] = IF x = nm THEN Nil ELSE prev[x]
       BY <1>11, <1>12, PutAt DEF TypeOK
<1>16. TiedOver(m, prev, next, p1, next) BY <1>3, <1>10, <1>15, NilIsNoNode DEF TiedOver
<1>17. OnlyOf(src, head, h1) /\ h1[src] = nm /\ OnlyOf(src, tail, t1)
       /\ t1[src] = IF nm = Nil THEN Nil ELSE tail[src]
       BY <1>13, <1>14 DEF OnlyOf, TypeOK
<1>18. PICK rest : rest = [ls EXCEPT ![src] = Without(@, m)] OBVIOUS
<1>19. ListsOf(ls, Lids, Idx) /\ Threads(ls, prev, next, head, tail) /\ Labels(ls, lid, num)
       BY DEF StandsFor
<1>20. ListsOf(rest, Lids, Idx) /\ Threads(rest, p1, next, h1, t1) /\ InNone(rest, m)
  <2>1. h1[src] = IF head[src] = m THEN next[m] ELSE head[src] BY <1>2, <1>3, <1>17
  <2>2. t1[src] = IF tail[src] = m THEN prev[m] ELSE tail[src] BY <1>10, <1>17
  <2>3. m \in Members(ls[src]) BY <1>1, <1>8
  <2> QED BY <1>16, <1>17, <1>18, <1>19, <2>1, <2>2, <2>3, TakenOut
<1>21. after = t1[dst] BY <1>4, <1>17 DEF OnlyOf
<1>22. HungBehind(m, t1[dst], p1, next, prev', next')
  <2>1. prev' = Put(p1, m, after) BY <1>5, <1>12
  <2>2. \A x \in Idx : prev'[x] = IF x = m THEN after ELSE p1[x] BY <1>11, <1>15, <2>1, PutAt
  <2>3. PICK na : na = Put(next, after, m) OBVIOUS
  <2>4. na \in [Idx -> Idx \cup {Nil}] /\ \A x \in Idx : na[x] = IF x = after THEN m ELSE next[x]
        BY <1>11, <2>3, PutAt DEF TypeOK
  <2>5. \A x \in Idx : next'[x] = IF x = m THEN Nil ELSE na[x] BY <1>5, <1>11, <2>3, <2>4, PutAt
  <2> QED BY <1>21, <2>2, <2>4, <2>5 DEF HungBehind
<1>23. OnlyOf(dst, h1, head') /\ OnlyOf(dst, t1, tail')
       /\ head'[dst] = (IF t1[dst] = Nil THEN m ELSE h1[dst]) /\ tail'[dst] = m
  <2>1. h1 \in [Lids -> Idx \cup {Nil}] /\ t1 \in [Lids -> Idx \cup {Nil}]
        BY <1>11, <1>13, <1>14 DEF TypeOK
  <2> QED BY <1>5, <1>21, <2>1 DEF OnlyOf
<1>24. PICK new : new = Moved(ls, src, dst) OBVIOUS
<1>25. new = [rest EXCEPT ![dst] = Append(@, m)]
  <2>1. ls \in [Lids -> Seq(Idx)] BY PartsOf
  <2>2. rest = [ls EXCEPT ![src] = Tail(@)] BY <1>1, <1>6, <1>7, <1>8, <1>18, <2>1, WithoutHead
  <2> QED BY <1>1, <1>8, <1>24, <2>2 DEF Moved
<1>26. Threads(new, prev', next', head', tail')
       BY <1>5, <1>20, <1>22, <1>23, <1>25, PutLast
<1>27. ListsOf(new, Lids, Idx) /\ MovedTo(ls, new, Lids, m, dst)
       BY <1>1, <1>7, <1>8, <1>19, <1>24, MovedLists
<1>28. \A l \in Lids : Len(new[l]) = num'[l]
  <2>1. ls \in [Lids -> Seq(Idx)] /\ \A l \in Lids : Len(ls[l]) \in Nat /\ num[l] = Len(ls[l]) BY PartsOf
  <2>2. rest[src] = Tail(s) /\ \A l \in Lids : l # src => rest[l] = ls[l]
        BY <1>1, <1>6, <1>7, <1>8, <1>18, <2>1, WithoutHead
  <2>3. Len(Tail(s)) = Len(s) - 1 /\ Tail(s) \in Seq(Idx) BY <1>6, <1>7, TailOf
  <2>4. rest[dst] \in Seq(Idx) /\ rest \in [Lids -> Seq(Idx)] BY <1>20 DEF ListsOf
  <2>5. Len(new[dst]) = Len(rest[dst]) + 1
    <3>1. new[dst] = Append(rest[dst], m) BY <1>25, <2>4
    <3> QED BY <1>5, <2>4, <3>1, AppendProperties
  <2>6. \A l \in Lids : l # dst => new[l] = rest[l] BY <1>25, <2>4
  <2>7. \A l \in Lids : Len(rest[l]) = nd[l] BY <1>1, <1>32, <2>1, <2>2, <2>3
  <2>8. \A l \in Lids : num'[l] = IF l = dst THEN nd[dst] + 1 ELSE nd[l] BY <1>5, <1>32
  <2> QED BY <2>5, <2>6, <2>7, <2>8
<1>29. \A l \in Lids : Members(new[l]) = {i \in Idx : lid'[i] = l}
  <2>1. \A i \in Idx : lid'[i] = IF i = m THEN dst ELSE lid[i] BY <1>5 DEF TypeOK
  <2>2. \A l \in Lids : Members(ls[l]) \subseteq Idx /\ \A i \in Idx : i \in Members(ls[l]) <=> lid[i] = l
        BY PartsOf
  <2> QED BY <1>5, <1>27, <2>1, <2>2 DEF MovedTo
<1>30. TypeOK'
  <2>1. lid' \in [Idx -> Lids] BY <1>5 DEF TypeOK
  <2>2. prev' \in [Idx -> Idx \cup {Nil}] BY <1>5, <1>11, <1>12, <1>15, PutAt
  <2>3. next' \in [Idx -> Idx \cup {Nil}]
    <3>1. PICK na : na = Put(next, after, m) OBVIOUS
    <3>2. na \in [Idx -> Idx \cup {Nil}] BY <1>11, <3>1, PutAt DEF TypeOK
    <3> QED BY <1>5, <1>11, <3>1, <3>2, PutAt
  <2>4. head' \in [Lids -> Idx \cup {Nil}] /\ tail' \in [Lids -> Idx \cup {Nil}]
    <3>1. h1 \in [Lids -> Idx \cup {Nil}] /\ t1 \in [Lids -> Idx \cup {Nil}]
          BY <1>11, <1>13, <1>14 DEF TypeOK
    <3> QED BY <1>5, <1>11, <3>1
  <2>5. num' \in [Lids -> Nat]
    <3>1. nd[dst] + 1 \in Nat BY <1>32
    <3> QED BY <1>5, <1>32, <3>1
  <2> QED BY <2>1, <2>2, <2>3, <2>4, <2>5 DEF TypeOK
<1>31. StandsFor(new)' BY <1>26, <1>27, <1>28, <1>29 DEF StandsFor, Labels
<1> QED BY <1>1, <1>7, <1>24, <1>30, <1>31

\* swap() exchanges two nodes of a list.
LEMMA SwapStep ==
    ASSUME TypeOK, NEW ls, StandsFor(ls), NEW i \in Idx, NEW j \in Idx, Swap(i, j)
    PROVE  /\ i \in Members(ls[lid[i]]) /\ j \in Members(ls[lid[i]])
           /\ TypeOK' /\ StandsFor(Swapped(ls, i, j))'
<1>1. PICK l : l = lid[i] OBVIOUS
<1>2. l \in Lids /\ i # j /\ lid[j] = l BY <1>1 DEF Swap, TypeOK
<1>3. i \in Members(ls[l]) /\ j \in Members(ls[l]) BY <1>1, <1>2, PartsOf
<1>4. PICK ip, in, jp, jn : ip = prev[i] /\ in = next[i] /\ jp = prev[j] /\ jn = next[j] OBVIOUS
<1>5. {ip, in, jp, jn, i, j} \subseteq Idx \cup {Nil} BY <1>4 DEF TypeOK
<1>6. PICK vi, vj, wi, wj : /\ vi = (IF i = jn THEN j ELSE jn) /\ vj = (IF j = in THEN i ELSE in)
                            /\ wi = (IF i = jp THEN j ELSE jp) /\ wj = (IF j = ip THEN i ELSE ip)
      OBVIOUS
<1>7. {vi, vj, wi, wj} \subseteq Idx \cup {Nil} BY <1>5, <1>6
<1>8. /\ next' = Put(Put(Put(Put(next, ip, j), jp, i), i, vi), j, vj)
      /\ prev' = Put(Put(Put(Put(prev, in, j), jn, i), i, wi), j, wj)
      BY <1>4, <1>6 DEF Swap
<1>9. /\ head' = [head EXCEPT ![l] = IF head[l] = i THEN j ELSE IF head[l] = j THEN i ELSE head[l]]
      /\ tail' = [tail EXCEPT ![l] = IF tail[l] = i THEN j ELSE IF tail[l] = j THEN i ELSE tail[l]]
      /\ lid' = lid /\ num' = num
      BY <1>1 DEF Swap
<1>10. /\ next' \in [Idx -> Idx \cup {Nil}]
       /\ \A x \in Idx : next'[x] = IF x = j THEN vj ELSE IF x = i THEN vi
                                    ELSE IF x = jp THEN i ELSE IF x = ip THEN j ELSE next[x]
  <2>1. PICK a : a = Put(next, ip, j) OBVIOUS
  <2>2. PICK b : b = Put(a, jp, i) OBVIOUS
  <2>3. PICK c : c = Put(b, i, vi) OBVIOUS
  <2>4. PICK d : d = Put(c, j, vj) OBVIOUS
  <2>5. a \in [Idx -> Idx \cup {Nil}] /\ \A x \in Idx : a[x] = IF x = ip THEN j ELSE next[x]
        BY <1>5, <2>1, PutAt DEF TypeOK
  <2>6. b \in [Idx -> Idx \cup {Nil}] /\ \A x \in Idx : b[x] = IF x = jp THEN i ELSE a[x]
        BY <1>5, <2>2, <2>5, PutAt
  <2>7. c \in [Idx -> Idx \cup {Nil}] /\ \A x \in Idx : c[x] = IF x = i THEN vi ELSE b[x]
        BY <1>7, <2>3, <2>6, PutAt
  <2>8. d \in [Idx -> Idx \cup {Nil}] /\ \A x \in Idx : d[x] = IF x = j THEN vj ELSE c[x]
        BY <1>7, <2>4, <2>7, PutAt
  <2>9. next' = d BY <1>8, <2>1, <2>2, <2>3, <2>4
  <2> QED BY <2>5, <2>6, <2>7, <2>8, <2>9
<1>11. /\ prev' \in [Idx -> Idx \cup {Nil}]
       /\ \A x \in Idx : prev'[x] = IF x = j THEN wj ELSE IF x = i THEN wi
                                    ELSE IF x = jn THEN i ELSE IF x = in THEN j ELSE prev[x]
  <2>1. PICK a : a = Put(prev, in, j) OBVIOUS
  <2>2. PICK b : b = Put(a, jn, i) OBVIOUS
  <2>3. PICK c : c = Put(b, i, wi) OBVIOUS
  <2>4. PICK d : d = Put(c, j, wj) OBVIOUS
  <2>5. a \in [Idx -> Idx \cup {Nil}] /\ \A x \in Idx : a[x] = IF x = in THEN j ELSE prev[x]
        BY <1>5, <2>1, PutAt DEF TypeOK
  <2>6. b \in [Idx -> Idx \cup {Nil}] /\ \A x \in Idx : b[x] = IF x = jn THEN i ELSE a[x]
        BY <1>5, <2>2, <2>5, PutAt
  <2>7. c \in [Idx -> Idx \cup {Nil}] /\ \A x \in Idx : c[x] = IF x = i THEN wi ELSE b[x]
        BY <1>7, <2>3, <2>6, PutAt
  <2>8. d \in [Idx -> Idx \cup {Nil}] /\ \A x \in Idx : d[x] = IF x = j THEN wj ELSE c[x]
        BY <1>7, <2>4, <2>7, PutAt
  <2>9. prev' = d BY <1>8, <2>1, <2>2, <2>3, <2>4
  <2> QED BY <2>5, <2>6, <2>7, <2>8, <2>9
<1>12. Crossed(i, j, prev, next, prev', next') BY <1>4, <1>6, <1>10, <1>11 DEF Crossed
<1>13. /\ head' \in [Lids -> Idx \cup {Nil}] /\ tail' \in [Lids -> Idx \cup {Nil}]
       /\ OnlyOf(l, head, head') /\ OnlyOf(l, tail, tail')
       /\ head'[l] = IF head[l] = i THEN j ELSE IF head[l] = j THEN i ELSE head[l]
       BY <1>2, <1>9 DEF OnlyOf, TypeOK
<1>14. tail'[l] = IF tail[l] = i THEN j ELSE IF tail[l] = j THEN i ELSE tail[l]
       BY <1>2, <1>9 DEF TypeOK
<1>15. ListsOf(ls, Lids, Idx) /\ Threads(ls, prev, next, head, tail) /\ Labels(ls, lid, num)
       BY DEF StandsFor
<1>16. Threads(Swapped(ls, i, j), prev', next', head', tail')
       BY <1>2, <1>3, <1>12, <1>13, <1>14, <1>15, SwappedThreads
<1>17. PICK new : new = Swapped(ls, i, j) OBVIOUS
<1>18. /\ ListsOf(new, Lids, Idx) /\ SameMembers(ls, new, Lids)
       /\ \A m \in Lids : Len(new[m]) = Len(ls[m])
  <2>1. /\ ListsOf(Swapped(ls, i, j), Lids, Idx) /\ SameMembers(ls, Swapped(ls, i, j), Lids)
        /\ SwappedIn(ls, Swapped(ls, i, j), Lids, l, i, j)
        BY <1>2, <1>3, <1>15, SwappedLists
  <2>2. ls[l] \in Seq(Idx) /\ Distinct(ls[l]) BY <1>2, PartsOf
  <2>3. Len(Exchanged(ls[l], i, j)) = Len(ls[l]) BY <1>3, <2>2, SwapOf
  <2> QED BY <1>17, <2>1, <2>3 DEF SwappedIn
<1>19. Labels(new, lid', num') BY <1>9, <1>15, <1>18 DEF Labels, SameMembers
<1>20. TypeOK' BY <1>9, <1>10, <1>11, <1>13 DEF TypeOK
<1>21. StandsFor(new)' BY <1>16, <1>17, <1>18, <1>19 DEF StandsFor
<1> QED BY <1>1, <1>3, <1>17, <1>20, <1>21

\* The two stores that tie the neighbours of a node together.
LEMMA TyingOver ==
    ASSUME TypeOK, NEW i \in Idx, NEW sp, NEW sn, sp = prev[i], sn = next[i],
           NEW p1, NEW n1, p1 = Put(prev, sn, sp), n1 = Put(next, sp, sn)
    PROVE  /\ sp \in Idx \cup {Nil} /\ sn \in Idx \cup {Nil}
           /\ p1 \in [Idx -> Idx \cup {Nil}] /\ n1 \in [Idx -> Idx \cup {Nil}]
           /\ TiedOver(i, prev, next, p1, n1)
<1>1. sp \in Idx \cup {Nil} /\ sn \in Idx \cup {Nil} BY DEF TypeOK
<1>2. p1 \in [Idx -> Idx \cup {Nil}] /\ \A x \in Idx : p1[x] = IF x = sn THEN sp ELSE prev[x]
      BY <1>1, PutAt DEF TypeOK
<1>3. n1 \in [Idx -> Idx \cup {Nil}] /\ \A x \in Idx : n1[x] = IF x = sp THEN sn ELSE next[x]
      BY <1>1, PutAt DEF TypeOK
<1> QED BY <1>1, <1>2, <1>3 DEF TiedOver

\* A node put at an end of its own list leaves the list as long as it was.
LEMMA SameLength ==
    ASSUME NEW ls, ListsOf(ls, Lids, Idx), NEW new, ListsOf(new, Lids, Idx),
           SameMembers(ls, new, Lids)
    PROVE  \A m \in Lids : Len(new[m]) = Len(ls[m])
<1> SUFFICES ASSUME NEW m \in Lids PROVE Len(new[m]) = Len(ls[m]) OBVIOUS
<1>1. ls[m] \in Seq(Idx) /\ Distinct(ls[m]) /\ new[m] \in Seq(Idx) /\ Distinct(new[m])
      BY DEF ListsOf
<1>2. Cardinality(Members(ls[m])) = Len(ls[m]) BY <1>1, LengthIsNumber
<1>3. Cardinality(Members(new[m])) = Len(new[m]) BY <1>1, LengthIsNumber
<1> QED BY <1>2, <1>3 DEF SameMembers

\* move_after() the tail takes a node out of its list and hangs it behind the rest.
LEMMA MoveAfterStep ==
    ASSUME TypeOK, NEW ls, StandsFor(ls), NEW i \in Idx, MoveAfter(i, tail[lid[i]])
    PROVE  i \in Members(ls[lid[i]]) /\ TypeOK' /\ \E l : l = lid[i] /\ StandsFor(ToTail(ls, l, i))'
<1>1. PICK l : l = lid[i] OBVIOUS
<1>2. PICK dst : dst = tail[l] OBVIOUS
<1>3. PICK sp, sn : sp = prev[i] /\ sn = next[i] OBVIOUS
<1>4. PICK p1, n1 : p1 = Put(prev, sn, sp) /\ n1 = Put(next, sp, sn) OBVIOUS
<1>5. l \in Lids /\ i # dst BY <1>1, <1>2 DEF MoveAfter, TypeOK
<1>6. /\ next' = Put(Put(n1, i, next[dst]), dst, i) /\ prev' = Put(p1, i, dst)
      /\ head' = [head EXCEPT ![l] = IF head[l] = i THEN sn ELSE head[l]]
      /\ tail' = [tail EXCEPT ![l] = i]
      /\ lid' = lid /\ num' = num
      BY <1>1, <1>2, <1>3, <1>4, <1>5 DEF MoveAfter
<1>7. PICK s : s = ls[l] OBVIOUS
<1>8. /\ s \in Seq(Idx) /\ Distinct(s) /\ Chained(s, prev, next) /\ dst = LastOf(s)
      /\ i \in Members(s)
      BY <1>1, <1>2, <1>5, <1>7, PartsOf
<1>9. s # <<>> /\ dst \in Idx /\ next[dst] = Nil
  <2>1. s # <<>> BY <1>8, MembersEmpty
  <2>2. dst = s[Len(s)] /\ Len(s) \in 1 .. Len(s) /\ dst \in Idx BY <1>8, <2>1, EndsOf
  <2> QED BY <1>8, <2>1, <2>2 DEF Chained
<1>10. /\ sp \in Idx \cup {Nil} /\ sn \in Idx \cup {Nil}
       /\ p1 \in [Idx -> Idx \cup {Nil}] /\ n1 \in [Idx -> Idx \cup {Nil}]
       /\ TiedOver(i, prev, next, p1, n1)
       BY <1>3, <1>4, TyingOver
<1>11. ListsOf(ls, Lids, Idx) /\ Threads(ls, prev, next, head, tail) /\ Labels(ls, lid, num)
       BY DEF StandsFor
<1>12. /\ head' \in [Lids -> Idx \cup {Nil}] /\ tail' \in [Lids -> Idx \cup {Nil}]
       /\ OnlyOf(l, head, head') /\ head'[l] = IF head[l] = i THEN next[i] ELSE head[l]
       /\ OnlyOf(l, tail, tail') /\ tail'[l] = i
       BY <1>3, <1>5, <1>6, <1>10 DEF OnlyOf, TypeOK
<1>13. PICK rest : rest = [ls EXCEPT ![l] = Without(@, i)] OBVIOUS
<1>14. ListsOf(rest, Lids, Idx) /\ Threads(rest, p1, n1, head', tail) /\ InNone(rest, i)
  <2>1. PICK t1 : t1 = tail OBVIOUS
  <2>2. OnlyOf(l, tail, t1) /\ t1[l] = IF tail[l] = i THEN prev[i] ELSE tail[l]
        BY <1>2, <1>5, <2>1 DEF OnlyOf
  <2>3. i \in Members(ls[l]) BY <1>7, <1>8
  <2>4. PICK h1 : h1 = head' OBVIOUS
  <2>5. OnlyOf(l, head, h1) /\ h1[l] = IF head[l] = i THEN next[i] ELSE head[l] BY <1>12, <2>4
  <2>6. l \in Lids /\ TiedOver(i, prev, next, p1, n1) BY <1>5, <1>10
  <2>7. ListsOf(rest, Lids, Idx) /\ Threads(rest, p1, n1, h1, t1) /\ InNone(rest, i)
        BY <1>11, <1>13, <2>2, <2>3, <2>5, <2>6, TakenOut
  <2> QED BY <2>1, <2>4, <2>7
<1>15. /\ HungBehind(i, tail[l], p1, n1, prev', next')
       /\ prev' \in [Idx -> Idx \cup {Nil}] /\ next' \in [Idx -> Idx \cup {Nil}]
  <2>1. prev' \in [Idx -> Idx \cup {Nil}] /\ \A x \in Idx : prev'[x] = IF x = i THEN dst ELSE p1[x]
        BY <1>6, <1>9, <1>10, PutAt
  <2>2. PICK n2 : n2 = Put(n1, i, Nil) OBVIOUS
  <2>3. n2 \in [Idx -> Idx \cup {Nil}] /\ \A x \in Idx : n2[x] = IF x = i THEN Nil ELSE n1[x]
        BY <1>10, <2>2, PutAt
  <2>4. next' = Put(n2, dst, i) BY <1>6, <1>9, <2>2
  <2>5. next' \in [Idx -> Idx \cup {Nil}] /\ \A x \in Idx : next'[x] = IF x = dst THEN i ELSE n2[x]
        BY <1>9, <2>3, <2>4, PutAt
  <2> QED BY <1>2, <1>5, <2>1, <2>3, <2>5 DEF HungBehind
<1>16. PICK new : new = ToTail(ls, l, i) OBVIOUS
<1>17. new = [rest EXCEPT ![l] = Append(@, i)]
  <2>1. ls \in [Lids -> Seq(Idx)] BY <1>11 DEF ListsOf
  <2> QED BY <1>5, <1>13, <1>16, <2>1 DEF ToTail
<1>18. Threads(new, prev', next', head', tail')
  <2>1. OnlyOf(l, head', head') /\ head'[l] = IF tail[l] = Nil THEN i ELSE head'[l]
        BY <1>2, <1>9, NilIsNoNode DEF OnlyOf
  <2> QED BY <1>5, <1>12, <1>14, <1>15, <1>17, <2>1, PutLast
<1>19. ListsOf(new, Lids, Idx) /\ SameMembers(ls, new, Lids)
  <2>1. i \in Members(ls[l]) BY <1>7, <1>8
  <2> QED BY <1>5, <1>11, <1>16, <2>1, ToTailLists
<1>20. \A m \in Lids : Len(new[m]) = Len(ls[m]) BY <1>11, <1>19, SameLength
<1>21. Labels(new, lid', num') BY <1>6, <1>11, <1>19, <1>20 DEF Labels, SameMembers
<1>22. TypeOK' BY <1>6, <1>12, <1>15 DEF TypeOK
<1>23. StandsFor(new)' BY <1>18, <1>19, <1>21 DEF StandsFor
<1> QED BY <1>1, <1>7, <1>8, <1>16, <1>22, <1>23

\* move_before() the head takes a node out of its list and hangs it before the rest.
LEMMA MoveBeforeStep ==
    ASSUME TypeOK, NEW ls, StandsFor(ls), NEW i \in Idx, MoveBefore(i, head[lid[i]])
    PROVE  i \in Members(ls[lid[i]]) /\ TypeOK' /\ \E l : l = lid[i] /\ StandsFor(ToHead(ls, l, i))'
<1>1. PICK l : l = lid[i] OBVIOUS
<1>2. PICK dst : dst = head[l] OBVIOUS
<1>3. PICK sp, sn : sp = prev[i] /\ sn = next[i] OBVIOUS
<1>4. PICK p1, n1 : p1 = Put(prev, sn, sp) /\ n1 = Put(next, sp, sn) OBVIOUS
<1>5. l \in Lids /\ i # dst BY <1>1, <1>2 DEF MoveBefore, TypeOK
<1>6. /\ next' = Put(n1, i, dst) /\ prev' = Put(Put(p1, i, prev[dst]), dst, i)
      /\ head' = [head EXCEPT ![l] = i]
      /\ tail' = [tail EXCEPT ![l] = IF tail[l] = i THEN sp ELSE tail[l]]
      /\ lid' = lid /\ num' = num
      BY <1>1, <1>2, <1>3, <1>4, <1>5 DEF MoveBefore
<1>7. PICK s : s = ls[l] OBVIOUS
<1>8. /\ s \in Seq(Idx) /\ Distinct(s) /\ Chained(s, prev, next) /\ dst = FirstOf(s)
      /\ i \in Members(s)
      BY <1>1, <1>2, <1>5, <1>7, PartsOf
<1>9. dst \in Members(s) /\ dst \in Idx /\ prev[dst] = Nil
  <2>1. s # <<>> BY <1>8, MembersEmpty
  <2>2. dst = s[1] /\ 1 \in 1 .. Len(s) /\ dst \in Members(s) /\ dst \in Idx BY <1>8, <2>1, EndsOf
  <2> QED BY <1>8, <2>1, <2>2 DEF Chained
<1>10. /\ sp \in Idx \cup {Nil} /\ sn \in Idx \cup {Nil}
       /\ p1 \in [Idx -> Idx \cup {Nil}] /\ n1 \in [Idx -> Idx \cup {Nil}]
       /\ TiedOver(i, prev, next, p1, n1)
       BY <1>3, <1>4, TyingOver
<1>11. ListsOf(ls, Lids, Idx) /\ Threads(ls, prev, next, head, tail) /\ Labels(ls, lid, num)
       BY DEF StandsFor
<1>12. /\ head' \in [Lids -> Idx \cup {Nil}] /\ tail' \in [Lids -> Idx \cup {Nil}]
       /\ OnlyOf(l, tail, tail') /\ tail'[l] = IF tail[l] = i THEN prev[i] ELSE tail[l]
       /\ OnlyOf(l, head, head') /\ head'[l] = i
       BY <1>3, <1>5, <1>6, <1>10 DEF OnlyOf, TypeOK
<1>13. PICK rest : rest = [ls EXCEPT ![l] = Without(@, i)] OBVIOUS
<1>14. ListsOf(rest, Lids, Idx) /\ Threads(rest, p1, n1, head, tail') /\ InNone(rest, i)
  <2>1. PICK h1 : h1 = head OBVIOUS
  <2>2. OnlyOf(l, head, h1) /\ h1[l] = IF head[l] = i THEN next[i] ELSE head[l]
        BY <1>2, <1>5, <2>1 DEF OnlyOf
  <2>3. i \in Members(ls[l]) BY <1>7, <1>8
  <2>4. PICK t1 : t1 = tail' OBVIOUS
  <2>5. OnlyOf(l, tail, t1) /\ t1[l] = IF tail[l] = i THEN prev[i] ELSE tail[l] BY <1>12, <2>4
  <2>6. l \in Lids /\ TiedOver(i, prev, next, p1, n1) BY <1>5, <1>10
  <2>7. ListsOf(rest, Lids, Idx) /\ Threads(rest, p1, n1, h1, t1) /\ InNone(rest, i)
        BY <1>11, <1>13, <2>2, <2>3, <2>5, <2>6, TakenOut
  <2> QED BY <2>1, <2>4, <2>7
<1>15. /\ HungBefore(i, head[l], p1, n1, prev', next')
       /\ prev' \in [Idx -> Idx \cup {Nil}] /\ next' \in [Idx -> Idx \cup {Nil}]
  <2>1. next' \in [Idx -> Idx \cup {Nil}] /\ \A x \in Idx : next'[x] = IF x = i THEN dst ELSE n1[x]
        BY <1>6, <1>9, <1>10, PutAt
  <2>2. PICK p2 : p2 = Put(p1, i, Nil) OBVIOUS
  <2>3. p2 \in [Idx -> Idx \cup {Nil}] /\ \A x \in Idx : p2[x] = IF x = i THEN Nil ELSE p1[x]
        BY <1>10, <2>2, PutAt
  <2>4. prev' = Put(p2, dst, i) BY <1>6, <1>9, <2>2
  <2>5. prev' \in [Idx -> Idx \cup {Nil}] /\ \A x \in Idx : prev'[x] = IF x = dst THEN i ELSE p2[x]
        BY <1>9, <2>3, <2>4, PutAt
  <2> QED BY <1>2, <1>5, <2>1, <2>3, <2>5 DEF HungBefore
<1>16. PICK new : new = ToHead(ls, l, i) OBVIOUS
<1>17. rest[l] # <<>> /\ new = [rest EXCEPT ![l] = <<i>> \o @]
  <2>1. ls \in [Lids -> Seq(Idx)] BY <1>11 DEF ListsOf
  <2>2. rest[l] = Without(s, i) BY <1>5, <1>7, <1>13, <2>1
  <2>3. Without(s, i) \in Seq(Idx) /\ dst \in Members(Without(s, i)) BY <1>5, <1>8, <1>9, WithoutMember
  <2>4. rest[l] # <<>> BY <2>2, <2>3, MembersEmpty
  <2> QED BY <1>5, <1>13, <1>16, <2>1, <2>4 DEF ToHead
<1>18. Threads(new, prev', next', head', tail')
  <2>1. OnlyOf(l, tail', tail') BY DEF OnlyOf
  <2> QED BY <1>5, <1>12, <1>14, <1>15, <1>17, <2>1, PutFirst
<1>19. ListsOf(new, Lids, Idx) /\ SameMembers(ls, new, Lids)
  <2>1. i \in Members(ls[l]) BY <1>7, <1>8
  <2> QED BY <1>5, <1>11, <1>16, <2>1, ToHeadLists
<1>20. \A m \in Lids : Len(new[m]) = Len(ls[m]) BY <1>11, <1>19, SameLength
<1>21. Labels(new, lid', num') BY <1>6, <1>11, <1>19, <1>20 DEF Labels, SameMembers
<1>22. TypeOK' BY <1>6, <1>12, <1>15 DEF TypeOK
<1>23. StandsFor(new)' BY <1>18, <1>19, <1>21 DEF StandsFor
<1> QED BY <1>1, <1>7, <1>8, <1>16, <1>22, <1>23

-----------------------------------------------------------------------------
(* The theorems                                                            *)

\* The inductive invariant: the array stands for some lists.
IInv == TypeOK /\ \E ls : StandsFor(ls)

\* The lists that init() makes: every node in list 0, in order.
FirstLists == [l \in Lids |-> IF l = 0 THEN [k \in 1 .. N |-> k - 1] ELSE <<>>]

\* init() leaves the array standing for those lists.
LEMMA InitStandsFor == Init => TypeOK /\ StandsFor(FirstLists)
<1> SUFFICES ASSUME Init PROVE TypeOK /\ StandsFor(FirstLists) OBVIOUS
<1>1. N \in Nat /\ N >= 1 /\ MaxList \in Nat BY LLAssumption
<1>2. PICK f : f = [k \in 1 .. N |-> k - 1] OBVIOUS
<1>3. \A k \in 1 .. N : f[k] = k - 1 /\ k - 1 \in Idx BY <1>1, <1>2 DEF Idx
<1>4. f \in Seq(Idx) /\ Len(f) = N
  <2>1. f = [k \in 1 .. N |-> f[k]] BY <1>2
  <2>2. f \in [1 .. N -> Idx] BY <1>3, <2>1
  <2> QED BY <1>1, <2>2, LenProperties
<1>5. f # <<>> /\ 1 \in 1 .. N /\ N \in 1 .. N /\ f[1] = 0 /\ f[N] = N - 1
  <2>1. 1 \in 1 .. N /\ N \in 1 .. N /\ N # 0 BY <1>1
  <2>2. f[1] = 0 /\ f[N] = N - 1 BY <1>3, <2>1
  <2> QED BY <1>4, <2>1, <2>2, EmptySeq
<1>6. Distinct(f)
  <2> SUFFICES ASSUME NEW j \in 1 .. N, NEW k \in 1 .. N, f[j] = f[k] PROVE j = k
      BY <1>4 DEF Distinct
  <2>1. j - 1 = k - 1 BY <1>3
  <2> QED BY <1>1, <2>1
<1>7. Members(f) = Idx
  <2>1. Members(f) \subseteq Idx BY <1>4, MembersEmpty
  <2>2. ASSUME NEW i \in Idx PROVE i \in Members(f)
    <3>1. i + 1 \in 1 .. N /\ (i + 1) - 1 = i BY <1>1 DEF Idx
    <3>2. f[i + 1] = i BY <1>3, <3>1
    <3> QED BY <1>4, <3>1, <3>2 DEF Members
  <2> QED BY <2>1, <2>2
<1>8. \A i \in Idx : prev[i] = i - 1 /\ next[i] = IF i = N - 1 THEN Nil ELSE i + 1 BY DEF Init
<1>9. Chained(f, prev, next)
  <2> SUFFICES ASSUME NEW k \in 1 .. N
               PROVE /\ prev[f[k]] = IF k = 1 THEN Nil ELSE f[k - 1]
                     /\ next[f[k]] = IF k = N THEN Nil ELSE f[k + 1]
      BY <1>4 DEF Chained
  <2>1. prev[k - 1] = (k - 1) - 1 /\ next[k - 1] = IF k - 1 = N - 1 THEN Nil ELSE (k - 1) + 1
        BY <1>3, <1>8
  <2>2. k = 1 => (k - 1) - 1 = Nil BY DEF Nil
  <2>3. k # 1 => k - 1 \in 1 .. N BY <1>1
  <2>4. k # 1 => f[k - 1] = (k - 1) - 1 BY <1>3, <2>3
  <2>5. k # N => k + 1 \in 1 .. N /\ (k + 1) - 1 = (k - 1) + 1 BY <1>1
  <2>6. k # N => f[k + 1] = (k - 1) + 1 BY <1>3, <2>5
  <2>7. k - 1 = N - 1 <=> k = N BY <1>1
  <2> QED BY <1>3, <2>1, <2>2, <2>4, <2>6, <2>7
<1>10. PICK ls : ls = FirstLists OBVIOUS
<1>11. \A l \in Lids : ls[l] = IF l = 0 THEN f ELSE <<>> BY <1>2, <1>10 DEF FirstLists
<1>12. PICK e : e = <<>> /\ e \in Seq(Idx) /\ Len(e) = 0 /\ Members(e) = {} /\ Distinct(e)
  <2>1. <<>> \in Seq(Idx) /\ Len(<<>>) = 0 BY EmptySeq
  <2>2. Members(<<>>) = {} /\ Distinct(<<>>) BY <2>1 DEF Members, Distinct
  <2> QED BY <2>1, <2>2
<1>13. ListsOf(ls, Lids, Idx)
  <2>1. ls \in [Lids -> Seq(Idx)]
    <3>1. ls = [l \in Lids |-> ls[l]] BY <1>10 DEF FirstLists
    <3>2. \A l \in Lids : ls[l] \in Seq(Idx) BY <1>4, <1>11, <1>12
    <3> QED BY <3>1, <3>2
  <2>2. \A l \in Lids : Distinct(ls[l]) BY <1>6, <1>11, <1>12
  <2>3. \A l, m \in Lids : l # m => Members(ls[l]) \cap Members(ls[m]) = {} BY <1>11, <1>12
  <2> QED BY <2>1, <2>2, <2>3 DEF ListsOf
<1>14. Threads(ls, prev, next, head, tail)
  <2> SUFFICES ASSUME NEW l \in Lids
               PROVE Chained(ls[l], prev, next) /\ head[l] = FirstOf(ls[l]) /\ tail[l] = LastOf(ls[l])
      BY DEF Threads
  <2>1. CASE l = 0
    <3>1. FirstOf(f) = 0 /\ LastOf(f) = N - 1 BY <1>4, <1>5 DEF FirstOf, LastOf
    <3> QED BY <1>9, <1>11, <2>1, <3>1 DEF Init
  <2>2. CASE l # 0
    <3>1. FirstOf(e) = Nil /\ LastOf(e) = Nil BY <1>12 DEF FirstOf, LastOf
    <3>2. Chained(e, prev, next) BY <1>12 DEF Chained
    <3> QED BY <1>11, <1>12, <2>2, <3>1, <3>2 DEF Init
  <2> QED BY <2>1, <2>2
<1>15. Labels(ls, lid, num)
  <2> SUFFICES ASSUME NEW l \in Lids
               PROVE Members(ls[l]) = {i \in Idx : lid[i] = l} /\ num[l] = Len(ls[l])
      BY DEF Labels
  <2>1. \A i \in Idx : lid[i] = 0 BY DEF Init
  <2>2. CASE l = 0 BY <1>4, <1>7, <1>11, <2>1, <2>2 DEF Init
  <2>3. CASE l # 0 BY <1>11, <1>12, <2>1, <2>3 DEF Init
  <2> QED BY <2>2, <2>3
<1>16. TypeOK
  <2>1. 0 \in Idx /\ N - 1 \in Idx /\ 0 \in Lids BY <1>1 DEF Idx, Lids
  <2>2. \A i \in Idx : i - 1 \in Idx \cup {Nil} BY <1>1 DEF Idx, Nil
  <2>3. \A i \in Idx : i # N - 1 => i + 1 \in Idx BY <1>1 DEF Idx
  <2>4. lid \in [Idx -> Lids] /\ prev \in [Idx -> Idx \cup {Nil}] BY <2>1, <2>2 DEF Init
  <2>5. next \in [Idx -> Idx \cup {Nil}] BY <2>3 DEF Init
  <2>6. head \in [Lids -> Idx \cup {Nil}] /\ tail \in [Lids -> Idx \cup {Nil}] BY <2>1 DEF Init
  <2>7. num \in [Lids -> Nat] BY <1>1 DEF Init
  <2> QED BY <2>4, <2>5, <2>6, <2>7 DEF TypeOK
<1> QED BY <1>10, <1>13, <1>14, <1>15, <1>16 DEF StandsFor

\* What an operation may do to the lists ls.
ListStep(ls, new) ==
    \E l \in Lids :
        \/ \E dst \in Lids : ls[l] # <<>> /\ new = Moved(ls, l, dst)
        \/ \E i, j \in Members(ls[l]) : new = Swapped(ls, i, j)
        \/ \E i \in Members(ls[l]) : new = ToHead(ls, l, i) \/ new = ToTail(ls, l, i)

\* Every operation on the array is one on the lists it stands for, and leaves it
\* standing for their outcome.
LEMMA NextStep ==
    ASSUME TypeOK, NEW ls, StandsFor(ls), Next
    PROVE  TypeOK' /\ \E new : ListStep(ls, new) /\ StandsFor(new)'
<1>1. ASSUME NEW src \in Lids, NEW dst \in Lids, Move(src, dst)
      PROVE  TypeOK' /\ \E new : ListStep(ls, new) /\ StandsFor(new)'
  <2>1. PICK new : new = Moved(ls, src, dst) OBVIOUS
  <2>2. ls[src] # <<>> /\ TypeOK' /\ StandsFor(new)' BY <1>1, <2>1, MoveStep
  <2>3. ListStep(ls, new) BY <2>1, <2>2 DEF ListStep
  <2> QED BY <2>2, <2>3
<1>2. ASSUME NEW i \in Idx, NEW j \in Idx, Swap(i, j)
      PROVE  TypeOK' /\ \E new : ListStep(ls, new) /\ StandsFor(new)'
  <2>1. PICK new : new = Swapped(ls, i, j) OBVIOUS
  <2>2. PICK l : l = lid[i] OBVIOUS
  <2>3. l \in Lids BY <2>2 DEF TypeOK
  <2>4. i \in Members(ls[l]) /\ j \in Members(ls[l]) /\ TypeOK' /\ StandsFor(new)'
        BY <1>2, <2>1, <2>2, SwapStep
  <2>5. ListStep(ls, new) BY <2>1, <2>3, <2>4 DEF ListStep
  <2> QED BY <2>4, <2>5
<1>3. ASSUME NEW i \in Idx, MoveAfter(i, tail[lid[i]])
      PROVE  TypeOK' /\ \E new : ListStep(ls, new) /\ StandsFor(new)'
  <2>1. i \in Members(ls[lid[i]]) /\ TypeOK' /\ \E l : l = lid[i] /\ StandsFor(ToTail(ls, l, i))'
        BY <1>3, MoveAfterStep
  <2>2. PICK l : l = lid[i] /\ StandsFor(ToTail(ls, l, i))' BY <2>1
  <2>3. PICK new : new = ToTail(ls, l, i) OBVIOUS
  <2>4. l \in Lids /\ i \in Members(ls[l]) BY <2>1, <2>2 DEF TypeOK
  <2>5. ListStep(ls, new) BY <2>3, <2>4 DEF ListStep
  <2>6. StandsFor(new)' BY <2>2, <2>3
  <2> QED BY <2>1, <2>5, <2>6
<1>4. ASSUME NEW i \in Idx, MoveBefore(i, head[lid[i]])
      PROVE  TypeOK' /\ \E new : ListStep(ls, new) /\ StandsFor(new)'
  <2>1. i \in Members(ls[lid[i]]) /\ TypeOK' /\ \E l : l = lid[i] /\ StandsFor(ToHead(ls, l, i))'
        BY <1>4, MoveBeforeStep
  <2>2. PICK l : l = lid[i] /\ StandsFor(ToHead(ls, l, i))' BY <2>1
  <2>3. PICK new : new = ToHead(ls, l, i) OBVIOUS
  <2>4. l \in Lids /\ i \in Members(ls[l]) BY <2>1, <2>2 DEF TypeOK
  <2>5. ListStep(ls, new) BY <2>3, <2>4 DEF ListStep
  <2>6. StandsFor(new)' BY <2>2, <2>3
  <2> QED BY <2>1, <2>5, <2>6
<1> QED BY <1>1, <1>2, <1>3, <1>4 DEF Next

\* After any number of operations the array still stands for some lists.
THEOREM IInvHolds == Spec => []IInv
<1>1. Init => IInv BY InitStandsFor DEF IInv
<1>2. ASSUME IInv, [Next]_vars PROVE IInv'
  <2>1. PICK ls : StandsFor(ls) BY <1>2 DEF IInv
  <2>2. CASE Next BY <1>2, <2>1, <2>2, NextStep DEF IInv
  <2>3. CASE UNCHANGED vars
    <3>1. TypeOK' BY <1>2, <2>3 DEF IInv, TypeOK, vars
    <3>2. StandsFor(ls)' BY <2>1, <2>3 DEF StandsFor, vars
    <3> QED BY <3>1, <3>2 DEF IInv
  <2> QED BY <1>2, <2>2, <2>3
<1> QED BY <1>1, <1>2, PTL DEF Spec

\* ListInv: after any sequence of move(), swap(), move_after() and move_before(),
\* the last two to an end of a list as calypso_network_t calls them (and not into
\* the middle of one), the array is sound lists in both directions, that lose no node.
THEOREM ListInvHolds == Spec => []ListInv
<1>1. IInv => ListInv BY WalksGiveLists DEF IInv
<1> QED BY <1>1, IInvHolds, PTL

\* The walks along pointers that thread lists give those lists.
LEMMA WalksAre ==
    ASSUME NEW ls, ListsOf(ls, Lids, Idx), NEW p, NEW n, NEW h, NEW t, Threads(ls, p, n, h, t)
    PROVE  [l \in Lids |-> Along(n)[N + 1][h[l]]] = ls
<1>1. ASSUME NEW l \in Lids PROVE Along(n)[N + 1][h[l]] = ls[l]
  <2>1. PICK s : s = ls[l] OBVIOUS
  <2>2. s \in Seq(Idx) /\ Distinct(s) BY <2>1 DEF ListsOf
  <2>3. Chained(s, p, n) /\ h[l] = FirstOf(s) BY <2>1 DEF Threads
  <2>4. Along(n)[N + 1][FirstOf(s)] = s
    <3>1. Along(n)[N + 1][FirstOf(s)] = s /\ Along(p)[N + 1][LastOf(s)] = [k \in 1 .. Len(s) |-> s[Len(s) + 1 - k]]
          BY <2>2, <2>3, BothWalks
    <3> QED BY <3>1
  <2> QED BY <2>1, <2>3, <2>4
<1>2. ls = [l \in Lids |-> ls[l]] BY DEF ListsOf
<1> QED BY <1>1, <1>2

\* ImplementsLists: the pointers implement the lists that calypso_network_t
\* thinks in, step by step.
THEOREM ListsAreImplemented == Spec => ImplementsLists
<1>1. Init => Abs!Init
  <2> SUFFICES ASSUME Init PROVE Abs!Init OBVIOUS
  <2>1. [l \in Lids |-> Forward(l)] = FirstLists BY InitStandsFor, WalksGiveLists
  <2>2. Cardinality(Idx) = N
    <3>1. N \in Nat /\ N > 0 BY LLAssumption
    <3>2. Cardinality(0 .. N - 1) = IF 0 > N - 1 THEN 0 ELSE (N - 1) - 0 + 1 BY <3>1, FS_Interval
    <3> QED BY <3>1, <3>2 DEF Idx
  <2>3. Abs!Cardinality(Idx) = Cardinality(Idx) BY DEF Abs!Cardinality, Cardinality
  <2> QED BY <2>1, <2>2, <2>3 DEF Abs!Init, FirstLists
<1>2. ASSUME IInv, IInv', [Next]_vars
      PROVE  [Abs!Next]_([l \in Lids |-> Forward(l)])
  <2>1. PICK ls : StandsFor(ls) BY <1>2 DEF IInv
  <2>2. PICK old : old = [l \in Lids |-> Forward(l)] OBVIOUS
  <2>3. old = ls BY <1>2, <2>1, <2>2, WalksGiveLists DEF IInv
  <2>4. CASE Next
    <3>1. PICK new : ListStep(ls, new) /\ StandsFor(new)' BY <1>2, <2>1, <2>4, NextStep DEF IInv
    <3>2. [l \in Lids |-> Forward(l)]' = new
      <4>1. ListsOf(new, Lids, Idx) /\ Threads(new, prev', next', head', tail')
            BY <3>1 DEF StandsFor
      <4>2. [l \in Lids |-> Along(next')[N + 1][head'[l]]] = new BY <4>1, WalksAre
      <4> QED BY <4>2 DEF Forward, Along
    <3>3. PICK l \in Lids :
              \/ \E dst \in Lids : ls[l] # <<>> /\ new = Moved(ls, l, dst)
              \/ \E i, j \in Members(ls[l]) : new = Swapped(ls, i, j)
              \/ \E i \in Members(ls[l]) : new = ToHead(ls, l, i) \/ new = ToTail(ls, l, i)
          BY <3>1 DEF ListStep
    <3>4. ASSUME NEW dst \in Lids, ls[l] # <<>>, new = Moved(ls, l, dst) PROVE Abs!Next
      <4>1. Abs!Move(l, dst) BY <2>2, <2>3, <3>2, <3>4 DEF Abs!Move, Abs!Moved, Moved
      <4> QED BY <4>1 DEF Abs!Next
    <3>5. \A i : i \in Members(ls[l]) =>
                 /\ Abs!InList([m \in Lids |-> Forward(m)], l, i)
                 /\ i \in Abs!Members([m \in Lids |-> Forward(m)][l])
          BY <2>2, <2>3 DEF Abs!InList, Abs!Members, Members
    <3>6. ASSUME NEW i \in Members(ls[l]), NEW j \in Members(ls[l]), new = Swapped(ls, i, j)
          PROVE  Abs!Next
      <4>1. Abs!Swap(l, i, j)
            BY <2>2, <2>3, <3>2, <3>5, <3>6 DEF Abs!Swap, Abs!Swapped, Swapped, Abs!Exchanged, Exchanged
      <4> QED BY <3>5, <4>1 DEF Abs!Next
    <3>7. \A r, i : Abs!Without(r, i) = Without(r, i)
          BY DEF Abs!Without, Without, Abs!PlaceOf, PlaceOf
    <3>8. ASSUME NEW i \in Members(ls[l]), new = ToHead(ls, l, i) PROVE Abs!Next
      <4>1. Abs!ToHead(old, l, i) = ToHead(ls, l, i) BY <2>3, <3>7 DEF Abs!ToHead, ToHead
      <4>2. Abs!MoveToHead(l, i) BY <2>2, <3>2, <3>5, <3>8, <4>1 DEF Abs!MoveToHead
      <4> QED BY <3>5, <4>2 DEF Abs!Next
    <3>9. ASSUME NEW i \in Members(ls[l]), new = ToTail(ls, l, i) PROVE Abs!Next
      <4>1. Abs!ToTail(old, l, i) = ToTail(ls, l, i) BY <2>3, <3>7 DEF Abs!ToTail, ToTail
      <4>2. Abs!MoveToTail(l, i) BY <2>2, <3>2, <3>5, <3>9, <4>1 DEF Abs!MoveToTail
      <4> QED BY <3>5, <4>2 DEF Abs!Next
    <3>10. Abs!Next BY <3>3, <3>4, <3>6, <3>8, <3>9
    <3> QED BY <3>10
  <2>5. CASE UNCHANGED vars
    <3>1. [l \in Lids |-> Forward(l)]' = [l \in Lids |-> Forward(l)]
          BY <2>5 DEF vars, Forward, Along
    <3> QED BY <3>1
  <2> QED BY <1>2, <2>4, <2>5
<1> QED BY <1>1, <1>2, IInvHolds, PTL DEF Spec, ImplementsLists, Abs!Spec
=============================================================================
