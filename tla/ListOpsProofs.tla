---------------------------- MODULE ListOpsProofs ----------------------------
(***************************************************************************)
(* What the operations of a linked_list_t do to lists that hold each node  *)
(* at most once between them: they keep it so, and move only the node they *)
(* are asked to move.  The proofs about the network and the allocator rest *)
(* on these facts, and on those about least and greatest numbers.          *)
(***************************************************************************)
EXTENDS ListOps, SequenceTheorems, FiniteSetTheorems, TLAPS

\* No node occurs twice in s.
Distinct(s) == \A j, k \in 1 .. Len(s) : s[j] = s[k] => j = k

\* The lists of the numbers L, of nodes in S: no node is in two places.
ListsOf(ls, L, S) ==
    /\ ls \in [L -> Seq(S)]
    /\ \A l \in L : Distinct(ls[l])
    /\ \A l, m \in L : l # m => Members(ls[l]) \cap Members(ls[m]) = {}

\* The lists new hold what ls hold, and i is in list dst.
MovedTo(ls, new, L, i, dst) ==
    /\ Members(new[dst]) = Members(ls[dst]) \cup {i}
    /\ \A l \in L \ {dst} : Members(new[l]) = Members(ls[l]) \ {i}

\* The lists new hold what ls hold, perhaps in another order.
SameMembers(ls, new, L) == \A l \in L : Members(new[l]) = Members(ls[l])

\* The lists new are ls but for i and j, which have changed places in list l.
SwappedIn(ls, new, L, l, i, j) ==
    new[l] = Exchanged(ls[l], i, j) /\ \A m \in L : m # l => new[m] = ls[m]

-----------------------------------------------------------------------------
(* Least and greatest elements, without which nothing can be said of a     *)
(* recursive function or of CHOOSE                                         *)

\* A set of natural numbers has a least element.
LEMMA LeastOf ==
    ASSUME NEW S \in SUBSET Nat, S # {}
    PROVE  \E m \in S : \A k \in S : m <= k
<1> DEFINE R == OpToRel(<, Nat)
<1>1. IsWellFoundedOn(R, Nat) BY NatLessThanWellFounded
<1>2. \A x, y \in Nat : <<y, x>> \in R <=> y < x BY DEF OpToRel
<1> HIDE DEF R
<1>3. PICK m \in S : \A y \in S : ~ (<<y, m>> \in R) BY <1>1, WFMin
<1>4. ASSUME NEW k \in S PROVE m <= k
  <2>1. m \in Nat /\ k \in Nat OBVIOUS
  <2>2. ~(k < m) BY <1>2, <1>3, <2>1
  <2> QED BY <2>1, <2>2
<1> QED BY <1>4

\* A finite set of natural numbers has a bound.
LEMMA FiniteHasBound ==
    ASSUME NEW S \in SUBSET Nat, IsFiniteSet(S)
    PROVE  \E m \in Nat : \A x \in S : x <= m
<1> DEFINE Bounded(T) == \E m \in Nat : \A x \in T : x <= m
           Sizes == {Cardinality(T) : T \in {U \in SUBSET S : ~Bounded(U)}}
<1> SUFFICES ASSUME ~Bounded(S) PROVE FALSE OBVIOUS
<1>1. \A T \in SUBSET S : IsFiniteSet(T) /\ Cardinality(T) \in Nat
      BY FS_Subset, FS_CardinalityType
<1>2. Sizes \in SUBSET Nat /\ Sizes # {} BY <1>1
<1> HIDE DEF Sizes
<1>3. PICK n \in Sizes : \A k \in Sizes : n <= k BY <1>2, LeastOf
<1>4. PICK T \in SUBSET S : ~Bounded(T) /\ n = Cardinality(T) BY <1>3 DEF Sizes
<1>5. Bounded({}) BY 0 \in Nat
<1>6. PICK x \in T : TRUE BY <1>4, <1>5
<1>7. IsFiniteSet(T \ {x}) /\ Cardinality(T \ {x}) = n - 1 BY <1>1, <1>4, FS_RemoveElement
<1>8. Bounded(T \ {x})
  <2>1. n \in Nat /\ ~(n <= n - 1) BY <1>1, <1>4
  <2>2. n - 1 \notin Sizes BY <1>3, <2>1
  <2> QED BY <1>4, <1>7, <2>2 DEF Sizes
<1>9. PICK m \in Nat : \A y \in T \ {x} : y <= m BY <1>8
<1>10. x \in Nat OBVIOUS
<1>11. \A y \in T : y <= m + x BY <1>9, <1>10
<1>12. m + x \in Nat BY <1>10
<1> QED BY <1>4, <1>11, <1>12

\* A set of natural numbers below a bound has a greatest element.
LEMMA GreatestOf ==
    ASSUME NEW S \in SUBSET Nat, S # {}, NEW b \in Nat, \A x \in S : x <= b
    PROVE  \E m \in S : \A k \in S : k <= m
<1> DEFINE D == {b - x : x \in S}
<1>1. D \in SUBSET Nat /\ D # {}
  <2>1. \A x \in S : x \in Nat /\ x <= b /\ b - x \in Nat OBVIOUS
  <2> QED BY <2>1
<1> HIDE DEF D
<1>2. PICK d \in D : \A k \in D : d <= k BY <1>1, LeastOf
<1>3. PICK m \in S : d = b - m BY <1>2 DEF D
<1>4. ASSUME NEW k \in S PROVE k <= m
  <2>1. d <= b - k BY <1>2 DEF D
  <2>2. k \in Nat /\ m \in Nat OBVIOUS
  <2> QED BY <1>3, <2>1, <2>2
<1> QED BY <1>4

-----------------------------------------------------------------------------
(* One list *)

\* The place of a member.
LEMMA PlaceOfMember ==
    ASSUME NEW S, NEW s \in Seq(S), NEW i \in Members(s)
    PROVE  PlaceOf(s, i) \in 1 .. Len(s) /\ s[PlaceOf(s, i)] = i
BY DEF Members, PlaceOf

\* A sequence is empty exactly if it has no members.
LEMMA MembersEmpty ==
    ASSUME NEW S, NEW s \in Seq(S)
    PROVE  Members(s) \subseteq S /\ (s = <<>> <=> Members(s) = {})
<1>1. Members(s) \subseteq S BY ElementOfSeq DEF Members
<1>2. s = <<>> => Members(s) = {} BY DEF Members
<1>3. ASSUME s # <<>> PROVE Members(s) # {}
  <2>1. Len(s) \in Nat /\ Len(s) # 0 BY <1>3, EmptySeq, LenProperties
  <2>2. s[1] \in Members(s) BY <2>1 DEF Members
  <2> QED BY <2>2
<1> QED BY <1>1, <1>2, <1>3

\* Without its member i a list is otherwise the same.
LEMMA WithoutMember ==
    ASSUME NEW S, NEW s \in Seq(S), Distinct(s), NEW i \in Members(s)
    PROVE  /\ Without(s, i) \in Seq(S) /\ Len(Without(s, i)) = Len(s) - 1
           /\ Distinct(Without(s, i))
           /\ Members(Without(s, i)) = Members(s) \ {i}
<1> DEFINE p == PlaceOf(s, i)
           w == Without(s, i)
<1>1. p \in 1 .. Len(s) /\ s[p] = i BY PlaceOfMember
<1>2. Len(s) \in Nat BY LenProperties
<1>3. w = [k \in 1 .. Len(s) - 1 |-> IF k < p THEN s[k] ELSE s[k + 1]] BY DEF Without
<1> HIDE DEF p
<1>4. \A k \in 1 .. Len(s) - 1 : w[k] = IF k < p THEN s[k] ELSE s[k + 1] BY <1>3
<1>5. \A k \in 1 .. Len(s) - 1 : w[k] \in S
      BY <1>1, <1>2, <1>4, ElementOfSeq
<1>6. w \in Seq(S) /\ Len(w) = Len(s) - 1
  <2>1. Len(s) - 1 \in Nat BY <1>1, <1>2
  <2>2. w = [k \in 1 .. Len(s) - 1 |-> w[k]] BY <1>3
  <2> HIDE DEF w
  <2>3. w \in [1 .. Len(s) - 1 -> S] BY <1>5, <2>2
  <2> QED BY <2>1, <2>3, LenProperties
<1> HIDE DEF w
<1>7. Distinct(w) BY <1>1, <1>2, <1>4, <1>6 DEF Distinct
<1>8. Members(w) \subseteq Members(s) \ {i}
  <2> SUFFICES ASSUME NEW k \in 1 .. Len(s) - 1 PROVE w[k] \in Members(s) \ {i}
      BY <1>6 DEF Members
  <2> QED BY <1>1, <1>2, <1>4 DEF Members, Distinct
<1>9. ASSUME NEW k \in 1 .. Len(s), s[k] # i PROVE s[k] \in Members(w)
  <2>1. CASE k < p
    <3>1. k \in 1 .. Len(w) /\ w[k] = s[k] BY <1>1, <1>2, <1>4, <1>6, <2>1
    <3> QED BY <3>1 DEF Members
  <2>2. CASE k > p
    <3>1. k - 1 \in 1 .. Len(w) /\ ~(k - 1 < p) /\ (k - 1) + 1 = k
          BY <1>1, <1>2, <1>6, <2>2
    <3>2. w[k - 1] = s[k] BY <1>4, <1>6, <3>1
    <3> QED BY <3>1, <3>2 DEF Members
  <2> QED BY <1>1, <1>2, <1>9, <2>1, <2>2
<1>10. Members(s) \ {i} \subseteq Members(w) BY <1>9 DEF Members
<1> QED BY <1>6, <1>7, <1>8, <1>10 DEF w

\* move_before() the head.
LEMMA HeadFirst ==
    ASSUME NEW S, NEW s \in Seq(S), Distinct(s), NEW i \in Members(s)
    PROVE  LET t == <<i>> \o Without(s, i)
           IN  /\ t \in Seq(S) /\ Len(t) = Len(s) /\ t # <<>>
               /\ Distinct(t) /\ Members(t) = Members(s)
               /\ Head(t) = i
<1> DEFINE w == Without(s, i)
           t == <<i>> \o w
<1>1. w \in Seq(S) /\ Len(w) = Len(s) - 1 /\ Distinct(w) /\ Members(w) = Members(s) \ {i}
      BY WithoutMember
<1>2. i \in S /\ Len(s) \in Nat BY MembersEmpty, LenProperties
<1> HIDE DEF w
<1>3. /\ t \in Seq(S) /\ Len(t) = Len(s)
      /\ t[1] = i /\ \A k \in 1 .. Len(w) : t[k + 1] = w[k]
      BY <1>1, <1>2
<1> HIDE DEF t
<1>4. \A k \in 2 .. Len(t) : k - 1 \in 1 .. Len(w) /\ t[k] = w[k - 1]
  <2> SUFFICES ASSUME NEW k \in 2 .. Len(t)
               PROVE k - 1 \in 1 .. Len(w) /\ t[k] = w[k - 1] OBVIOUS
  <2>1. k - 1 \in 1 .. Len(w) /\ (k - 1) + 1 = k BY <1>1, <1>2, <1>3
  <2> QED BY <1>3, <2>1
<1>5. \A k \in 1 .. Len(w) : w[k] # i BY <1>1 DEF Members
<1>6. Distinct(t)
  <2> SUFFICES ASSUME NEW j \in 1 .. Len(t), NEW k \in 1 .. Len(t), t[j] = t[k]
               PROVE j = k BY DEF Distinct
  <2>1. CASE j = 1 \/ k = 1 BY <1>2, <1>3, <1>4, <1>5, <2>1
  <2>2. CASE j # 1 /\ k # 1
    <3>1. j - 1 \in 1 .. Len(w) /\ k - 1 \in 1 .. Len(w) /\ w[j - 1] = w[k - 1]
          BY <1>2, <1>3, <1>4, <2>2
    <3>2. j - 1 = k - 1 BY <1>1, <3>1 DEF Distinct
    <3> QED BY <1>2, <1>3, <3>2
  <2> QED BY <2>1, <2>2
<1>7. Members(t) \subseteq Members(w) \cup {i}
  <2> SUFFICES ASSUME NEW k \in 1 .. Len(t) PROVE t[k] \in Members(w) \cup {i}
      BY DEF Members
  <2>1. k = 1 \/ k \in 2 .. Len(t) BY <1>2, <1>3
  <2> QED BY <1>3, <1>4, <2>1 DEF Members
<1>8. Members(w) \cup {i} \subseteq Members(t)
  <2>1. 1 \in 1 .. Len(t) BY <1>1, <1>2, <1>3
  <2>2. \A k \in 1 .. Len(w) : k + 1 \in 1 .. Len(t) BY <1>1, <1>2, <1>3
  <2> QED BY <1>3, <2>1, <2>2 DEF Members
<1>9. t # <<>> /\ Head(t) = i
  <2>1. Len(t) # 0 BY <1>1, <1>2, <1>3
  <2> QED BY <1>3, <2>1, EmptySeq, HeadTailProperties
<1> QED BY <1>1, <1>3, <1>6, <1>7, <1>8, <1>9 DEF t, w

\* A node that is new to a list, put at its tail.
LEMMA AppendNew ==
    ASSUME NEW S, NEW s \in Seq(S), Distinct(s), NEW i \in S, i \notin Members(s)
    PROVE  LET t == Append(s, i)
           IN  /\ t \in Seq(S) /\ Len(t) = Len(s) + 1 /\ t # <<>>
               /\ Distinct(t) /\ Members(t) = Members(s) \cup {i}
               /\ t[Len(t)] = i
<1> DEFINE t == Append(s, i)
<1>1. /\ t \in Seq(S) /\ Len(t) = Len(s) + 1 /\ Len(s) \in Nat
      /\ t[Len(s) + 1] = i /\ \A k \in 1 .. Len(s) : t[k] = s[k]
      BY AppendProperties, LenProperties
<1> HIDE DEF t
<1>2. \A k \in 1 .. Len(s) : s[k] # i BY DEF Members
<1>3. Distinct(t)
  <2> SUFFICES ASSUME NEW j \in 1 .. Len(t), NEW k \in 1 .. Len(t), t[j] = t[k]
               PROVE j = k BY DEF Distinct
  <2>1. \A n \in 1 .. Len(t) : n = Len(s) + 1 \/ n \in 1 .. Len(s) BY <1>1
  <2> QED BY <1>1, <1>2, <2>1 DEF Distinct
<1>4. Members(t) \subseteq Members(s) \cup {i}
  <2> SUFFICES ASSUME NEW k \in 1 .. Len(t) PROVE t[k] \in Members(s) \cup {i}
      BY DEF Members
  <2>1. k = Len(s) + 1 \/ k \in 1 .. Len(s) BY <1>1
  <2> QED BY <1>1, <2>1 DEF Members
<1>5. Members(s) \cup {i} \subseteq Members(t)
  <2>1. Len(s) + 1 \in 1 .. Len(t) /\ \A k \in 1 .. Len(s) : k \in 1 .. Len(t) BY <1>1
  <2> QED BY <1>1, <2>1 DEF Members
<1>6. t # <<>> BY <1>1, EmptySeq
<1> QED BY <1>1, <1>3, <1>4, <1>5, <1>6 DEF t

\* A list without its head.
LEMMA TailOf ==
    ASSUME NEW S, NEW s \in Seq(S), Distinct(s), s # <<>>
    PROVE  /\ Tail(s) \in Seq(S) /\ Len(Tail(s)) = Len(s) - 1
           /\ Distinct(Tail(s)) /\ Members(Tail(s)) = Members(s) \ {Head(s)}
           /\ Head(s) \in Members(s) /\ Head(s) \in S /\ Head(s) = s[1]
<1> DEFINE t == Tail(s)
<1>1. /\ t \in Seq(S) /\ Len(t) = Len(s) - 1 /\ Head(s) = s[1]
      /\ \A k \in 1 .. Len(t) : t[k] = s[k + 1]
      BY HeadTailProperties
<1>2. Len(s) \in Nat /\ Len(s) # 0 BY LenProperties, EmptySeq
<1> HIDE DEF t
<1>3. \A k \in 1 .. Len(t) : k + 1 \in 1 .. Len(s) BY <1>1, <1>2
<1>4. Distinct(t)
  <2> SUFFICES ASSUME NEW j \in 1 .. Len(t), NEW k \in 1 .. Len(t), t[j] = t[k]
               PROVE j = k BY DEF Distinct
  <2>1. s[j + 1] = s[k + 1] BY <1>1
  <2>2. j + 1 = k + 1 BY <1>3, <2>1 DEF Distinct
  <2> QED BY <2>2
<1>5. 1 \in 1 .. Len(s) BY <1>2
<1>6. Head(s) \in Members(s) /\ Head(s) \in S BY <1>1, <1>5, MembersEmpty DEF Members
<1>7. Members(t) \subseteq Members(s) \ {s[1]}
  <2> SUFFICES ASSUME NEW k \in 1 .. Len(t) PROVE t[k] \in Members(s) \ {s[1]}
      BY DEF Members
  <2>1. t[k] = s[k + 1] /\ k + 1 \in 1 .. Len(s) BY <1>1, <1>3
  <2>2. s[k + 1] # s[1]
    <3> SUFFICES ASSUME s[k + 1] = s[1] PROVE FALSE OBVIOUS
    <3>1. k + 1 = 1 BY <1>3, <1>5 DEF Distinct
    <3> QED BY <1>1, <1>2, <3>1
  <2> QED BY <2>1, <2>2 DEF Members
<1>8. ASSUME NEW k \in 1 .. Len(s), s[k] # s[1] PROVE s[k] \in Members(t)
  <2>1. k - 1 \in 1 .. Len(t) /\ (k - 1) + 1 = k BY <1>1, <1>2, <1>8
  <2>2. t[k - 1] = s[k] BY <1>1, <2>1
  <2> QED BY <2>1, <2>2 DEF Members
<1>9. Members(s) \ {s[1]} \subseteq Members(t) BY <1>8 DEF Members
<1> QED BY <1>1, <1>4, <1>6, <1>7, <1>9 DEF t

\* swap() of two members.
LEMMA SwapOf ==
    ASSUME NEW S, NEW s \in Seq(S), Distinct(s), NEW i \in Members(s), NEW j \in Members(s)
    PROVE  LET t == Exchanged(s, i, j)
           IN  /\ t \in Seq(S) /\ Len(t) = Len(s)
               /\ Distinct(t) /\ Members(t) = Members(s)
               /\ s # <<>> => t # <<>> /\ (Head(s) = i => Head(t) = j)
<1> DEFINE t == Exchanged(s, i, j)
<1>1. Members(s) \subseteq S /\ Len(s) \in Nat BY MembersEmpty, LenProperties
<1>2. \A k \in 1 .. Len(s) : t[k] = IF s[k] = i THEN j ELSE IF s[k] = j THEN i ELSE s[k]
      BY DEF Exchanged
<1>3. \A k \in 1 .. Len(s) : s[k] \in Members(s) BY DEF Members
<1>4. t = [k \in 1 .. Len(s) |-> t[k]] BY DEF Exchanged
<1> HIDE DEF t
<1>5. t \in [1 .. Len(s) -> S] BY <1>1, <1>2, <1>3, <1>4
<1>6. t \in Seq(S) /\ Len(t) = Len(s) BY <1>1, <1>5, LenProperties
<1>7. Distinct(t) BY <1>2, <1>6 DEF Distinct
<1>8. Members(t) \subseteq Members(s) BY <1>2, <1>3, <1>6 DEF Members
<1>9. Members(s) \subseteq Members(t)
  <2> SUFFICES ASSUME NEW k \in 1 .. Len(s)
               PROVE  \E n \in 1 .. Len(t) : t[n] = s[k] BY DEF Members
  <2>1. PICK a \in 1 .. Len(s) : s[a] = i BY DEF Members
  <2>2. PICK b \in 1 .. Len(s) : s[b] = j BY DEF Members
  <2>3. CASE s[k] = i
        BY <1>2, <1>6, <2>2, <2>3
  <2>4. CASE s[k] = j
        BY <1>2, <1>6, <2>1, <2>4
  <2>5. CASE s[k] # i /\ s[k] # j BY <1>2, <1>6, <2>5
  <2> QED BY <2>3, <2>4, <2>5
<1>10. ASSUME s # <<>> PROVE t # <<>> /\ (Head(s) = i => Head(t) = j)
  <2>1. Len(s) # 0 BY <1>10, EmptySeq
  <2>2. 1 \in 1 .. Len(s) /\ t # <<>> BY <1>1, <1>6, <2>1, EmptySeq
  <2>3. Head(s) = s[1] /\ Head(t) = t[1] BY <1>6, <1>10, <2>2, HeadTailProperties
  <2> QED BY <1>2, <2>2, <2>3
<1> QED BY <1>6, <1>7, <1>8, <1>9, <1>10 DEF t

-----------------------------------------------------------------------------
(* The lists together *)

\* A list replaced by one of the same members.
LEMMA Rearranged ==
    ASSUME NEW L, NEW S, NEW ls, ListsOf(ls, L, S), NEW l \in L,
           NEW s \in Seq(S), Distinct(s), Members(s) = Members(ls[l])
    PROVE  LET new == [ls EXCEPT ![l] = s]
           IN  /\ ListsOf(new, L, S)
               /\ new[l] = s
               /\ SameMembers(ls, new, L)
BY DEF ListsOf, SameMembers

\* move(): the head of src joins dst, at its tail.
LEMMA MovedLists ==
    ASSUME NEW L, NEW S, NEW ls, ListsOf(ls, L, S),
           NEW src \in L, NEW dst \in L, ls[src] # <<>>
    PROVE  LET new == Moved(ls, src, dst)
               i   == Head(ls[src])
           IN  /\ ListsOf(new, L, S)
               /\ i \in Members(ls[src]) /\ i \in S
               /\ MovedTo(ls, new, L, i, dst)
               /\ \A l \in L : l # src /\ l # dst => new[l] = ls[l]
               /\ src # dst => /\ new[src] = Tail(ls[src])
                               /\ Len(new[src]) = Len(ls[src]) - 1
                               /\ new[dst] = Append(ls[dst], i)
                               /\ Len(new[dst]) = Len(ls[dst]) + 1
               /\ new[dst][Len(new[dst])] = i
<1> DEFINE i    == Head(ls[src])
           rest == [ls EXCEPT ![src] = Tail(@)]
           new  == Moved(ls, src, dst)
<1>1. /\ Tail(ls[src]) \in Seq(S) /\ Len(Tail(ls[src])) = Len(ls[src]) - 1
      /\ Distinct(Tail(ls[src])) /\ Members(Tail(ls[src])) = Members(ls[src]) \ {i}
      /\ i \in Members(ls[src]) /\ i \in S
      BY TailOf DEF ListsOf
<1>2. new = [rest EXCEPT ![dst] = Append(@, i)] BY DEF Moved
<1> HIDE DEF i
<1>3. /\ rest \in [L -> Seq(S)]
      /\ \A l \in L : Distinct(rest[l]) /\ Members(rest[l]) = Members(ls[l]) \ {i}
      BY <1>1 DEF ListsOf
<1>4. /\ rest[src] = Tail(ls[src]) /\ \A l \in L : l # src => rest[l] = ls[l]
      BY DEF ListsOf
<1> HIDE DEF rest
<1>5. i \notin Members(rest[dst]) BY <1>3
<1>6. LET t == Append(rest[dst], i)
      IN  /\ t \in Seq(S) /\ Len(t) = Len(rest[dst]) + 1
          /\ Distinct(t) /\ Members(t) = Members(rest[dst]) \cup {i}
          /\ t[Len(t)] = i
      BY <1>1, <1>3, <1>5, AppendNew
<1> HIDE DEF new
<1>7. /\ new \in [L -> Seq(S)] /\ new[dst] = Append(rest[dst], i)
      /\ \A l \in L : l # dst => new[l] = rest[l]
      BY <1>2, <1>3, <1>6
<1>8. /\ \A l \in L : Distinct(new[l])
      /\ Members(new[dst]) = Members(ls[dst]) \cup {i}
      /\ \A l \in L \ {dst} : Members(new[l]) = Members(ls[l]) \ {i}
      BY <1>3, <1>6, <1>7
<1>9. ListsOf(new, L, S)
  <2>1. \A l, m \in L : l # m => Members(ls[l]) \cap Members(ls[m]) = {} BY DEF ListsOf
  <2>2. \A l, m \in L : l # m => Members(new[l]) \cap Members(new[m]) = {}
        BY <1>8, <2>1
  <2> QED BY <1>7, <1>8, <2>2 DEF ListsOf
<1> QED BY <1>1, <1>4, <1>6, <1>7, <1>8, <1>9 DEF i, new, MovedTo

\* swap() in one list.
LEMMA SwappedLists ==
    ASSUME NEW L, NEW S, NEW ls, ListsOf(ls, L, S), NEW l \in L,
           NEW i \in Members(ls[l]), NEW j \in Members(ls[l])
    PROVE  LET new == Swapped(ls, i, j)
           IN  /\ ListsOf(new, L, S)
               /\ SameMembers(ls, new, L)
               /\ SwappedIn(ls, new, L, l, i, j)
               /\ \A m \in L : Len(new[m]) = Len(ls[m])
               /\ new[l] # <<>> /\ (Head(ls[l]) = i => Head(new[l]) = j)
<1> DEFINE new == Swapped(ls, i, j)
           t(s) == Exchanged(s, i, j)
<1>1. new = [m \in L |-> t(ls[m])] BY DEF Swapped, ListsOf
<1>2. /\ t(ls[l]) \in Seq(S) /\ Len(t(ls[l])) = Len(ls[l])
      /\ Distinct(t(ls[l])) /\ Members(t(ls[l])) = Members(ls[l])
      /\ ls[l] # <<>> => t(ls[l]) # <<>> /\ (Head(ls[l]) = i => Head(t(ls[l])) = j)
  <2>1. ls[l] \in Seq(S) /\ Distinct(ls[l]) BY DEF ListsOf
  <2> QED BY <2>1, SwapOf
<1>3. ASSUME NEW m \in L, m # l PROVE t(ls[m]) = ls[m]
  <2>0. Members(ls[l]) \cap Members(ls[m]) = {} BY <1>3 DEF ListsOf
  <2>1. \A k \in 1 .. Len(ls[m]) : ls[m][k] # i /\ ls[m][k] # j
        BY <2>0 DEF Members
  <2>2. t(ls[m]) = [k \in 1 .. Len(ls[m]) |-> ls[m][k]] BY <2>1 DEF Exchanged
  <2>3. ls[m] \in Seq(S) BY DEF ListsOf
  <2> QED BY <2>2, <2>3, LenProperties
<1>4. ls[l] # <<>>
  <2>1. ls[l] \in Seq(S) BY DEF ListsOf
  <2> QED BY <2>1, MembersEmpty
<1> HIDE DEF t
<1>5. new[l] = t(ls[l]) /\ \A m \in L : m # l => new[m] = ls[m] BY <1>1, <1>3
<1>6. new \in [L -> Seq(S)]
  <2>1. \A m \in L : t(ls[m]) \in Seq(S) BY <1>2, <1>3 DEF ListsOf
  <2> QED BY <1>1, <2>1
<1> HIDE DEF new
<1>7. \A m \in L : Distinct(new[m]) /\ Members(new[m]) = Members(ls[m]) /\ Len(new[m]) = Len(ls[m])
      BY <1>2, <1>5 DEF ListsOf
<1>8. new[l] = Exchanged(ls[l], i, j) BY <1>5 DEF t
<1> QED BY <1>2, <1>4, <1>5, <1>6, <1>7, <1>8 DEF ListsOf, SameMembers, SwappedIn, new

\* move_before() the head.
LEMMA ToHeadLists ==
    ASSUME NEW L, NEW S, NEW ls, ListsOf(ls, L, S), NEW l \in L,
           NEW i \in Members(ls[l])
    PROVE  LET new == ToHead(ls, l, i)
           IN  /\ ListsOf(new, L, S)
               /\ SameMembers(ls, new, L)
               /\ \A m \in L : m # l => new[m] = ls[m]
               /\ new[l] # <<>> /\ Head(new[l]) = i
<1> DEFINE s == <<i>> \o Without(ls[l], i)
<1>1. s \in Seq(S) /\ Distinct(s) /\ Members(s) = Members(ls[l]) /\ s # <<>> /\ Head(s) = i
      BY HeadFirst DEF ListsOf
<1>2. ToHead(ls, l, i) = [ls EXCEPT ![l] = s] BY DEF ToHead
<1> HIDE DEF s
<1>3. LET new == [ls EXCEPT ![l] = s]
      IN  /\ ListsOf(new, L, S) /\ new[l] = s
          /\ SameMembers(ls, new, L)
      BY <1>1, Rearranged
<1> QED BY <1>1, <1>2, <1>3

\* move_after() the tail.
LEMMA ToTailLists ==
    ASSUME NEW L, NEW S, NEW ls, ListsOf(ls, L, S), NEW l \in L,
           NEW i \in Members(ls[l])
    PROVE  LET new == ToTail(ls, l, i)
           IN  /\ ListsOf(new, L, S)
               /\ SameMembers(ls, new, L)
               /\ \A m \in L : m # l => new[m] = ls[m]
<1> DEFINE s == Append(Without(ls[l], i), i)
<1>1. /\ Without(ls[l], i) \in Seq(S) /\ Distinct(Without(ls[l], i))
      /\ Members(Without(ls[l], i)) = Members(ls[l]) \ {i}
      BY WithoutMember DEF ListsOf
<1>2. i \in S
  <2>1. ls[l] \in Seq(S) BY DEF ListsOf
  <2> QED BY <2>1, MembersEmpty
<1>3. s \in Seq(S) /\ Distinct(s) /\ Members(s) = Members(ls[l])
  <2> DEFINE w == Without(ls[l], i)
  <2>1. i \notin Members(w) BY <1>1
  <2> HIDE DEF w
  <2>2. LET t == Append(w, i)
        IN  t \in Seq(S) /\ Distinct(t) /\ Members(t) = Members(w) \cup {i}
        BY <1>1, <1>2, <2>1, AppendNew DEF w
  <2> QED BY <1>1, <2>2 DEF w
<1>4. ToTail(ls, l, i) = [ls EXCEPT ![l] = s] BY DEF ToTail
<1> HIDE DEF s
<1>5. LET new == [ls EXCEPT ![l] = s]
      IN  /\ ListsOf(new, L, S) /\ new[l] = s
          /\ SameMembers(ls, new, L)
      BY <1>3, Rearranged
<1> QED BY <1>4, <1>5
=============================================================================
