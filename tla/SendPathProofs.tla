--------------------------- MODULE SendPathProofs ---------------------------
(***************************************************************************)
(* Theorems about SendPath: for messages of any lengths, whatever the room *)
(* of the kernel and the size of the buffer, the peer gets what was sent   *)
(* in order, and nothing for which send() returned 0 is lost while the     *)
(* socket lives.                                                           *)
(***************************************************************************)
EXTENDS SendPath, SequenceTheorems, TLAPS

-----------------------------------------------------------------------------
(* Sequences that are cut and joined *)

\* Both parts of a sequence cut in two.
LEMMA Cut ==
    ASSUME NEW S, NEW s \in Seq(S), NEW n \in 0 .. Len(s)
    PROVE  /\ SubSeq(s, 1, n) \in Seq(S) /\ Len(SubSeq(s, 1, n)) = n
           /\ \A i \in 1 .. n : SubSeq(s, 1, n)[i] = s[i]
           /\ From(s, n) \in Seq(S) /\ Len(From(s, n)) = Len(s) - n
           /\ SubSeq(s, 1, n) \o From(s, n) = s
<1>1. Len(s) \in Nat /\ \A i \in 1 .. Len(s) : s[i] \in S BY LenProperties, ElementOfSeq
<1>2. /\ SubSeq(s, 1, n) \in Seq(S) /\ Len(SubSeq(s, 1, n)) = n
      /\ \A i \in 1 .. n : SubSeq(s, 1, n)[i] = s[i]
  <2>1. \A i \in 1 .. n : s[i] \in S BY <1>1
  <2>2. n \in Int /\ 1 \in Int /\ n - 1 + 1 = n BY <1>1
  <2>3. /\ SubSeq(s, 1, n) \in Seq(S)
        /\ Len(SubSeq(s, 1, n)) = IF 1 <= n THEN n - 1 + 1 ELSE 0
        /\ \A i \in 1 .. n - 1 + 1 : SubSeq(s, 1, n)[i] = s[1 + i - 1]
        BY <2>1, <2>2, SubSeqProperties
  <2>4. \A i \in 1 .. n : 1 + i - 1 = i BY <1>1
  <2> QED BY <1>1, <2>2, <2>3, <2>4
<1>3. From(s, n) \in Seq(S) /\ Len(From(s, n)) = Len(s) - n
  <2>1. n + 1 \in Int /\ Len(s) \in Int /\ \A i \in n + 1 .. Len(s) : s[i] \in S BY <1>1
  <2>2. /\ SubSeq(s, n + 1, Len(s)) \in Seq(S)
        /\ Len(SubSeq(s, n + 1, Len(s))) = IF n + 1 <= Len(s) THEN Len(s) - (n + 1) + 1 ELSE 0
        BY <2>1, SubSeqProperties
  <2> QED BY <1>1, <2>2 DEF From
<1>4. SubSeq(s, 1, n) \o From(s, n) = s
  <2>1. 1 \in 1 .. Len(s) + 1 /\ n \in 1 - 1 .. Len(s) /\ Len(s) \in n .. Len(s) BY <1>1
  <2>2. SubSeq(s, 1, n) \o SubSeq(s, n + 1, Len(s)) = SubSeq(s, 1, Len(s))
        BY <2>1, ConcatAdjacentSubSeq
  <2> QED BY <2>2, SubSeqFull DEF From
<1> QED BY <1>2, <1>3, <1>4

\* The first bytes of a sequence that follows another.
LEMMA CutLater ==
    ASSUME NEW S, NEW s \in Seq(S), NEW t \in Seq(S), NEW n \in 0 .. Len(t)
    PROVE  s \o SubSeq(t, 1, n) = SubSeq(s \o t, 1, Len(s) + n)
<1>1. Len(s) \in Nat /\ Len(t) \in Nat /\ Len(s) + n \in 0 .. Len(s) + Len(t) BY LenProperties
<1>2. /\ s \o t \in Seq(S) /\ Len(s \o t) = Len(s) + Len(t)
      /\ \A i \in 1 .. Len(s) + Len(t) : (s \o t)[i] = IF i <= Len(s) THEN s[i] ELSE t[i - Len(s)]
      BY ConcatProperties
<1> DEFINE p == SubSeq(t, 1, n)
           a == s \o p
           b == SubSeq(s \o t, 1, Len(s) + n)
<1>3. p \in Seq(S) /\ Len(p) = n /\ \A i \in 1 .. n : p[i] = t[i] BY Cut
<1> HIDE DEF p
<1>4. /\ a \in Seq(S) /\ Len(a) = Len(s) + n
      /\ \A i \in 1 .. Len(s) + n : a[i] = IF i <= Len(s) THEN s[i] ELSE p[i - Len(s)]
      BY <1>3, ConcatProperties
<1>5. b \in Seq(S) /\ Len(b) = Len(s) + n /\ \A i \in 1 .. Len(s) + n : b[i] = (s \o t)[i]
      BY <1>1, <1>2, Cut
<1> HIDE DEF a, b
<1>6. ASSUME NEW i \in 1 .. Len(s) + n PROVE a[i] = b[i]
  <2>1. i \in 1 .. Len(s) + Len(t) BY <1>1
  <2>2. CASE i <= Len(s) BY <1>2, <1>4, <1>5, <2>1, <2>2
  <2>3. CASE ~(i <= Len(s))
    <3>1. i - Len(s) \in 1 .. n BY <1>1, <2>3
    <3> QED BY <1>2, <1>3, <1>4, <1>5, <2>1, <2>3, <3>1
  <2> QED BY <2>2, <2>3
<1>7. a = b BY <1>4, <1>5, <1>6, SeqEqual
<1> QED BY <1>7 DEF a, b, p

\* The same where the cut is in the first of two sequences, or in the second.
LEMMA CutJoined ==
    ASSUME NEW S, NEW s \in Seq(S), NEW t \in Seq(S), NEW n \in 0 .. Len(s) + Len(t)
    PROVE  /\ n <= Len(s) => SubSeq(s \o t, 1, n) = SubSeq(s, 1, n)
           /\ n >= Len(s) => SubSeq(s \o t, 1, n) = s \o SubSeq(t, 1, n - Len(s))
<1>1. Len(s) \in Nat /\ Len(t) \in Nat /\ n \in Nat BY LenProperties
<1>2. ASSUME n <= Len(s) PROVE SubSeq(s \o t, 1, n) = SubSeq(s, 1, n)
  <2>1. CASE n = 0 BY <2>1, SubSeqEmpty
  <2>2. CASE n # 0
    <3>1. n \in 1 .. Len(s) /\ 1 \in 1 .. Len(s) BY <1>1, <1>2, <2>2
    <3> QED BY <3>1, SubSeqOfConcat1
  <2> QED BY <2>1, <2>2
<1>3. ASSUME n >= Len(s) PROVE SubSeq(s \o t, 1, n) = s \o SubSeq(t, 1, n - Len(s))
  <2>1. n - Len(s) \in 0 .. Len(t) /\ Len(s) + (n - Len(s)) = n BY <1>1, <1>3
  <2> QED BY <2>1, CutLater
<1> QED BY <1>2, <1>3

-----------------------------------------------------------------------------
(* Streams of bytes, of messages with the lengths ls of which those in fs  *)
(* have failed                                                             *)

Known(s, ls) == \A i \in 1 .. Len(s) : s[i].msg \in 1 .. Len(ls)

Complete(b, ls, fs) == b.k = ls[b.msg] \/ b.msg \in fs

After(a, b, ls, fs) ==
    IF b.msg = a.msg THEN b.k = a.k + 1
    ELSE b.k = 1 /\ a.msg < b.msg /\ Complete(a, ls, fs)

\* What WholeInOrder says, byte by byte.
Whole(s, ls, fs) ==
    /\ s # <<>> => s[1].k = 1
    /\ \A i \in 2 .. Len(s) : After(s[i - 1], s[i], ls, fs)

Ended(s, ls, fs) == s # <<>> => Complete(s[Len(s)], ls, fs)

\* The two ways of saying it.
LEMMA WholeIs ==
    ASSUME NEW s \in Seq(Bytes)
    PROVE  WholeInOrder(s) <=> Whole(s, lens, failed)
<1>1. Len(s) \in Nat /\ (s # <<>> <=> Len(s) >= 1) BY EmptySeq, LenProperties
<1>2. ASSUME WholeInOrder(s) PROVE Whole(s, lens, failed)
  <2>1. ASSUME s # <<>> PROVE s[1].k = 1
    <3>1. 1 \in 1 .. Len(s) /\ ~(1 > 1) BY <1>1, <2>1
    <3>2. FollowsIn(s, 1) BY <1>2, <3>1 DEF WholeInOrder
    <3> QED BY <3>1, <3>2 DEF FollowsIn
  <2>2. ASSUME NEW i \in 2 .. Len(s) PROVE After(s[i - 1], s[i], lens, failed)
    <3>1. i \in 1 .. Len(s) /\ i > 1 BY <1>1
    <3>2. FollowsIn(s, i) BY <1>2, <3>1 DEF WholeInOrder
    <3> QED BY <3>1, <3>2 DEF FollowsIn, After, Complete
  <2> QED BY <2>1, <2>2 DEF Whole
<1>3. ASSUME Whole(s, lens, failed) PROVE WholeInOrder(s)
  <2> SUFFICES ASSUME NEW i \in 1 .. Len(s) PROVE FollowsIn(s, i) BY DEF WholeInOrder
  <2>1. CASE i = 1
    <3>1. s[1].k = 1 /\ ~(1 > 1) BY <1>1, <1>3 DEF Whole
    <3> QED BY <2>1, <3>1 DEF FollowsIn
  <2>2. CASE i # 1
    <3>1. i \in 2 .. Len(s) /\ i > 1 BY <1>1, <2>2
    <3>2. After(s[i - 1], s[i], lens, failed) BY <1>3, <3>1 DEF Whole
    <3> QED BY <3>1, <3>2 DEF FollowsIn, After, Complete
  <2> QED BY <2>1, <2>2
<1> QED BY <1>2, <1>3

\* What has been taken of a stream in order is in order.
LEMMA WholePrefix ==
    ASSUME NEW s \in Seq(Bytes), NEW ls, NEW fs, NEW n \in 0 .. Len(s)
    PROVE  /\ Whole(s, ls, fs) => Whole(SubSeq(s, 1, n), ls, fs)
           /\ Known(s, ls) => Known(SubSeq(s, 1, n), ls)
<1> DEFINE t == SubSeq(s, 1, n)
<1>1. /\ Len(s) \in Nat /\ t \in Seq(Bytes) /\ Len(t) = n /\ \A i \in 1 .. n : t[i] = s[i]
      /\ (s # <<>> <=> Len(s) >= 1)
      BY Cut, EmptySeq, LenProperties
<1> HIDE DEF t
<1>2. ASSUME Whole(s, ls, fs) PROVE Whole(t, ls, fs)
  <2>1. ASSUME t # <<>> PROVE t[1].k = 1
    <3>1. 1 \in 1 .. n BY <1>1, <2>1, EmptySeq
    <3>2. s # <<>> BY <1>1, <3>1
    <3> QED BY <1>1, <1>2, <3>1, <3>2 DEF Whole
  <2>2. ASSUME NEW i \in 2 .. Len(t) PROVE After(t[i - 1], t[i], ls, fs)
    <3>1. i \in 2 .. Len(s) /\ i \in 1 .. n /\ i - 1 \in 1 .. n BY <1>1
    <3>2. After(s[i - 1], s[i], ls, fs) BY <1>2, <3>1 DEF Whole
    <3> QED BY <1>1, <3>1, <3>2
  <2> QED BY <2>1, <2>2 DEF Whole
<1>3. ASSUME Known(s, ls) PROVE Known(t, ls)
  <2>1. \A i \in 1 .. Len(t) : i \in 1 .. Len(s) /\ t[i] = s[i] BY <1>1
  <2> QED BY <1>3, <2>1 DEF Known
<1> QED BY <1>2, <1>3 DEF t

\* A stream stays in order when another message follows, whether or not it fails.
LEMMA WholeStill ==
    ASSUME NEW s \in Seq(Bytes), NEW ls \in Seq(Nat), NEW len \in Nat, NEW fs, NEW gs,
           fs \subseteq gs, Known(s, ls)
    PROVE  LET ms == Append(ls, len)
           IN  /\ Known(s, ms)
               /\ Whole(s, ls, fs) => Whole(s, ms, gs)
               /\ Ended(s, ls, fs) => Ended(s, ms, gs)
<1> DEFINE ms == Append(ls, len)
<1>1. /\ Len(ls) \in Nat /\ Len(ms) = Len(ls) + 1
      /\ \A m \in 1 .. Len(ls) : ms[m] = ls[m]
      BY AppendProperties, LenProperties
<1> HIDE DEF ms
<1>2. \A m \in 1 .. Len(ls) : m \in 1 .. Len(ms) BY <1>1
<1>3. Known(s, ms) BY <1>2 DEF Known
<1>4. \A i \in 1 .. Len(s) : Complete(s[i], ls, fs) => Complete(s[i], ms, gs)
      BY <1>1 DEF Complete, Known
<1>5. Len(s) \in Nat /\ (s # <<>> <=> Len(s) >= 1) BY EmptySeq, LenProperties
<1>6. \A i \in 2 .. Len(s) : i - 1 \in 1 .. Len(s) BY <1>5
<1>7. Whole(s, ls, fs) => Whole(s, ms, gs) BY <1>4, <1>6 DEF Whole, After
<1>8. ASSUME Ended(s, ls, fs) PROVE Ended(s, ms, gs)
  <2> SUFFICES ASSUME s # <<>> PROVE Complete(s[Len(s)], ms, gs) BY DEF Ended
  <2>1. Len(s) \in 1 .. Len(s) BY <1>5
  <2> QED BY <1>4, <1>8, <2>1 DEF Ended
<1> QED BY <1>3, <1>7, <1>8 DEF ms

Byte(m, i) == [msg |-> m, k |-> i]

\* A message, byte by byte.
LEMMA MessageIs ==
    ASSUME NEW m \in 1 .. MaxMsgs, NEW len \in Nat
    PROVE  /\ Message(m, len) \in Seq(Bytes) /\ Len(Message(m, len)) = len
           /\ \A i \in 1 .. len : /\ Message(m, len)[i] = Byte(m, i)
                                  /\ Byte(m, i).msg = m /\ Byte(m, i).k = i
<1> DEFINE d == Message(m, len)
<1>1. \A i \in 1 .. len : d[i] = Byte(m, i) BY DEF Message, Byte
<1>2. \A i \in 1 .. len : Byte(m, i) \in Bytes /\ Byte(m, i).msg = m /\ Byte(m, i).k = i
      BY DEF Bytes, Byte
<1>3. d = [i \in 1 .. len |-> d[i]] BY DEF Message
<1> HIDE DEF d
<1>4. d \in [1 .. len -> Bytes] BY <1>1, <1>2, <1>3
<1>5. d \in Seq(Bytes) /\ Len(d) = len BY <1>4, LenProperties
<1> QED BY <1>1, <1>2, <1>5 DEF d

\* The bytes of every message that has not failed are in s.
Kept(s, ls, fs) == \A m \in 1 .. Len(ls) : m \notin fs => \A i \in 1 .. ls[m] : Contains(s, Byte(m, i))

Sound(s, ls, fs) == Known(s, ls) /\ Whole(s, ls, fs) /\ Ended(s, ls, fs) /\ Kept(s, ls, fs)

\* What is in a sequence stays in it when it goes on.
LEMMA StillContains ==
    ASSUME NEW s, NEW t, Len(s) \in Nat, Len(t) \in Nat, Len(s) <= Len(t),
           \A i \in 1 .. Len(s) : t[i] = s[i], NEW e, Contains(s, e)
    PROVE  Contains(t, e)
<1>1. PICK i \in 1 .. Len(s) : s[i] = e BY DEF Contains
<1>2. i \in 1 .. Len(t) /\ t[i] = e BY <1>1
<1> QED BY <1>2 DEF Contains

\* A sound stream goes on with a new message, or the part of it that is taken
\* before send() fails.
LEMMA SoundFollows ==
    ASSUME NEW s \in Seq(Bytes), NEW ls \in Seq(Nat), NEW fs, NEW gs, fs \subseteq gs,
           NEW len \in Nat, NEW j \in 0 .. len,
           Len(ls) + 1 \in 1 .. MaxMsgs, j = len \/ Len(ls) + 1 \in gs,
           Sound(s, ls, fs)
    PROVE  Sound(s \o SubSeq(Message(Len(ls) + 1, len), 1, j), Append(ls, len), gs)
<1> DEFINE m  == Len(ls) + 1
           ms == Append(ls, len)
           d  == SubSeq(Message(m, len), 1, j)
           t  == s \o d
<1>1. m \in 1 .. MaxMsgs /\ m = Len(ls) + 1 /\ Len(ls) \in Nat BY LenProperties
<1>2. Len(ms) = m /\ ms[m] = len /\ \A i \in 1 .. Len(ls) : ms[i] = ls[i]
      BY <1>1, AppendProperties
<1>3. Known(s, ms) /\ Whole(s, ms, gs) /\ Ended(s, ms, gs)
  <2>1. Known(s, ls) /\ Whole(s, ls, fs) /\ Ended(s, ls, fs) BY DEF Sound
  <2> QED BY <2>1, WholeStill
<1> HIDE DEF m, ms
<1>4. /\ d \in Seq(Bytes) /\ Len(d) = j
      /\ \A i \in 1 .. j : d[i] = Byte(m, i) /\ d[i].msg = m /\ d[i].k = i
  <2>1. /\ Message(m, len) \in Seq(Bytes) /\ Len(Message(m, len)) = len
        /\ \A i \in 1 .. len : /\ Message(m, len)[i] = Byte(m, i)
                               /\ Byte(m, i).msg = m /\ Byte(m, i).k = i
        BY <1>1, MessageIs
  <2>2. d \in Seq(Bytes) /\ Len(d) = j /\ \A k \in 1 .. j : d[k] = Message(m, len)[k]
        BY <2>1, Cut
  <2>3. \A k \in 1 .. j : k \in 1 .. len OBVIOUS
  <2> HIDE DEF d
  <2> QED BY <2>1, <2>2, <2>3
<1> HIDE DEF d
<1>5. /\ t \in Seq(Bytes) /\ Len(t) = Len(s) + j /\ Len(s) \in Nat
      /\ \A i \in 1 .. Len(s) + j : t[i] = IF i <= Len(s) THEN s[i] ELSE d[i - Len(s)]
  <2>1. Len(s) \in Nat BY LenProperties
  <2>2. /\ t \in Seq(Bytes) /\ Len(t) = Len(s) + Len(d)
        /\ \A i \in 1 .. Len(s) + Len(d) : t[i] = IF i <= Len(s) THEN s[i] ELSE d[i - Len(s)]
        BY <1>4, ConcatProperties
  <2> QED BY <1>4, <2>1, <2>2
<1> HIDE DEF t
<1>6. \A i \in 1 .. Len(s) : t[i] = s[i] BY <1>5
<1>7. ASSUME NEW k \in 1 .. j PROVE t[Len(s) + k] = d[k] /\ Len(s) + k \in 1 .. Len(t)
  <2>1. Len(s) + k \in 1 .. Len(s) + j /\ ~(Len(s) + k <= Len(s)) /\ (Len(s) + k) - Len(s) = k
        BY <1>5
  <2> QED BY <1>5, <2>1
<1>8. ASSUME NEW i \in 1 .. Len(t), i > Len(s)
      PROVE  /\ i - Len(s) \in 1 .. j /\ t[i].msg = m /\ t[i].k = i - Len(s)
  <2>1. i - Len(s) \in 1 .. j /\ Len(s) + (i - Len(s)) = i BY <1>5, <1>8
  <2>2. t[i] = d[i - Len(s)] BY <1>7, <2>1
  <2> QED BY <1>4, <2>1, <2>2
<1>9. Known(t, ms)
  <2> SUFFICES ASSUME NEW i \in 1 .. Len(t) PROVE t[i].msg \in 1 .. Len(ms) BY DEF Known
  <2>1. CASE i <= Len(s)
    <3>1. i \in 1 .. Len(s) /\ t[i] = s[i] BY <1>5, <2>1
    <3> QED BY <1>3, <3>1 DEF Known
  <2>2. CASE i > Len(s) BY <1>1, <1>2, <1>8, <2>2
  <2> QED BY <1>5, <2>1, <2>2
<1>10. Whole(t, ms, gs)
  <2>1. ASSUME t # <<>> PROVE t[1].k = 1
    <3>1. 1 \in 1 .. Len(t) BY <1>5, <2>1, EmptySeq
    <3>2. CASE 1 <= Len(s)
      <4>1. s # <<>> /\ t[1] = s[1] BY <1>5, <3>1, <3>2, EmptySeq
      <4> QED BY <1>3, <4>1 DEF Whole
    <3>3. CASE 1 > Len(s)
      <4>1. Len(s) = 0 BY <1>5, <3>3
      <4>2. t[1].k = 1 - Len(s) BY <1>8, <3>1, <3>3
      <4> QED BY <4>1, <4>2
    <3> QED BY <1>5, <3>2, <3>3
  <2>2. ASSUME NEW i \in 2 .. Len(t) PROVE After(t[i - 1], t[i], ms, gs)
    <3>1. i \in 1 .. Len(t) /\ i - 1 \in 1 .. Len(t) BY <1>5
    <3>2. CASE i <= Len(s)
      <4>1. i \in 2 .. Len(s) /\ t[i] = s[i] /\ t[i - 1] = s[i - 1] BY <1>5, <1>6, <3>1, <3>2
      <4> QED BY <1>3, <4>1 DEF Whole
    <3>3. CASE i > Len(s) + 1
      <4>1. i > Len(s) /\ i - 1 > Len(s) BY <1>5, <3>3
      <4>2. /\ t[i].msg = m /\ t[i].k = i - Len(s)
            /\ t[i - 1].msg = m /\ t[i - 1].k = (i - 1) - Len(s)
            BY <1>8, <3>1, <4>1
      <4>3. i - Len(s) = ((i - 1) - Len(s)) + 1 BY <1>5
      <4> QED BY <4>2, <4>3 DEF After
    <3>4. CASE i = Len(s) + 1
      <4>1. t[i].msg = m /\ t[i].k = 1
        <5>1. i > Len(s) /\ i - Len(s) = 1 BY <1>5, <3>4
        <5> QED BY <1>8, <3>1, <5>1
      <4>2. i - 1 = Len(s) /\ i - 1 \in 1 .. Len(s) BY <1>5, <3>1, <3>4
      <4>3. t[i - 1] = s[Len(s)] /\ s # <<>> BY <1>6, <4>2, EmptySeq
      <4>4. Complete(t[i - 1], ms, gs) BY <1>3, <4>3 DEF Ended
      <4>5. t[i - 1].msg < m /\ t[i - 1].msg # m
        <5>1. t[i - 1].msg \in 1 .. Len(ls) BY <4>2, <4>3 DEF Sound, Known
        <5> QED BY <1>1, <5>1
      <4> QED BY <4>1, <4>4, <4>5 DEF After
    <3> QED BY <1>5, <3>2, <3>3, <3>4
  <2> QED BY <2>1, <2>2 DEF Whole
<1>11. Ended(t, ms, gs)
  <2> SUFFICES ASSUME t # <<>> PROVE Complete(t[Len(t)], ms, gs) BY DEF Ended
  <2>1. Len(t) \in 1 .. Len(t) BY <1>5, EmptySeq
  <2>2. CASE j = 0
    <3>1. Len(t) = Len(s) /\ t[Len(t)] = s[Len(s)] /\ s # <<>> BY <1>5, <1>6, <2>1, <2>2, EmptySeq
    <3> QED BY <1>3, <3>1 DEF Ended
  <2>3. CASE j # 0
    <3>1. Len(t) > Len(s) /\ Len(t) - Len(s) = j BY <1>5, <2>3
    <3>2. t[Len(t)].msg = m /\ t[Len(t)].k = j BY <1>8, <2>1, <3>1
    <3>3. j = len \/ m \in gs BY DEF m
    <3> QED BY <1>2, <3>2, <3>3 DEF Complete
  <2> QED BY <2>2, <2>3
<1>12. ASSUME NEW n \in 1 .. Len(ms), n \notin gs, NEW i \in 1 .. ms[n]
       PROVE  Contains(t, Byte(n, i))
  <2>1. CASE n = m
    <3>1. j = len /\ i \in 1 .. j BY <1>2, <1>12, <2>1 DEF m
    <3>2. Len(s) + i \in 1 .. Len(t) /\ t[Len(s) + i] = Byte(n, i) BY <1>4, <1>7, <2>1, <3>1
    <3> QED BY <3>2 DEF Contains
  <2>2. CASE n # m
    <3>1. n \in 1 .. Len(ls) /\ n \notin fs /\ i \in 1 .. ls[n] BY <1>1, <1>2, <1>12, <2>2
    <3>2. Contains(s, Byte(n, i)) BY <3>1 DEF Sound, Kept
    <3>3. Len(t) \in Nat /\ Len(s) <= Len(t) BY <1>5
    <3> QED BY <1>5, <1>6, <3>2, <3>3, StillContains
  <2> QED BY <2>1, <2>2
<1>13. Kept(t, ms, gs) BY <1>12 DEF Kept
<1> QED BY <1>9, <1>10, <1>11, <1>13 DEF Sound, t, d, m, ms

-----------------------------------------------------------------------------
(* send() *)

Stream == wire \o sendbuf

\* Joining is associative.
LEMMA JoinedAll ==
    ASSUME NEW a \in Seq(Bytes), NEW b \in Seq(Bytes), NEW c \in Seq(Bytes)
    PROVE  (a \o b) \o c = a \o (b \o c) /\ a \o b \in Seq(Bytes)
BY ConcatAssociative, ConcatProperties

\* The lesser of two numbers.
LEMMA LeastIs ==
    ASSUME NEW a \in Nat, NEW b \in Nat
    PROVE  Least(a, b) \in Nat /\ Least(a, b) <= a /\ Least(a, b) <= b
BY DEF Least

\* Until the kernel answers EAGAIN, or realloc() fails: the stream goes on with
\* data, with all of it if send() returns 0.
LEMMA SentBlocks ==
    ASSUME TypeOK, NEW data \in Seq(Bytes), NEW ret \in {0, -1}, SendBlocks(data, ret)
    PROVE  /\ ~dead /\ ~dead'
           /\ wire' \in Seq(Bytes) /\ sendbuf' \in Seq(Bytes)
           /\ size' \in Nat /\ Len(sendbuf') <= size' /\ room' \in 0 .. KernelRoom
           /\ \E j \in 0 .. Len(data) : /\ wire' \o sendbuf' = Stream \o SubSeq(data, 1, j)
                                        /\ ret = 0 => j = Len(data)
<1> DEFINE used == Len(sendbuf)
           all  == sendbuf \o data
           n    == Least(room, used + Len(data))
           out  == SubSeq(all, 1, n)
<1>1. /\ wire \in Seq(Bytes) /\ sendbuf \in Seq(Bytes) /\ size \in Nat /\ used <= size
      /\ room \in 0 .. KernelRoom /\ KernelRoom \in Nat /\ room \in Nat
      BY SPAssumption DEF TypeOK
<1>2. used \in Nat /\ Len(data) \in Nat BY <1>1, LenProperties
<1>3. n \in Nat /\ n <= room /\ n <= used + Len(data)
  <2>1. used + Len(data) \in Nat BY <1>2
  <2> QED BY <1>1, <2>1, LeastIs
<1>4. all \in Seq(Bytes) /\ Len(all) = used + Len(data) BY <1>1, ConcatProperties
<1>5. /\ ~dead /\ ~dead' /\ wire' = wire \o out /\ room' = room - n
      /\ IF n < used THEN CopyToSendBuffer(From(sendbuf, n), data, ret)
         ELSE CopyToSendBuffer(<<>>, From(data, n - used), ret)
      BY DEF SendBlocks
<1> HIDE DEF n
<1>6. /\ n <= used => out = SubSeq(sendbuf, 1, n)
      /\ n >= used => out = sendbuf \o SubSeq(data, 1, n - used)
      BY <1>1, <1>2, <1>3, CutJoined
<1>7. out \in Seq(Bytes) BY <1>3, <1>4, Cut
<1> HIDE DEF out, all
<1>8. wire' \in Seq(Bytes) /\ room' \in 0 .. KernelRoom
  <2>1. wire' \in Seq(Bytes) BY <1>1, <1>5, <1>7, ConcatProperties
  <2> QED BY <1>1, <1>3, <1>5, <2>1
<1>9. ASSUME NEW buf \in Seq(Bytes), NEW rest \in Seq(Bytes), CopyToSendBuffer(buf, rest, ret),
             Len(buf) <= size
      PROVE  /\ sendbuf' = IF ret = 0 THEN buf \o rest ELSE buf
             /\ sendbuf' \in Seq(Bytes) /\ size' \in Nat /\ Len(sendbuf') <= size'
  <2>1. Len(buf) \in Nat /\ Len(rest) \in Nat BY LenProperties
  <2>2. buf \o rest \in Seq(Bytes) /\ Len(buf \o rest) = Len(buf) + Len(rest)
        BY ConcatProperties
  <2>3. CASE ret = 0
    <3>1. sendbuf' = buf \o rest
          /\ size' = IF Len(buf) + Len(rest) > size THEN Len(buf) + Len(rest) ELSE size
          BY <1>9, <2>3 DEF CopyToSendBuffer
    <3> QED BY <1>1, <2>1, <2>2, <2>3, <3>1
  <2>4. CASE ret = -1
    <3>1. sendbuf' = buf /\ size' = size BY <1>9, <2>4 DEF CopyToSendBuffer
    <3> QED BY <1>1, <1>9, <2>4, <3>1
  <2> QED BY <2>3, <2>4
<1>10. CASE n < used
  <2> DEFINE rest == From(sendbuf, n)
             head == SubSeq(sendbuf, 1, n)
  <2>1. rest \in Seq(Bytes) /\ Len(rest) = used - n /\ head \in Seq(Bytes) /\ head \o rest = sendbuf
        BY <1>1, <1>2, <1>3, <1>10, Cut
  <2>2. CopyToSendBuffer(rest, data, ret) BY <1>5, <1>10
  <2>3. out = head BY <1>2, <1>3, <1>6, <1>10
  <2> HIDE DEF rest, head
  <2>4. /\ sendbuf' = IF ret = 0 THEN rest \o data ELSE rest
        /\ sendbuf' \in Seq(Bytes) /\ size' \in Nat /\ Len(sendbuf') <= size'
    <3>1. Len(rest) <= size BY <1>1, <1>2, <1>3, <2>1
    <3> QED BY <1>9, <2>1, <2>2, <3>1
  <2>5. (wire \o head) \o rest = Stream
    <3>0. wire \in Seq(Bytes) /\ head \in Seq(Bytes) /\ rest \in Seq(Bytes) BY <1>1, <2>1
    <3>1. (wire \o head) \o rest = wire \o (head \o rest) BY <3>0, JoinedAll
    <3> QED BY <2>1, <3>1 DEF Stream
  <2>6. Stream \in Seq(Bytes) BY <1>1, ConcatProperties DEF Stream
  <2>7. CASE ret = 0
    <3>1. wire' \o sendbuf' = (wire \o head) \o (rest \o data) BY <1>5, <2>3, <2>4, <2>7
    <3>2. (wire \o head) \in Seq(Bytes) BY <1>1, <2>1, ConcatProperties
    <3>3. (wire \o head) \o (rest \o data) = ((wire \o head) \o rest) \o data
          BY <2>1, <3>2, JoinedAll
    <3>4. wire' \o sendbuf' = Stream \o SubSeq(data, 1, Len(data))
          BY <2>5, <3>1, <3>3, SubSeqFull
    <3>5. Len(data) \in 0 .. Len(data) BY <1>2
    <3> QED BY <1>5, <1>8, <2>4, <3>4, <3>5
  <2>8. CASE ret = -1
    <3>1. wire' \o sendbuf' = Stream BY <1>5, <2>3, <2>4, <2>5, <2>8
    <3>2. SubSeq(data, 1, 0) = <<>> BY SubSeqEmpty
    <3>3. wire' \o sendbuf' = Stream \o SubSeq(data, 1, 0)
          BY <2>6, <3>1, <3>2, ConcatEmptySeq
    <3>4. 0 \in 0 .. Len(data) BY <1>2
    <3>5. ret # 0 BY <2>8
    <3> QED BY <1>5, <1>8, <2>4, <3>3, <3>4, <3>5
  <2> QED BY <2>7, <2>8
<1>11. CASE n >= used
  <2> DEFINE j == n - used
             rest == From(data, j)
             head == SubSeq(data, 1, j)
  <2>1. j \in 0 .. Len(data) BY <1>2, <1>3, <1>11
  <2>2. out = sendbuf \o head BY <1>2, <1>3, <1>6, <1>11
  <2>3. CopyToSendBuffer(<<>>, rest, ret) BY <1>2, <1>3, <1>5, <1>11
  <2> HIDE DEF j
  <2>4. rest \in Seq(Bytes) /\ head \in Seq(Bytes) /\ head \o rest = data BY <2>1, Cut
  <2> HIDE DEF rest
  <2>5. /\ sendbuf' = IF ret = 0 THEN <<>> \o rest ELSE <<>>
        /\ sendbuf' \in Seq(Bytes) /\ size' \in Nat /\ Len(sendbuf') <= size'
    <3>1. <<>> \in Seq(Bytes) /\ Len(<<>>) <= size BY <1>1, EmptySeq
    <3> QED BY <1>9, <2>3, <2>4, <3>1
  <2>6. wire' = Stream \o head
    <3> HIDE DEF head
    <3>1. wire' = wire \o (sendbuf \o head) BY <1>5, <2>2
    <3>2. wire \in Seq(Bytes) /\ sendbuf \in Seq(Bytes) /\ head \in Seq(Bytes) BY <1>1, <2>4
    <3>3. (wire \o sendbuf) \o head = wire \o (sendbuf \o head) BY <3>2, JoinedAll
    <3> QED BY <3>1, <3>3 DEF Stream
  <2>7. CASE ret = 0
    <3>1. sendbuf' = rest BY <2>4, <2>5, <2>7, ConcatEmptySeq
    <3>2. Stream \in Seq(Bytes) BY <1>1, ConcatProperties DEF Stream
    <3> HIDE DEF head
    <3>3. wire' \o sendbuf' = Stream \o data
      <4>1. (Stream \o head) \o rest = Stream \o (head \o rest) BY <2>4, <3>2, JoinedAll
      <4> QED BY <2>4, <2>6, <3>1, <4>1
    <3>4. wire' \o sendbuf' = Stream \o SubSeq(data, 1, Len(data)) BY <3>3, SubSeqFull
    <3>5. Len(data) \in 0 .. Len(data) BY <1>2
    <3> QED BY <1>5, <1>8, <2>5, <3>4, <3>5
  <2>8. CASE ret = -1
    <3>1. sendbuf' = <<>> BY <2>5, <2>8
    <3>2. wire' \o sendbuf' = Stream \o head BY <1>8, <2>6, <3>1, ConcatEmptySeq
    <3>3. ret # 0 BY <2>8
    <3> QED BY <1>5, <1>8, <2>1, <2>5, <3>2, <3>3
  <2> QED BY <2>7, <2>8
<1>12. n < used \/ n >= used BY <1>2, <1>3
<1> QED BY <1>10, <1>11, <1>12

\* Where ::send() fails for good, the kernel has taken the first bytes of the
\* stream and data, and takes no more.
LEMMA SentFails ==
    ASSUME TypeOK, NEW data \in Seq(Bytes), SendFails(data)
    PROVE  /\ dead' /\ room' = 0
           /\ sendbuf' \in Seq(Bytes) /\ size' = size /\ Len(sendbuf') <= size
           /\ \E n \in 0 .. Len(Stream \o data) :
                /\ wire' = SubSeq(Stream \o data, 1, n)
                /\ dead => wire' = wire
<1> DEFINE all == sendbuf \o data
<1>1. /\ wire \in Seq(Bytes) /\ sendbuf \in Seq(Bytes) /\ size \in Nat /\ Len(sendbuf) <= size
      /\ room \in Nat
      BY SPAssumption DEF TypeOK
<1>2. all \in Seq(Bytes) /\ Len(all) \in Nat /\ Len(wire) \in Nat
  <2>1. all \in Seq(Bytes) BY <1>1, ConcatProperties
  <2> QED BY <1>1, <2>1, LenProperties
<1>3. /\ all # <<>> /\ dead' = TRUE /\ room' = 0 /\ size' = size
      /\ \E n \in 0 .. IF dead THEN 0 ELSE Least(room, Len(all) - 1) :
            /\ wire' = wire \o SubSeq(all, 1, n)
            /\ sendbuf' = IF n < Len(sendbuf) THEN sendbuf ELSE <<>>
      BY DEF SendFails, NoData
<1> DEFINE top == IF dead THEN 0 ELSE Least(room, Len(all) - 1)
<1>4. PICK n \in 0 .. top : /\ wire' = wire \o SubSeq(all, 1, n)
                            /\ sendbuf' = IF n < Len(sendbuf) THEN sendbuf ELSE <<>>
      BY <1>3
<1>5. top \in 0 .. Len(all) /\ (dead => top = 0)
  <2>1. Len(all) - 1 \in Nat BY <1>2, <1>3, EmptySeq
  <2>2. Least(room, Len(all) - 1) \in Nat /\ Least(room, Len(all) - 1) <= Len(all) - 1
        BY <1>1, <2>1, LeastIs
  <2> QED BY <1>2, <2>2
<1> HIDE DEF top
<1>6. n \in 0 .. Len(all) /\ (dead => n = 0) BY <1>2, <1>5
<1>7. sendbuf' \in Seq(Bytes) /\ Len(sendbuf') <= size
  <2>1. <<>> \in Seq(Bytes) /\ Len(<<>>) <= size BY <1>1, EmptySeq
  <2> QED BY <1>1, <1>4, <2>1
<1> HIDE DEF all
<1>8. wire' = SubSeq(wire \o all, 1, Len(wire) + n) BY <1>1, <1>2, <1>4, <1>6, CutLater
<1>9. wire \o all = Stream \o data
  <2>1. (wire \o sendbuf) \o data = wire \o (sendbuf \o data) BY <1>1, JoinedAll
  <2> QED BY <2>1 DEF all, Stream
<1>10. Len(wire) + n \in 0 .. Len(wire \o all)
  <2>1. Len(wire \o all) = Len(wire) + Len(all) BY <1>1, <1>2, ConcatProperties
  <2> QED BY <1>2, <1>6, <2>1
<1>11. ASSUME dead PROVE wire' = wire
  <2>1. SubSeq(all, 1, 0) = <<>> BY SubSeqEmpty
  <2> QED BY <1>1, <1>4, <1>6, <1>11, <2>1, ConcatEmptySeq
<1> QED BY <1>3, <1>7, <1>8, <1>9, <1>10, <1>11

-----------------------------------------------------------------------------
(* The invariant *)

SndInv ==
    /\ TypeOK
    /\ failed \subseteq 1 .. Len(lens) /\ Len(lens) <= MaxMsgs
    /\ Known(wire, lens) /\ Whole(wire, lens, failed)
    /\ ~dead => Sound(Stream, lens, failed)

\* At the start nothing has been sent.
LEMMA SndInit == Init => SndInv
<1> SUFFICES ASSUME Init PROVE SndInv OBVIOUS
<1>1. wire = <<>> /\ sendbuf = <<>> /\ lens = <<>> /\ failed = {} /\ size = SndBuf /\ room = 0
      /\ status = "connecting" /\ armed = FALSE /\ dead = FALSE
      BY DEF Init
<1>2. <<>> \in Seq(Bytes) /\ <<>> \in Seq(Lens) /\ Len(<<>>) = 0 BY EmptySeq
<1>3. TypeOK
  <2>1. Len(sendbuf) <= size /\ size \in Nat /\ room \in 0 .. KernelRoom
        BY <1>1, <1>2, SPAssumption
  <2> QED BY <1>1, <1>2, <2>1 DEF TypeOK
<1>4. Len(lens) = 0 /\ Len(lens) <= MaxMsgs /\ failed \subseteq 1 .. Len(lens)
      BY <1>1, <1>2, SPAssumption
<1>5. Stream = <<>> BY <1>1, <1>2, ConcatEmptySeq DEF Stream
<1>6. Known(<<>>, lens) /\ Whole(<<>>, lens, failed) /\ Ended(<<>>, lens, failed) /\ Kept(<<>>, lens, failed)
      BY <1>2, <1>4 DEF Known, Whole, Ended, Kept
<1> QED BY <1>1, <1>3, <1>4, <1>5, <1>6 DEF SndInv, Sound

\* What the proofs of the steps need of the invariant.
LEMMA SndFacts ==
    ASSUME SndInv
    PROVE  /\ TypeOK
           /\ wire \in Seq(Bytes) /\ sendbuf \in Seq(Bytes) /\ Stream \in Seq(Bytes)
           /\ lens \in Seq(Nat) /\ lens \in Seq(Lens) /\ Len(lens) \in Nat
           /\ room \in 0 .. KernelRoom /\ size \in Nat /\ Len(sendbuf) <= size
<1>1. TypeOK BY DEF SndInv
<1>2. /\ wire \in Seq(Bytes) /\ sendbuf \in Seq(Bytes) /\ lens \in Seq(Lens)
      /\ room \in 0 .. KernelRoom /\ size \in Nat /\ Len(sendbuf) <= size
      BY <1>1 DEF TypeOK
<1>3. lens \in Seq(Nat)
  <2>1. Lens \subseteq Nat BY SPAssumption
  <2> QED BY <1>2, <2>1, SeqMonotonic
<1>4. Stream \in Seq(Bytes) BY <1>2, ConcatProperties DEF Stream
<1> QED BY <1>1, <1>2, <1>3, <1>4, LenProperties

\* A step that leaves the bytes and the messages alone.
LEMMA SameBytes ==
    ASSUME SndInv, TypeOK', UNCHANGED <<sendbuf, dead, wire, lens, failed>>
    PROVE  SndInv'
BY DEF SndInv, Stream

\* What has been taken of a sound stream is in order.
LEMMA TakenInOrder ==
    ASSUME NEW s \in Seq(Bytes), NEW w \in Seq(Bytes), NEW b \in Seq(Bytes), s = w \o b,
           NEW ls, NEW fs, Known(s, ls), Whole(s, ls, fs)
    PROVE  Known(w, ls) /\ Whole(w, ls, fs)
<1>1. Len(w) \in Nat /\ Len(b) \in Nat /\ Len(s) = Len(w) + Len(b)
      BY ConcatProperties, LenProperties
<1>2. Len(w) \in 0 .. Len(s) /\ Len(w) \in 0 .. Len(w) + Len(b) BY <1>1
<1>3. SubSeq(s, 1, Len(w)) = w
  <2>1. SubSeq(w \o b, 1, Len(w)) = SubSeq(w, 1, Len(w)) BY <1>1, <1>2, CutJoined
  <2> QED BY <2>1, SubSeqFull
<1> QED BY <1>2, <1>3, WholePrefix

\* send() of a new message.
LEMMA AppStep == ASSUME SndInv, NEW len \in Lens, AppSends(len) PROVE SndInv'
<1> DEFINE m == Len(lens) + 1
           data == Message(m, len)
           ms == Append(lens, len)
<1>1. /\ TypeOK
      /\ wire \in Seq(Bytes) /\ sendbuf \in Seq(Bytes) /\ Stream \in Seq(Bytes)
      /\ lens \in Seq(Nat) /\ lens \in Seq(Lens) /\ Len(lens) \in Nat
      /\ room \in 0 .. KernelRoom /\ size \in Nat /\ Len(sendbuf) <= size
      BY SndFacts
<1>2. len \in Nat /\ MaxMsgs \in Nat BY SPAssumption
<1>3. lens' = ms /\ Len(lens) < MaxMsgs /\ status' = status /\ armed' = armed
      BY DEF AppSends
<1>4. ms \in Seq(Lens) /\ Len(ms) = m BY <1>1, AppendProperties
<1>5. m \in 1 .. MaxMsgs BY <1>1, <1>2, <1>3
<1>6. data \in Seq(Bytes) /\ Len(data) = len
      BY <1>2, <1>5, MessageIs
<1>7. \/ \E ret \in {0, -1} : /\ SendBlocks(data, ret)
                              /\ failed' = IF ret = 0 THEN failed ELSE failed \cup {m}
      \/ SendFails(data) /\ failed' = failed \cup {m}
  <2>1. Len(lens') = m BY <1>3, <1>4
  <2>2. \/ SendBlocks(data, 0) /\ UNCHANGED failed
        \/ SendBlocks(data, -1) /\ failed' = failed \cup {m}
        \/ SendFails(data) /\ failed' = failed \cup {m}
        BY <2>1 DEF AppSends
  <2>3. -1 # 0 OBVIOUS
  <2> HIDE DEF data, m
  <2> QED BY <2>2, <2>3
<1>8. failed \subseteq failed' /\ (m \in failed' \/ failed' = failed)
      /\ failed' \subseteq failed \cup {m}
      BY <1>7
<1>9. failed' \subseteq 1 .. Len(ms) /\ failed' \subseteq 1 .. MaxMsgs /\ Len(ms) <= MaxMsgs
  <2>1. failed \subseteq 1 .. Len(lens) BY DEF SndInv
  <2>2. 1 .. Len(lens) \subseteq 1 .. m /\ m \in 1 .. m /\ 1 .. m \subseteq 1 .. MaxMsgs
        BY <1>1, <1>2, <1>5
  <2> QED BY <1>4, <1>5, <1>8, <2>1, <2>2
<1>10. status \in {"connecting", "established", "closed"} /\ armed \in BOOLEAN BY <1>1 DEF TypeOK
<1>11. CASE \E ret \in {0, -1} : /\ SendBlocks(data, ret)
                                 /\ failed' = IF ret = 0 THEN failed ELSE failed \cup {m}
  <2>1. PICK ret \in {0, -1} : /\ SendBlocks(data, ret)
                               /\ failed' = IF ret = 0 THEN failed ELSE failed \cup {m}
        BY <1>11
  <2> HIDE DEF data, m, ms
  <2>2. /\ ~dead /\ ~dead'
        /\ wire' \in Seq(Bytes) /\ sendbuf' \in Seq(Bytes)
        /\ size' \in Nat /\ Len(sendbuf') <= size' /\ room' \in 0 .. KernelRoom
        /\ \E j \in 0 .. Len(data) : /\ wire' \o sendbuf' = Stream \o SubSeq(data, 1, j)
                                     /\ ret = 0 => j = Len(data)
        BY <1>1, <1>6, <2>1, SentBlocks
  <2>3. PICK j \in 0 .. Len(data) : /\ wire' \o sendbuf' = Stream \o SubSeq(data, 1, j)
                                    /\ ret = 0 => j = Len(data)
        BY <2>2
  <2>4. j \in 0 .. len /\ (j = len \/ m \in failed') BY <1>6, <2>1, <2>3
  <2>5. Sound(Stream, lens, failed) BY <2>2 DEF SndInv
  <2>6. Sound(Stream \o SubSeq(data, 1, j), ms, failed')
        BY <1>1, <1>2, <1>5, <1>8, <2>4, <2>5, SoundFollows DEF m, ms, data
  <2>7. Sound(Stream', ms, failed') /\ Stream' = wire' \o sendbuf' BY <2>3, <2>6 DEF Stream
  <2>8. Stream' \in Seq(Bytes) BY <2>2, <2>7, ConcatProperties
  <2>9. Known(wire', ms) /\ Whole(wire', ms, failed')
        BY <2>2, <2>7, <2>8, TakenInOrder DEF Sound
  <2>10. TypeOK'
    <3>1. dead' \in BOOLEAN
      <4>1. dead' = dead /\ dead \in BOOLEAN BY <1>1, <2>1 DEF TypeOK, SendBlocks
      <4> QED BY <4>1
    <3> QED BY <1>3, <1>4, <1>9, <1>10, <2>2, <3>1 DEF TypeOK
  <2> QED BY <1>3, <1>9, <2>2, <2>7, <2>9, <2>10 DEF SndInv
<1>12. CASE SendFails(data) /\ failed' = failed \cup {m}
  <2> HIDE DEF data, m, ms
  <2>1. /\ dead' /\ room' = 0
        /\ sendbuf' \in Seq(Bytes) /\ size' = size /\ Len(sendbuf') <= size
        /\ \E n \in 0 .. Len(Stream \o data) :
             /\ wire' = SubSeq(Stream \o data, 1, n)
             /\ dead => wire' = wire
        BY <1>1, <1>6, <1>12, SentFails
  <2>2. \E n \in 0 .. Len(Stream \o data) : wire' = SubSeq(Stream \o data, 1, n) BY <2>1
  <2>3. Stream \o data \in Seq(Bytes) BY <1>1, <1>6, ConcatProperties
  <2>4. wire' \in Seq(Bytes) BY <2>2, <2>3, Cut
  <2>5. Known(wire', ms) /\ Whole(wire', ms, failed')
    <3>1. CASE dead
      <4>1. wire' = wire BY <2>1, <3>1
      <4>2. Known(wire, lens) /\ Whole(wire, lens, failed) BY DEF SndInv
      <4>3. Known(wire, ms) /\ Whole(wire, ms, failed')
            BY <1>1, <1>2, <1>8, <4>2, WholeStill DEF ms
      <4> QED BY <4>1, <4>3
    <3>2. CASE ~dead
      <4>1. Sound(Stream, lens, failed) BY <3>2 DEF SndInv
      <4>2. len \in 0 .. len BY <1>2
      <4>3. Sound(Stream \o SubSeq(data, 1, len), ms, failed')
            BY <1>1, <1>2, <1>5, <1>8, <4>1, <4>2, SoundFollows DEF m, ms, data
      <4>4. SubSeq(data, 1, len) = data BY <1>6, SubSeqFull
      <4>5. Known(Stream \o data, ms) /\ Whole(Stream \o data, ms, failed')
            BY <4>3, <4>4 DEF Sound
      <4> QED BY <2>2, <2>3, <4>5, WholePrefix
    <3> QED BY <3>1, <3>2
  <2>6. TypeOK'
    <3>1. room' \in 0 .. KernelRoom /\ dead' \in BOOLEAN
      <4>1. dead' = TRUE BY <1>12 DEF SendFails
      <4> QED BY <2>1, <4>1, SPAssumption
    <3> QED BY <1>1, <1>3, <1>4, <1>9, <1>10, <2>1, <2>4, <3>1 DEF TypeOK
  <2> QED BY <1>3, <1>9, <2>1, <2>5, <2>6 DEF SndInv
<1> QED BY <1>7, <1>11, <1>12

\* EPOLLOUT: send() of the buffer alone.
LEMMA OutStep == ASSUME SndInv, EventOut PROVE SndInv'
<1>1. /\ TypeOK
      /\ wire \in Seq(Bytes) /\ sendbuf \in Seq(Bytes) /\ Stream \in Seq(Bytes)
      /\ lens \in Seq(Nat) /\ lens \in Seq(Lens) /\ Len(lens) \in Nat
      BY SndFacts
<1>2. status' = status /\ lens' = lens /\ failed' = failed BY DEF EventOut
<1>3. /\ status \in {"connecting", "established", "closed"} /\ armed \in BOOLEAN /\ dead \in BOOLEAN
      /\ failed \subseteq 1 .. MaxMsgs
      BY <1>1 DEF TypeOK
<1>4. CASE sendbuf = <<>>
  <2>1. UNCHANGED <<sendbuf, size, room, dead, wire, armed>> BY <1>4 DEF EventOut
  <2>2. TypeOK' BY <1>1, <1>2, <2>1 DEF TypeOK
  <2> QED BY <1>2, <2>1, <2>2, SameBytes
<1>5. CASE sendbuf # <<>>
  <2>1. SendBlocks(NoData, 0) /\ armed' = (sendbuf' # <<>>) BY <1>5 DEF EventOut
  <2>2. NoData \in Seq(Bytes) /\ Len(NoData) = 0 BY EmptySeq DEF NoData
  <2>3. /\ ~dead /\ ~dead'
        /\ wire' \in Seq(Bytes) /\ sendbuf' \in Seq(Bytes)
        /\ size' \in Nat /\ Len(sendbuf') <= size' /\ room' \in 0 .. KernelRoom
        /\ \E j \in 0 .. Len(NoData) : /\ wire' \o sendbuf' = Stream \o SubSeq(NoData, 1, j)
                                       /\ 0 = 0 => j = Len(NoData)
        BY <1>1, <2>1, <2>2, SentBlocks
  <2>4. wire' \o sendbuf' = Stream
    <3>1. SubSeq(NoData, 1, 0) = <<>> BY SubSeqEmpty
    <3>2. wire' \o sendbuf' = Stream \o SubSeq(NoData, 1, 0) BY <2>2, <2>3
    <3> QED BY <1>1, <3>1, <3>2, ConcatEmptySeq
  <2>5. Stream' = Stream BY <2>4 DEF Stream
  <2>6. Sound(Stream, lens, failed) BY <2>3 DEF SndInv
  <2>7. Known(wire', lens) /\ Whole(wire', lens, failed)
        BY <1>1, <2>3, <2>4, <2>6, TakenInOrder DEF Sound
  <2>8. TypeOK'
    <3>1. dead' \in BOOLEAN
      <4>1. dead' = dead BY <2>1 DEF SendBlocks
      <4> QED BY <1>3, <4>1
    <3>2. armed' \in BOOLEAN BY <2>1
    <3> QED BY <1>1, <1>2, <1>3, <2>3, <3>1, <3>2 DEF TypeOK
  <2>9. failed \subseteq 1 .. Len(lens) /\ Len(lens) <= MaxMsgs BY DEF SndInv
  <2> QED BY <1>2, <2>5, <2>6, <2>7, <2>8, <2>9 DEF SndInv
<1> QED BY <1>4, <1>5

\* The same with an error.
LEMMA OutFailsStep == ASSUME SndInv, EventOutFails PROVE SndInv'
<1>1. /\ TypeOK
      /\ wire \in Seq(Bytes) /\ sendbuf \in Seq(Bytes) /\ Stream \in Seq(Bytes)
      /\ lens \in Seq(Nat) /\ lens \in Seq(Lens) /\ Len(lens) \in Nat
      /\ size \in Nat
      BY SndFacts
<1>2. /\ SendFails(NoData) /\ ~dead /\ status' = "closed" /\ armed' = FALSE
      /\ lens' = lens /\ failed' = failed
      BY DEF EventOutFails
<1>3. NoData \in Seq(Bytes) BY EmptySeq DEF NoData
<1>4. /\ dead' /\ room' = 0
      /\ sendbuf' \in Seq(Bytes) /\ size' = size /\ Len(sendbuf') <= size
      /\ \E n \in 0 .. Len(Stream \o NoData) :
           /\ wire' = SubSeq(Stream \o NoData, 1, n)
           /\ dead => wire' = wire
      BY <1>1, <1>2, <1>3, SentFails
<1>5. \E n \in 0 .. Len(Stream) : wire' = SubSeq(Stream, 1, n)
  <2>1. Stream \o NoData = Stream BY <1>1, ConcatEmptySeq DEF NoData
  <2>2. \E n \in 0 .. Len(Stream \o NoData) : wire' = SubSeq(Stream \o NoData, 1, n) BY <1>4
  <2> QED BY <2>1, <2>2
<1>6. Sound(Stream, lens, failed) BY <1>2 DEF SndInv
<1>7. wire' \in Seq(Bytes) BY <1>1, <1>5, Cut
<1>8. Known(wire', lens) /\ Whole(wire', lens, failed) BY <1>1, <1>5, <1>6, WholePrefix DEF Sound
<1>9. TypeOK'
  <2>1. dead' = TRUE BY <1>2 DEF SendFails
  <2>2. room' \in 0 .. KernelRoom BY <1>4, SPAssumption
  <2>3. failed \subseteq 1 .. MaxMsgs BY <1>1 DEF TypeOK
  <2> QED BY <1>1, <1>2, <1>4, <1>7, <2>1, <2>2, <2>3 DEF TypeOK
<1>10. failed \subseteq 1 .. Len(lens) /\ Len(lens) <= MaxMsgs BY DEF SndInv
<1> QED BY <1>2, <1>4, <1>8, <1>9, <1>10 DEF SndInv

\* Whatever the application sends and the kernel takes, the stream is sound.
THEOREM SendInvariance == Spec => []SndInv
<1>1. Init => SndInv BY SndInit
<1>2. SndInv /\ [Next]_vars => SndInv'
  <2> SUFFICES ASSUME SndInv, [Next]_vars PROVE SndInv' OBVIOUS
  <2>0. TypeOK BY DEF SndInv
  <2>1. ASSUME NEW len \in Lens, AppSends(len) PROVE SndInv' BY <2>1, AppStep
  <2>2. CASE EventConnected
    <3>1. TypeOK'
      <4>1. KernelRoom \in 0 .. KernelRoom BY SPAssumption
      <4> QED BY <2>0, <2>2, <4>1 DEF EventConnected, TypeOK
    <3> QED BY <2>2, <3>1, SameBytes DEF EventConnected
  <2>3. CASE EventIn
    <3>1. TypeOK'
      <4>1. armed' \in BOOLEAN BY <2>3 DEF EventIn
      <4> QED BY <2>0, <2>3, <4>1 DEF EventIn, TypeOK
    <3> QED BY <2>3, <3>1, SameBytes DEF EventIn
  <2>4. CASE EventOut BY <2>4, OutStep
  <2>5. CASE EventOutFails BY <2>5, OutFailsStep
  <2>6. CASE Shutdown
    <3>1. TypeOK' BY <2>0, <2>6 DEF Shutdown, TypeOK
    <3> QED BY <2>6, <3>1, SameBytes DEF Shutdown
  <2>7. CASE PeerReads
    <3>1. TypeOK'
      <4>1. room' \in 0 .. KernelRoom
        <5>1. room \in Nat /\ room' \in room + 1 .. KernelRoom
              BY <2>0, <2>7, SPAssumption DEF PeerReads, TypeOK
        <5> QED BY <5>1, SPAssumption
      <4> QED BY <2>0, <2>7, <4>1 DEF PeerReads, TypeOK
    <3> QED BY <2>7, <3>1, SameBytes DEF PeerReads
  <2>8. CASE UNCHANGED vars
    <3>1. TypeOK' BY <2>0, <2>8 DEF vars, TypeOK
    <3> QED BY <2>8, <3>1, SameBytes DEF vars
  <2> QED BY <2>1, <2>2, <2>3, <2>4, <2>5, <2>6, <2>7, <2>8 DEF Next
<1> QED BY <1>1, <1>2, PTL DEF Spec

\* Nothing is sent twice, out of order or with a hole, and a message is cut only if
\* its send() has returned -1.
THEOREM SendTheorem == Spec => []SendInv
<1>1. ASSUME SndInv PROVE SendInv
  <2>1. TypeOK /\ wire \in Seq(Bytes) /\ Stream \in Seq(Bytes) BY <1>1, SndFacts
  <2>2. WholeInOrder(wire) BY <1>1, <2>1, WholeIs DEF SndInv
  <2>3. ~dead => WholeInOrder(wire \o sendbuf) BY <1>1, <2>1, WholeIs DEF SndInv, Sound, Stream
  <2> QED BY <2>1, <2>2, <2>3 DEF SendInv, StreamIntact
<1> QED BY <1>1, SendInvariance, PTL

\* Every byte for which send() has returned 0 has been taken or waits in the buffer.
THEOREM OkTheorem == Spec => []OkIsKept
<1>1. ASSUME SndInv PROVE OkIsKept
  <2>1. ~dead => Kept(Stream, lens, failed) BY <1>1 DEF SndInv, Sound
  <2> QED BY <2>1 DEF OkIsKept, Kept, Stream, Byte
<1> QED BY <1>1, SendInvariance, PTL
=============================================================================
