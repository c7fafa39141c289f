--------------------------- MODULE RecvPathProofs ---------------------------
(***************************************************************************)
(* Theorems about RecvPath: for messages of any lengths, whatever the size *)
(* of the buffer and however the bytes arrive, the application is told the *)
(* peer's messages whole, once and in order, and of the end last.          *)
(***************************************************************************)
EXTENDS RecvPath, ListOpsProofs, TLAPS

-----------------------------------------------------------------------------
(* The invariant *)

\* The bytes the server has not cut into messages yet, from the first that
\* follows a message that has been.
Stream == recvbuf \o kernel

Byte(m, i) == [msg |-> m, k |-> i]

\* A byte of a message the peer has begun to send.
OfPeer(b, ms) == b.msg \in 1 .. Len(ms) /\ b.k \in 1 .. ms[b.msg].len

\* The byte the peer sends after one.
NextByte(b, ms) == IF b.k < ms[b.msg].len THEN Byte(b.msg, b.k + 1) ELSE Byte(b.msg + 1, 1)

InOrder(s, ms) == /\ \A j \in 1 .. Len(s) : OfPeer(s[j], ms)
                  /\ \A j \in 1 .. Len(s) - 1 : s[j + 1] = NextByte(s[j], ms)

\* What is under way of the message m and the ones after it: it begins with the
\* first byte of m, and ends with the last the peer has sent, unless the
\* connection broke.
Begins(s, m) == s # <<>> => s[1] = Byte(m, 1)
Ends(s, m, ms, n, e) ==
    e # "rst" => IF s # <<>> THEN s[Len(s)] = Byte(Len(ms), n)
                 ELSE m = Len(ms) + 1 /\ (ms # <<>> => n = ms[Len(ms)].len)

\* Every message before m has been told or refused, and no other told.
Behind(m) == /\ \A i \in DataAt : IdAt(i) < m
             /\ \A k \in 1 .. m - 1 : Handled(k)

StreamInv ==
    /\ InOrder(Stream, peer)
    /\ peer # <<>> => sent \in 1 .. peer[Len(peer)].len
    /\ \E m \in 1 .. Len(peer) + 1 :
          Begins(Stream, m) /\ Ends(Stream, m, peer, sent, ended) /\ Behind(m)

\* A message that was told: whole, and one of the peer's.
ToldWhole == \A i \in DataAt :
    /\ IdAt(i) \in 1 .. Len(peer)
    /\ told[i].data = Message(IdAt(i), peer[IdAt(i)].len)

ToldInOrder == \A i, j \in DataAt : i < j => IdAt(i) < IdAt(j)

\* The stages of on_net_event().
Stages ==
    /\ Len(peer) <= MaxMsgs
    /\ pc # "over" => Len(recvbuf) < size /\ \A i \in 1 .. Len(told) : told[i].kind # "closed"
    /\ pc = "wait" => ~closedByPeer
    /\ status = "new" => pc = "wait" /\ told = <<>> 

RcvInv == TypeOK /\ StreamInv /\ ToldWhole /\ ToldInOrder /\ Stages /\ EndIsTold

-----------------------------------------------------------------------------
(* Sequences that are cut and joined *)

\* Both parts of a sequence cut in two.
LEMMA CutInTwo ==
    ASSUME NEW S, NEW s \in Seq(S), NEW n \in 0 .. Len(s)
    PROVE  /\ SubSeq(s, 1, n) \in Seq(S) /\ Len(SubSeq(s, 1, n)) = n
           /\ \A i \in 1 .. n : SubSeq(s, 1, n)[i] = s[i]
           /\ From(s, n) \in Seq(S) /\ Len(From(s, n)) = Len(s) - n
           /\ \A i \in 1 .. Len(s) - n : From(s, n)[i] = s[n + i]
           /\ SubSeq(s, 1, n) \o From(s, n) = s
<1>1. Len(s) \in Nat /\ \A i \in 1 .. Len(s) : s[i] \in S BY LenProperties, ElementOfSeq
<1>2. /\ SubSeq(s, 1, n) \in Seq(S) /\ Len(SubSeq(s, 1, n)) = n
      /\ \A i \in 1 .. n : SubSeq(s, 1, n)[i] = s[i]
  <2>1. \A i \in 1 .. n : s[i] \in S BY <1>1
  <2>2. n \in Int /\ 1 \in Int /\ n - 1 + 1 = n BY <1>1
  <2>3. /\ SubSeq(s, 1, n) \in Seq(S)
        /\ Len(SubSeq(s, 1, n)) = IF 1 <= n THEN n - 1 + 1 ELSE 0
        /\ \A i \in 1 .. n - 1 + 1 : SubSeq(s, 1, n)[i] = s[1 + i - 1]
        BY <2>1, <2>2, SubSeqProperties
  <2>4. \A i \in 1 .. n : 1 + i - 1 = i BY <1>1
  <2> QED BY <1>1, <2>2, <2>3, <2>4
<1>3. /\ From(s, n) \in Seq(S) /\ Len(From(s, n)) = Len(s) - n
      /\ \A i \in 1 .. Len(s) - n : From(s, n)[i] = s[n + i]
  <2>1. n + 1 \in Int /\ Len(s) \in Int /\ \A i \in n + 1 .. Len(s) : s[i] \in S BY <1>1
  <2>2. /\ SubSeq(s, n + 1, Len(s)) \in Seq(S)
        /\ Len(SubSeq(s, n + 1, Len(s))) = IF n + 1 <= Len(s) THEN Len(s) - (n + 1) + 1 ELSE 0
        /\ \A i \in 1 .. Len(s) - (n + 1) + 1 : SubSeq(s, n + 1, Len(s))[i] = s[(n + 1) + i - 1]
        BY <2>1, SubSeqProperties
  <2>3. \A i \in 1 .. Len(s) - n : (n + 1) + i - 1 = n + i /\ i \in 1 .. Len(s) - (n + 1) + 1
        BY <1>1
  <2> QED BY <1>1, <2>2, <2>3 DEF From
<1>4. SubSeq(s, 1, n) \o From(s, n) = s
  <2>1. 1 \in 1 .. Len(s) + 1 /\ n \in 1 - 1 .. Len(s) /\ Len(s) \in n .. Len(s) BY <1>1
  <2>2. SubSeq(s, 1, n) \o SubSeq(s, n + 1, Len(s)) = SubSeq(s, 1, Len(s))
        BY <2>1, ConcatAdjacentSubSeq
  <2> QED BY <2>2, SubSeqFull DEF From
<1> QED BY <1>2, <1>3, <1>4

\* What is cut off the first of two sequences.
LEMMA CutOffFirst ==
    ASSUME NEW S, NEW s \in Seq(S), NEW t \in Seq(S), NEW n \in 0 .. Len(s)
    PROVE  From(s, n) \o t = From(s \o t, n)
<1>1. /\ Len(s) \in Nat /\ Len(t) \in Nat
      /\ s \o t \in Seq(S) /\ Len(s \o t) = Len(s) + Len(t)
      /\ \A i \in 1 .. Len(s) + Len(t) : (s \o t)[i] = IF i <= Len(s) THEN s[i] ELSE t[i - Len(s)]
      BY LenProperties, ConcatProperties
<1> DEFINE p == From(s, n)
           a == p \o t
           c == s \o t
           b == From(c, n)
<1>2. p \in Seq(S) /\ Len(p) = Len(s) - n /\ \A i \in 1 .. Len(s) - n : p[i] = s[n + i]
      BY CutInTwo
<1> HIDE DEF p
<1>3. /\ a \in Seq(S) /\ Len(a) = Len(p) + Len(t)
      /\ \A i \in 1 .. Len(p) + Len(t) : a[i] = IF i <= Len(p) THEN p[i] ELSE t[i - Len(p)]
      BY <1>2, ConcatProperties
<1>4. n \in 0 .. Len(c) BY <1>1
<1> HIDE DEF a, c
<1>5. c \in Seq(S) /\ Len(c) = Len(s) + Len(t) BY <1>1 DEF c
<1>6. b \in Seq(S) /\ Len(b) = Len(c) - n /\ \A i \in 1 .. Len(c) - n : b[i] = c[n + i]
      BY <1>4, <1>5, CutInTwo
<1> HIDE DEF b
<1>7. ASSUME NEW i \in 1 .. Len(a) PROVE a[i] = b[i]
  <2>1. /\ i \in 1 .. Len(p) + Len(t) /\ i \in 1 .. Len(c) - n
        /\ n + i \in 1 .. Len(s) + Len(t)
        BY <1>1, <1>2, <1>3, <1>5
  <2>2. b[i] = c[n + i] BY <1>6, <2>1
  <2>3. c[n + i] = IF n + i <= Len(s) THEN s[n + i] ELSE t[(n + i) - Len(s)]
        BY <1>1, <2>1 DEF c
  <2>4. CASE i <= Len(p)
    <3>1. i \in 1 .. Len(s) - n /\ n + i <= Len(s) BY <1>1, <1>2, <2>1, <2>4
    <3> QED BY <1>2, <1>3, <2>1, <2>2, <2>3, <2>4, <3>1
  <2>5. CASE ~(i <= Len(p))
    <3>1. ~(n + i <= Len(s)) /\ (n + i) - Len(s) = i - Len(p) BY <1>1, <1>2, <2>1, <2>5
    <3> QED BY <1>3, <2>1, <2>2, <2>3, <2>5, <3>1
  <2> QED BY <2>4, <2>5
<1>8. Len(a) = Len(b) BY <1>1, <1>2, <1>3, <1>5, <1>6
<1>9. a = b BY <1>3, <1>6, <1>7, <1>8, SeqEqual
<1> QED BY <1>9 DEF a, b, c, p

\* Joining is associative.
LEMMA JoinedAll ==
    ASSUME NEW a \in Seq(Bytes), NEW b \in Seq(Bytes), NEW c \in Seq(Bytes)
    PROVE  (a \o b) \o c = a \o (b \o c)
BY ConcatAssociative

-----------------------------------------------------------------------------
(* Bytes in order *)

\* A message, byte by byte.
LEMMA MessageIs ==
    ASSUME NEW m \in 1 .. MaxMsgs, NEW len \in Nat
    PROVE  /\ Message(m, len) \in Seq(Bytes) /\ Len(Message(m, len)) = len
           /\ \A i \in 1 .. len : Message(m, len)[i] = Byte(m, i)
<1> DEFINE d == Message(m, len)
<1>1. \A i \in 1 .. len : d[i] = Byte(m, i) BY DEF Message, Byte
<1>2. \A i \in 1 .. len : Byte(m, i) \in Bytes BY DEF Bytes, Byte
<1>3. d = [i \in 1 .. len |-> d[i]] BY DEF Message
<1> HIDE DEF d
<1>4. d \in Seq(Bytes) /\ Len(d) = len
  <2>1. d \in [1 .. len -> Bytes] BY <1>1, <1>2, <1>3
  <2> QED BY <2>1, LenProperties
<1> QED BY <1>1, <1>4 DEF d

\* The fields of a byte.
LEMMA ByteIs ==
    ASSUME NEW m, NEW i
    PROVE  Byte(m, i).msg = m /\ Byte(m, i).k = i
BY DEF Byte

\* The bytes of a message, from its first on, follow from their order.
LEMMA FromFirst ==
    ASSUME NEW ms, NEW s \in Seq(Bytes), InOrder(s, ms), NEW m \in Nat,
           ms[m].len \in Nat, s[1] = Byte(m, 1),
           NEW n \in 1 .. Len(s), n <= ms[m].len
    PROVE  \A i \in 1 .. n : s[i] = Byte(m, i)
<1> DEFINE Wrong == {i \in 1 .. n : s[i] # Byte(m, i)}
<1>1. Len(s) \in Nat /\ n \in Nat /\ Wrong \in SUBSET Nat BY LenProperties
<1> SUFFICES ASSUME Wrong # {} PROVE FALSE OBVIOUS
<1>2. PICK b \in Wrong : \A i \in Wrong : b <= i
  <2> HIDE DEF Wrong
  <2> QED BY <1>1, LeastOf
<1>3. b \in 1 .. n /\ s[b] # Byte(m, b) BY <1>2
<1>4. b # 1 BY <1>3
<1>5. b - 1 \in 1 .. n /\ b - 1 \in 1 .. Len(s) - 1 /\ (b - 1) + 1 = b /\ ~(b <= b - 1)
      BY <1>1, <1>3, <1>4
<1>6. s[b - 1] = Byte(m, b - 1) BY <1>2, <1>5
<1>7. s[b] = NextByte(Byte(m, b - 1), ms) BY <1>5, <1>6 DEF InOrder
<1>8. b - 1 < ms[m].len BY <1>1, <1>3, <1>5
<1>9. NextByte(Byte(m, b - 1), ms) = Byte(m, (b - 1) + 1) BY <1>8, ByteIs DEF NextByte
<1> QED BY <1>3, <1>5, <1>7, <1>9

\* What has been cut off a stream in order is in order, and so is the rest.
LEMMA InOrderCut ==
    ASSUME NEW ms, NEW s \in Seq(Bytes), InOrder(s, ms), NEW n \in 0 .. Len(s)
    PROVE  InOrder(SubSeq(s, 1, n), ms) /\ InOrder(From(s, n), ms)
<1> DEFINE a == SubSeq(s, 1, n)
           b == From(s, n)
<1>1. /\ Len(s) \in Nat
      /\ a \in Seq(Bytes) /\ Len(a) = n /\ \A i \in 1 .. n : a[i] = s[i]
      /\ b \in Seq(Bytes) /\ Len(b) = Len(s) - n /\ \A i \in 1 .. Len(s) - n : b[i] = s[n + i]
      BY CutInTwo, LenProperties
<1> HIDE DEF a, b
<1>2. /\ \A j \in 1 .. Len(s) : OfPeer(s[j], ms)
      /\ \A j \in 1 .. Len(s) - 1 : s[j + 1] = NextByte(s[j], ms)
      BY DEF InOrder
<1>3. InOrder(a, ms)
  <2>1. \A j \in 1 .. Len(a) : j \in 1 .. n /\ j \in 1 .. Len(s) BY <1>1
  <2>2. \A j \in 1 .. Len(a) - 1 : j + 1 \in 1 .. n /\ j \in 1 .. n /\ j \in 1 .. Len(s) - 1 BY <1>1
  <2>3. \A j \in 1 .. Len(a) : OfPeer(a[j], ms) BY <1>1, <1>2, <2>1
  <2>4. \A j \in 1 .. Len(a) - 1 : a[j + 1] = NextByte(a[j], ms) BY <1>1, <1>2, <2>2
  <2> QED BY <2>3, <2>4 DEF InOrder
<1>4. InOrder(b, ms)
  <2>1. ASSUME NEW j \in 1 .. Len(b) PROVE OfPeer(b[j], ms)
    <3>1. j \in 1 .. Len(s) - n /\ n + j \in 1 .. Len(s) BY <1>1
    <3> QED BY <1>1, <1>2, <3>1
  <2>2. ASSUME NEW j \in 1 .. Len(b) - 1 PROVE b[j + 1] = NextByte(b[j], ms)
    <3>1. /\ j \in 1 .. Len(s) - n /\ j + 1 \in 1 .. Len(s) - n
          /\ n + j \in 1 .. Len(s) - 1 /\ n + (j + 1) = (n + j) + 1
          BY <1>1
    <3>2. b[j] = s[n + j] /\ b[j + 1] = s[(n + j) + 1] BY <1>1, <3>1
    <3>3. s[(n + j) + 1] = NextByte(s[n + j], ms) BY <1>2, <3>1
    <3> QED BY <3>2, <3>3
  <2> QED BY <2>1, <2>2 DEF InOrder
<1> QED BY <1>3, <1>4 DEF a, b

\* Two streams in order of which the second goes on where the first ends.
LEMMA InOrderJoined ==
    ASSUME NEW ms, NEW s \in Seq(Bytes), NEW t \in Seq(Bytes), InOrder(s, ms), InOrder(t, ms),
           s # <<>> /\ t # <<>> => t[1] = NextByte(s[Len(s)], ms)
    PROVE  InOrder(s \o t, ms)
<1> DEFINE c == s \o t
<1>1. /\ Len(s) \in Nat /\ Len(t) \in Nat
      /\ c \in Seq(Bytes) /\ Len(c) = Len(s) + Len(t)
      /\ \A i \in 1 .. Len(s) + Len(t) : c[i] = IF i <= Len(s) THEN s[i] ELSE t[i - Len(s)]
      BY LenProperties, ConcatProperties
<1> HIDE DEF c
<1>2. ASSUME NEW j \in 1 .. Len(c) PROVE OfPeer(c[j], ms)
  <2>1. CASE j <= Len(s)
    <3>1. j \in 1 .. Len(s) /\ c[j] = s[j] BY <1>1, <2>1
    <3> QED BY <3>1 DEF InOrder
  <2>2. CASE ~(j <= Len(s))
    <3>1. j - Len(s) \in 1 .. Len(t) /\ c[j] = t[j - Len(s)] BY <1>1, <2>2
    <3> QED BY <3>1 DEF InOrder
  <2> QED BY <2>1, <2>2
<1>3. ASSUME NEW j \in 1 .. Len(c) - 1 PROVE c[j + 1] = NextByte(c[j], ms)
  <2>1. CASE j < Len(s)
    <3>1. j \in 1 .. Len(s) - 1 /\ c[j] = s[j] /\ c[j + 1] = s[j + 1] BY <1>1, <2>1
    <3> QED BY <3>1 DEF InOrder
  <2>2. CASE j = Len(s)
    <3>1. c[j] = s[Len(s)] /\ c[j + 1] = t[1] BY <1>1, <2>2
    <3>2. Len(s) # 0 /\ Len(t) # 0 BY <1>1, <2>2
    <3>3. s # <<>> /\ t # <<>> BY <3>2, EmptySeq
    <3> QED BY <3>1, <3>3
  <2>3. CASE j > Len(s)
    <3> DEFINE i == j - Len(s)
    <3>1. i \in 1 .. Len(t) - 1 /\ c[j] = t[i] /\ (j + 1) - Len(s) = i + 1 BY <1>1, <2>3
    <3>2. c[j + 1] = t[(j + 1) - Len(s)] BY <1>1, <2>3
    <3> HIDE DEF i
    <3> QED BY <3>1, <3>2 DEF InOrder
  <2> QED BY <1>1, <2>1, <2>2, <2>3
<1>4. InOrder(c, ms) BY <1>2, <1>3 DEF InOrder
<1> QED BY <1>4 DEF c

\* Messages the peer adds do not change the bytes of the others.
Longer(ms, ns) == Len(ms) <= Len(ns) /\ \A m \in 1 .. Len(ms) : ns[m] = ms[m]

LEMMA InOrderStill ==
    ASSUME NEW ms, NEW ns, Len(ms) \in Nat, Len(ns) \in Nat, Longer(ms, ns),
           NEW s \in Seq(Bytes), InOrder(s, ms)
    PROVE  InOrder(s, ns)
<1>1. Len(s) \in Nat BY LenProperties
<1>2. \A m \in 1 .. Len(ms) : m \in 1 .. Len(ns) /\ ns[m] = ms[m] BY DEF Longer
<1>3. ASSUME NEW j \in 1 .. Len(s) PROVE OfPeer(s[j], ns) /\ NextByte(s[j], ns) = NextByte(s[j], ms)
  <2>1. OfPeer(s[j], ms) BY DEF InOrder
  <2>2. ns[s[j].msg] = ms[s[j].msg] /\ s[j].msg \in 1 .. Len(ns) BY <1>2, <2>1 DEF OfPeer
  <2> QED BY <2>1, <2>2 DEF OfPeer, NextByte
<1>4. \A j \in 1 .. Len(s) - 1 : j \in 1 .. Len(s) BY <1>1
<1> QED BY <1>3, <1>4 DEF InOrder

\* A piece of the peer's last message.
Piece(ms, a, b) == SubSeq(Message(Len(ms), ms[Len(ms)].len), a + 1, b)

LEMMA PieceIs ==
    ASSUME NEW ms \in Seq(Messages), Len(ms) \in 1 .. MaxMsgs,
           NEW a \in Nat, NEW b \in Nat, a < b, b <= ms[Len(ms)].len
    PROVE  LET t == Piece(ms, a, b)
           IN  /\ t \in Seq(Bytes) /\ Len(t) = b - a /\ t # <<>>
               /\ t[1] = Byte(Len(ms), a + 1) /\ t[Len(t)] = Byte(Len(ms), b)
               /\ InOrder(t, ms)
<1> DEFINE M == Len(ms)
           d == Message(M, ms[M].len)
           t == Piece(ms, a, b)
<1>1. M \in 1 .. MaxMsgs /\ ms[M] \in Messages BY ElementOfSeq
<1>2. ms[M].len \in Nat BY <1>1, RPAssumption DEF Messages
<1>3. d \in Seq(Bytes) /\ Len(d) = ms[M].len /\ \A i \in 1 .. ms[M].len : d[i] = Byte(M, i)
      BY <1>1, <1>2, MessageIs
<1>4. t = SubSeq(d, a + 1, b) BY DEF Piece
<1>5. M \in Nat BY <1>1, RPAssumption
<1> HIDE DEF d, t, M
<1>6. t \in Seq(Bytes) /\ Len(t) = b - a /\ \A i \in 1 .. b - a : t[i] = Byte(M, a + i)
  <2>1. /\ a + 1 \in Int /\ b \in Int /\ a + 1 <= b /\ b - (a + 1) + 1 = b - a
        /\ \A i \in a + 1 .. b : d[i] \in Bytes
    <3>1. \A i \in 1 .. Len(d) : d[i] \in Bytes BY <1>3, ElementOfSeq
    <3>2. \A i \in a + 1 .. b : i \in 1 .. Len(d) BY <1>2, <1>3 DEF M
    <3> QED BY <3>1, <3>2
  <2>2. /\ t \in Seq(Bytes)
        /\ Len(t) = IF a + 1 <= b THEN b - (a + 1) + 1 ELSE 0
        /\ \A i \in 1 .. b - (a + 1) + 1 : t[i] = d[(a + 1) + i - 1]
        BY <1>4, <2>1, SubSeqProperties
  <2>3. \A i \in 1 .. b - a : (a + 1) + i - 1 = a + i /\ a + i \in 1 .. ms[M].len BY <1>2 DEF M
  <2> QED BY <1>3, <2>1, <2>2, <2>3
<1>7. 1 \in 1 .. b - a /\ b - a \in 1 .. b - a /\ a + (b - a) = b OBVIOUS
<1>8. t # <<>> BY <1>6, <1>7, EmptySeq
<1>9. InOrder(t, ms)
  <2>1. ASSUME NEW j \in 1 .. Len(t) PROVE OfPeer(t[j], ms)
    <3>1. a + j \in 1 .. ms[M].len /\ M \in 1 .. Len(ms) BY <1>2, <1>5, <1>6 DEF M
    <3> QED BY <1>6, <3>1, ByteIs DEF OfPeer
  <2>2. ASSUME NEW j \in 1 .. Len(t) - 1 PROVE t[j + 1] = NextByte(t[j], ms)
    <3>1. /\ j \in 1 .. b - a /\ j + 1 \in 1 .. b - a
          /\ a + j < ms[M].len /\ a + (j + 1) = (a + j) + 1
          BY <1>2, <1>6 DEF M
    <3>2. t[j] = Byte(M, a + j) /\ t[j + 1] = Byte(M, (a + j) + 1) BY <1>6, <3>1
    <3>3. NextByte(Byte(M, a + j), ms) = Byte(M, (a + j) + 1) BY <3>1, ByteIs DEF NextByte
    <3> QED BY <3>2, <3>3
  <2> QED BY <2>1, <2>2 DEF InOrder
<1>10. t[1] = Byte(M, a + 1) /\ t[Len(t)] = Byte(M, b) BY <1>6, <1>7
<1> QED BY <1>6, <1>8, <1>9, <1>10 DEF t, M

-----------------------------------------------------------------------------
(* The buffer that grows *)

\* A step of growth makes the buffer larger, by no more than it holds or by
\* EXPAND_NETLINK_BUFSIZE.
LEMMA GrownIs ==
    ASSUME NEW n \in Nat \ {0}
    PROVE  Grown[n] \in Nat /\ n < Grown[n] /\ (Grown[n] <= 2 * n \/ Grown[n] <= n + Expand)
<1>1. Grown[n] = IF n < Expand THEN n * 2 ELSE n + Expand BY DEF Grown
<1>2. Expand \in Nat /\ Expand # 0 BY RPAssumption
<1> QED BY <1>1, <1>2

\* recv() ends its extensions, with more room than what is used.
LEMMA SizeForIs ==
    ASSUME size \in Nat \ {0}, NEW used \in Nat
    PROVE  SizeFor(used) \in Nat /\ used < SizeFor(used)
<1> DEFINE T == size + 2 * (used + Expand)
           D == 1 .. T
           Step(f, n) == IF n > used THEN n ELSE f[Grown[n]]
           Above(k) == {n \in D : k <= n}
           Solves(f, k) == f = [n \in Above(k) |-> Step(f, n)]
           S == {k \in Nat : \E f : Solves(f, k)}
           F == CHOOSE f : f = [n \in D |-> IF n > used THEN n ELSE f[Grown[n]]]
<1>1. T \in Nat /\ size \in D /\ 2 * used <= T /\ used + Expand <= T /\ Expand \in Nat
      BY RPAssumption
<1>2. ASSUME NEW n \in D, ~(n > used) PROVE Grown[n] \in D /\ n < Grown[n]
  <2>1. n \in Nat \ {0} /\ n <= used BY <1>1, <1>2
  <2>2. /\ Grown[n] \in Nat /\ n < Grown[n]
        /\ Grown[n] <= 2 * n \/ Grown[n] <= n + Expand
        BY <2>1, GrownIs
  <2>3. 2 * n <= T /\ n + Expand <= T BY <1>1, <2>1
  <2> HIDE DEF T
  <2> QED BY <1>1, <2>1, <2>2, <2>3
<1> HIDE DEF T
<1>3. T + 1 \in S
  <2>1. Above(T + 1) = {} BY <1>1
  <2>2. Solves([n \in {} |-> 0], T + 1) BY <2>1
  <2>3. T + 1 \in Nat BY <1>1
  <2> HIDE DEF Solves
  <2> QED BY <2>2, <2>3
<1>4. ASSUME NEW k \in Nat, NEW f, Solves(f, k + 1) PROVE k \in S
  <2> DEFINE g == [n \in Above(k) |-> Step(f, n)]
  <2>1. \A n \in Above(k + 1) : n \in Above(k) /\ f[n] = Step(f, n) BY <1>1, <1>4
  <2>2. ASSUME NEW n \in Above(k) PROVE g[n] = Step(g, n)
    <3>1. CASE n > used BY <3>1
    <3>2. CASE ~(n > used)
      <4> DEFINE c == Grown[n]
      <4>1. c \in Above(k + 1)
        <5>1. c \in D /\ n < c BY <1>2, <3>2
        <5>2. c \in Nat /\ n \in Nat /\ k <= n BY <1>1, <5>1
        <5> HIDE DEF c
        <5> QED BY <5>1, <5>2
      <4>2. f[c] = Step(f, c) /\ c \in Above(k) BY <2>1, <4>1
      <4>3. g[n] = f[c] /\ Step(g, n) = g[c] BY <3>2
      <4>4. g[c] = Step(f, c) BY <4>2
      <4> QED BY <4>2, <4>3, <4>4
    <3> QED BY <3>1, <3>2
  <2>3. g = [n \in Above(k) |-> g[n]] OBVIOUS
  <2> HIDE DEF g
  <2>4. Solves(g, k) BY <2>2, <2>3
  <2> QED BY <2>4
<1>5. PICK k \in S : \A i \in S : k <= i
  <2>1. S \in SUBSET Nat /\ S # {} BY <1>3
  <2> HIDE DEF S
  <2> QED BY <2>1, LeastOf
<1>6. k = 0
  <2> SUFFICES ASSUME k # 0 PROVE FALSE OBVIOUS
  <2>1. k - 1 \in Nat /\ (k - 1) + 1 = k /\ ~(k <= k - 1) OBVIOUS
  <2>2. PICK f : Solves(f, k) BY <1>5
  <2> HIDE DEF Solves, S
  <2>3. k - 1 \in S BY <1>4, <2>1, <2>2
  <2> QED BY <1>5, <2>1, <2>3
<1>7. PICK f : Solves(f, 0) BY <1>5, <1>6
<1>8. Above(0) = D BY <1>1
<1>9. f = [n \in D |-> IF n > used THEN n ELSE f[Grown[n]]] BY <1>7, <1>8
<1> HIDE DEF Above, Solves, S
<1>10. F = [n \in D |-> IF n > used THEN n ELSE F[Grown[n]]] BY <1>9
<1>11. SizeFor(used) = F[size] BY DEF SizeFor, T
<1> HIDE DEF F
<1>12. ASSUME NEW n \in D PROVE F[n] \in Nat /\ used < F[n]
  <2> DEFINE Right(x) == F[x] \in Nat /\ used < F[x]
             Wrong == {x \in D : ~Right(x)}
  <2> SUFFICES ASSUME Wrong # {} PROVE FALSE BY <1>12
  <2>1. Wrong \in SUBSET Nat /\ \A x \in Wrong : x <= T BY <1>1
  <2>2. PICK b \in Wrong : \A x \in Wrong : x <= b
    <3> HIDE DEF Wrong
    <3> QED BY <1>1, <2>1, GreatestOf
  <2>3. b \in D /\ ~Right(b) /\ b \in Nat BY <2>1, <2>2
  <2>4. CASE b > used
    <3>1. F[b] = b BY <1>10, <2>3, <2>4
    <3> QED BY <2>3, <2>4, <3>1
  <2>5. CASE ~(b > used)
    <3>1. Grown[b] \in D /\ b < Grown[b] BY <1>2, <2>3, <2>5
    <3>2. F[b] = F[Grown[b]] BY <1>10, <2>3, <2>5
    <3>3. Grown[b] \in Nat BY <1>1, <3>1
    <3>4. ~(Grown[b] <= b) BY <2>3, <3>1, <3>3
    <3>5. Right(Grown[b])
      <4> HIDE DEF Right
      <4> QED BY <2>2, <3>1, <3>4
    <3> QED BY <2>3, <3>2, <3>5
  <2> QED BY <2>4, <2>5
<1> QED BY <1>1, <1>11, <1>12

-----------------------------------------------------------------------------
(* What the application has been told *)

\* What was told of messages stays; more may have been refused.
SameData ==
    /\ DataAt' = DataAt /\ \A i \in DataAt : told'[i] = told[i]
    /\ refused \subseteq refused'

\* A step that tells nothing, or one notice.
LEMMA NoticeIsNoData ==
    ASSUME TypeOK, refused \subseteq refused',
           told' = told \/ \E kind \in {"new", "closed"} : told' = Append(told, Notice(kind))
    PROVE  SameData
<1>1. CASE told' = told BY <1>1 DEF SameData, DataAt
<1>2. ASSUME NEW kind \in {"new", "closed"}, told' = Append(told, Notice(kind)) PROVE SameData
  <2>1. told \in Seq(Items) /\ Notice(kind) \in Items
    <3>1. <<>> \in Seq(Bytes) BY EmptySeq
    <3> QED BY <3>1 DEF TypeOK, Notice, Items
  <2>2. /\ Len(told) \in Nat /\ Len(told') = Len(told) + 1
        /\ \A i \in 1 .. Len(told) : told'[i] = told[i]
        /\ told'[Len(told) + 1] = Notice(kind)
        BY <1>2, <2>1, AppendProperties, LenProperties
  <2>3. Notice(kind).kind # "data" BY <1>2 DEF Notice
  <2>4. 1 .. Len(told') = (1 .. Len(told)) \cup {Len(told) + 1} BY <2>2
  <2>5. DataAt' = DataAt BY <2>2, <2>3, <2>4 DEF DataAt
  <2>6. \A i \in DataAt : told'[i] = told[i] BY <2>2 DEF DataAt
  <2> QED BY <2>5, <2>6 DEF SameData
<1> QED BY <1>1, <1>2

\* Then what was told remains right, and what is behind remains behind.
LEMMA ToldStill ==
    ASSUME TypeOK, SameData, ToldWhole, ToldInOrder, Len(peer) \in Nat, Len(peer') \in Nat,
           Longer(peer, peer')
    PROVE  ToldWhole' /\ ToldInOrder' /\ \A m \in Nat : Behind(m) => Behind(m)'
<1>1. DataAt' = DataAt /\ \A i \in DataAt : told'[i] = told[i] BY DEF SameData
<1>2. \A i \in DataAt : IdAt(i)' = IdAt(i) BY <1>1 DEF IdAt
<1>3. ToldWhole'
  <2>1. ASSUME NEW i \in DataAt
        PROVE  IdAt(i) \in 1 .. Len(peer') /\ told'[i].data = Message(IdAt(i), peer'[IdAt(i)].len)
    <3>1. IdAt(i) \in 1 .. Len(peer) /\ told[i].data = Message(IdAt(i), peer[IdAt(i)].len)
          BY DEF ToldWhole
    <3>2. peer'[IdAt(i)] = peer[IdAt(i)] /\ IdAt(i) \in 1 .. Len(peer') BY <3>1 DEF Longer
    <3> QED BY <1>1, <3>1, <3>2
  <2> QED BY <1>1, <1>2, <2>1 DEF ToldWhole
<1>4. ToldInOrder' BY <1>1, <1>2 DEF ToldInOrder
<1>5. ASSUME NEW m \in Nat, Behind(m) PROVE Behind(m)'
  <2>1. \A i \in DataAt' : IdAt(i)' < m BY <1>1, <1>2, <1>5 DEF Behind
  <2>2. ASSUME NEW k \in 1 .. m - 1 PROVE Handled(k)'
    <3>1. Handled(k) BY <1>5 DEF Behind
    <3>2. CASE k \in refused BY <3>2 DEF Handled, SameData
    <3>3. CASE \E i \in DataAt : IdAt(i) = k BY <1>1, <1>2, <3>3 DEF Handled
    <3> QED BY <3>1, <3>2, <3>3 DEF Handled
  <2> QED BY <2>1, <2>2 DEF Behind
<1> QED BY <1>3, <1>4, <1>5

-----------------------------------------------------------------------------
(* What is under way *)

\* The types, where the lengths of sequences matter.
LEMMA Lengths ==
    ASSUME RcvInv
    PROVE  /\ recvbuf \in Seq(Bytes) /\ kernel \in Seq(Bytes) /\ Len(recvbuf) \in Nat
           /\ Stream \in Seq(Bytes) /\ Len(Stream) = Len(recvbuf) + Len(kernel) /\ Len(kernel) \in Nat
           /\ \A i \in 1 .. Len(recvbuf) : Stream[i] = recvbuf[i]
           /\ peer \in Seq(Messages) /\ Len(peer) \in Nat /\ Len(peer) <= MaxMsgs
           /\ (peer = <<>> <=> Len(peer) = 0) /\ (recvbuf = <<>> <=> Len(recvbuf) = 0)
           /\ (Stream = <<>> <=> Len(Stream) = 0)
           /\ \A m \in 1 .. Len(peer) : peer[m] \in Messages /\ peer[m].len \in Nat
           /\ told \in Seq(Items) /\ Len(told) \in Nat
           /\ MaxMsgs \in Nat
<1>1. /\ recvbuf \in Seq(Bytes) /\ kernel \in Seq(Bytes) /\ peer \in Seq(Messages)
      /\ told \in Seq(Items)
      BY DEF RcvInv, TypeOK
<1>2. /\ Stream \in Seq(Bytes) /\ Len(Stream) = Len(recvbuf) + Len(kernel)
      /\ \A i \in 1 .. Len(recvbuf) + Len(kernel) :
            Stream[i] = IF i <= Len(recvbuf) THEN recvbuf[i] ELSE kernel[i - Len(recvbuf)]
      BY <1>1, ConcatProperties DEF Stream
<1>3. Len(recvbuf) \in Nat /\ Len(kernel) \in Nat /\ Len(peer) \in Nat /\ Len(told) \in Nat
      BY <1>1, LenProperties
<1>4. \A i \in 1 .. Len(recvbuf) : Stream[i] = recvbuf[i] BY <1>2, <1>3
<1>5. \A m \in 1 .. Len(peer) : peer[m] \in Messages /\ peer[m].len \in Nat
  <2>1. \A m \in 1 .. Len(peer) : peer[m] \in Messages BY <1>1, ElementOfSeq
  <2>2. Lens \subseteq Nat BY RPAssumption
  <2> QED BY <2>1, <2>2 DEF Messages
<1>6. /\ (peer = <<>> <=> Len(peer) = 0) /\ (recvbuf = <<>> <=> Len(recvbuf) = 0)
      /\ (Stream = <<>> <=> Len(Stream) = 0)
      BY <1>1, <1>2, EmptySeq
<1>7. Len(peer) <= MaxMsgs BY DEF RcvInv, Stages
<1> QED BY <1>1, <1>2, <1>3, <1>4, <1>5, <1>6, <1>7, RPAssumption

\* What is under way stays in order where no byte comes or goes.
LEMMA StreamStill ==
    ASSUME RcvInv, SameData, peer' = peer, sent' = sent, ended' = ended, Stream' = Stream
    PROVE  StreamInv' /\ ToldWhole' /\ ToldInOrder'
<1>1. StreamInv /\ TypeOK /\ ToldWhole /\ ToldInOrder BY DEF RcvInv
<1>2. Len(peer) \in Nat /\ Longer(peer, peer') BY Lengths DEF Longer
<1>3. ToldWhole' /\ ToldInOrder' /\ \A m \in Nat : Behind(m) => Behind(m)' BY <1>1, <1>2, ToldStill
<1>4. PICK m \in 1 .. Len(peer) + 1 :
         Begins(Stream, m) /\ Ends(Stream, m, peer, sent, ended) /\ Behind(m)
      BY <1>1 DEF StreamInv
<1>5. Behind(m)' BY <1>2, <1>3, <1>4
<1>6. /\ InOrder(Stream', peer') /\ Begins(Stream', m) /\ Ends(Stream', m, peer', sent', ended')
      /\ peer' # <<>> => sent' \in 1 .. peer'[Len(peer')].len
      BY <1>1, <1>4 DEF StreamInv
<1>7. m \in 1 .. Len(peer') + 1 BY <1>4
<1> QED BY <1>3, <1>5, <1>6, <1>7 DEF StreamInv

\* Bytes that join those in the kernel join those under way.
LEMMA StreamJoined ==
    ASSUME RcvInv, NEW t \in Seq(Bytes)
    PROVE  recvbuf \o (kernel \o t) = Stream \o t
<1>1. recvbuf \in Seq(Bytes) /\ kernel \in Seq(Bytes) BY Lengths
<1>2. (recvbuf \o kernel) \o t = recvbuf \o (kernel \o t) BY <1>1, JoinedAll
<1> QED BY <1>2 DEF Stream

\* Bytes arrive: of a new message from its first on, or of the last from where it
\* had come to.
Follows(a) ==
    \/ a = 0 /\ Len(peer') = Len(peer) + 1 /\ (peer # <<>> => sent = peer[Len(peer)].len)
    \/ a = sent /\ peer # <<>> /\ peer' = peer

LEMMA StreamGoesOn ==
    ASSUME RcvInv, ended = "no", NEW a \in Nat, Follows(a),
           peer' \in Seq(Messages), Len(peer') \in 1 .. MaxMsgs, Longer(peer, peer'),
           sent' \in Nat, a < sent', sent' <= peer'[Len(peer')].len,
           kernel' = kernel \o Piece(peer', a, sent'),
           ended' = ended, recvbuf' = recvbuf, told' = told, refused' = refused
    PROVE  StreamInv' /\ ToldWhole' /\ ToldInOrder' /\ kernel' \in Seq(Bytes)
<1> DEFINE ms == peer'
           s  == Stream
<1>1. StreamInv /\ TypeOK /\ ToldWhole /\ ToldInOrder BY DEF RcvInv
<1>2. /\ s \in Seq(Bytes) /\ Len(s) \in Nat /\ Len(peer) \in Nat /\ (s = <<>> <=> Len(s) = 0)
      /\ peer = <<>> <=> Len(peer) = 0
      BY Lengths
<1>3. SameData BY <1>1, NoticeIsNoData
<1>4. Len(ms) \in Nat BY LenProperties
<1>5. ToldWhole' /\ ToldInOrder' /\ \A m \in Nat : Behind(m) => Behind(m)'
      BY <1>1, <1>2, <1>3, <1>4, ToldStill
<1>6. PICK m \in 1 .. Len(peer) + 1 :
         Begins(s, m) /\ Ends(s, m, peer, sent, ended) /\ Behind(m)
      BY <1>1 DEF StreamInv
<1>7. PICK t \in Seq(Bytes) :
         /\ t = Piece(peer', a, sent') /\ t # <<>> /\ Len(t) \in Nat /\ Len(t) # 0
         /\ t[1] = Byte(Len(ms), a + 1) /\ t[Len(t)] = Byte(Len(ms), sent') /\ InOrder(t, ms)
  <2>1. PICK t : t = Piece(peer', a, sent') OBVIOUS
  <2>2. t \in Seq(Bytes) /\ Len(t) = sent' - a /\ t # <<>>
        /\ t[1] = Byte(Len(ms), a + 1) /\ t[Len(t)] = Byte(Len(ms), sent') /\ InOrder(t, ms)
        BY <2>1, PieceIs
  <2>3. Len(t) \in Nat /\ Len(t) # 0 BY <2>2, EmptySeq, LenProperties
  <2> QED BY <2>1, <2>2, <2>3
<1> DEFINE c == s \o t
<1>8. Stream' = c
  <2>1. Stream' = recvbuf \o (kernel \o t) BY <1>7 DEF Stream
  <2> QED BY <1>7, <2>1, StreamJoined
<1>9. InOrder(s, ms) BY <1>1, <1>2, <1>4, InOrderStill DEF StreamInv
<1>10. kernel' \in Seq(Bytes) BY <1>7, Lengths, ConcatProperties
<1>11. s = <<>> => m = Len(ms) /\ a = 0
  <2> SUFFICES ASSUME s = <<>> PROVE m = Len(ms) /\ a = 0 OBVIOUS
  <2>1. m = Len(peer) + 1 /\ (peer # <<>> => sent = peer[Len(peer)].len) BY <1>6 DEF Ends
  <2>2. CASE a = sent /\ peer # <<>> /\ peer' = peer BY <2>1, <2>2
  <2>3. CASE a = 0 /\ Len(peer') = Len(peer) + 1 BY <2>1, <2>3
  <2> QED BY <2>2, <2>3 DEF Follows
<1>12. s # <<>> => t[1] = NextByte(s[Len(s)], ms)
  <2> SUFFICES ASSUME s # <<>> PROVE t[1] = NextByte(s[Len(s)], ms) OBVIOUS
  <2>1. s[Len(s)] = Byte(Len(peer), sent) BY <1>6 DEF Ends
  <2>2. Len(s) \in 1 .. Len(s) BY <1>2
  <2>3. OfPeer(s[Len(s)], peer) BY <1>1, <2>2 DEF StreamInv, InOrder
  <2>4. Len(peer) \in 1 .. Len(peer) /\ peer # <<>> BY <1>2, <2>1, <2>3, ByteIs DEF OfPeer
  <2>5. ms[Len(peer)] = peer[Len(peer)] BY <2>4 DEF Longer
  <2>6. sent \in 1 .. peer[Len(peer)].len BY <1>1, <2>4 DEF StreamInv
  <2>7. peer[Len(peer)].len \in Nat BY <2>4, Lengths
  <2>8. CASE a = sent /\ peer' = peer
    <3>1. sent < ms[Len(peer)].len BY <2>5, <2>6, <2>7, <2>8
    <3> QED BY <1>7, <2>1, <2>8, <3>1, ByteIs DEF NextByte
  <2>9. CASE a = 0 /\ Len(peer') = Len(peer) + 1 /\ sent = peer[Len(peer)].len
    <3>1. ~(sent < ms[Len(peer)].len) BY <2>5, <2>6, <2>7, <2>9
    <3> QED BY <1>7, <2>1, <2>9, <3>1, ByteIs DEF NextByte
  <2> QED BY <2>4, <2>8, <2>9 DEF Follows
<1> HIDE DEF ms
<1>13. InOrder(c, ms) BY <1>2, <1>7, <1>9, <1>12, InOrderJoined
<1>14. /\ c \in Seq(Bytes) /\ Len(c) = Len(s) + Len(t) /\ c # <<>>
       /\ c[Len(c)] = t[Len(t)] /\ c[1] = IF s = <<>> THEN t[1] ELSE s[1]
  <2>1. /\ c \in Seq(Bytes) /\ Len(c) = Len(s) + Len(t)
        /\ \A i \in 1 .. Len(s) + Len(t) : c[i] = IF i <= Len(s) THEN s[i] ELSE t[i - Len(s)]
        BY <1>2, <1>7, ConcatProperties
  <2> HIDE DEF s, c
  <2>2. Len(c) # 0 /\ 1 \in 1 .. Len(s) + Len(t) /\ Len(c) \in 1 .. Len(s) + Len(t)
        BY <1>2, <1>7, <2>1
  <2>3. c # <<>> BY <2>1, <2>2, EmptySeq
  <2>4. c[Len(c)] = t[Len(t)]
    <3>1. ~(Len(c) <= Len(s)) /\ Len(c) - Len(s) = Len(t) BY <1>2, <1>7, <2>1
    <3> QED BY <2>1, <2>2, <3>1
  <2>5. c[1] = IF s = <<>> THEN t[1] ELSE s[1]
    <3>1. CASE s = <<>>
      <4>1. ~(1 <= Len(s)) /\ 1 - Len(s) = 1 BY <1>2, <3>1
      <4> QED BY <2>1, <2>2, <3>1, <4>1
    <3>2. CASE s # <<>>
      <4>1. 1 <= Len(s) BY <1>2, <3>2
      <4> QED BY <2>1, <2>2, <3>2, <4>1
    <3> QED BY <3>1, <3>2
  <2> QED BY <2>1, <2>3, <2>4, <2>5
<1>15. Begins(c, m)
  <2>1. c[1] = Byte(m, 1)
    <3>1. CASE s = <<>> BY <1>7, <1>11, <1>14, <3>1
    <3>2. CASE s # <<>> BY <1>6, <1>14, <3>2 DEF Begins
    <3> QED BY <3>1, <3>2
  <2> QED BY <2>1 DEF Begins
<1>16. Ends(c, m, ms, sent', ended') BY <1>7, <1>14 DEF Ends
<1>17. m \in 1 .. Len(ms) + 1 /\ m \in Nat
  <2>1. Len(peer) <= Len(ms) BY DEF Longer, ms
  <2> QED BY <1>2, <1>4, <1>6, <2>1 DEF ms
<1>18. Behind(m)' BY <1>5, <1>6, <1>17
<1>19. sent' \in 1 .. ms[Len(ms)].len
  <2>1. ms[Len(ms)] \in Messages BY ElementOfSeq DEF ms
  <2>2. ms[Len(ms)].len \in Nat BY <2>1, RPAssumption DEF Messages
  <2> QED BY <2>2 DEF ms
<1> HIDE DEF s, c
<1>20. StreamInv' BY <1>8, <1>13, <1>15, <1>16, <1>17, <1>18, <1>19 DEF StreamInv, ms
<1> QED BY <1>5, <1>10, <1>20

\* A message is cut off: it is the first of those under way, whole, and told or
\* refused.
Told(n) == \/ told' = Append(told, Data(SubSeq(recvbuf, 1, n))) /\ refused' = refused
           \/ refused' = refused \cup {recvbuf[1].msg} /\ told' = told

LEMMA StreamCut ==
    ASSUME RcvInv, NEW n, n = MsgpackSize(recvbuf), n > 0, n <= Len(recvbuf), n \in Int, Told(n),
           recvbuf' = From(recvbuf, n), kernel' = kernel,
           peer' = peer, sent' = sent, ended' = ended
    PROVE  /\ StreamInv' /\ ToldWhole' /\ ToldInOrder'
           /\ recvbuf' \in Seq(Bytes) /\ Len(recvbuf') \in Nat /\ Len(recvbuf') < Len(recvbuf)
           /\ told' \in Seq(Items) /\ refused' \subseteq 0 .. MaxMsgs
           /\ \A i \in 1 .. Len(told') :
                told'[i].kind \in {"new", "closed"} => i \in 1 .. Len(told) /\ told'[i] = told[i]
<1> DEFINE b == recvbuf[1].msg
           d == SubSeq(recvbuf, 1, n)
           r == From(Stream, n)
<1>1. StreamInv /\ TypeOK /\ ToldWhole /\ ToldInOrder BY DEF RcvInv
<1>2. /\ recvbuf \in Seq(Bytes) /\ Len(recvbuf) \in Nat /\ kernel \in Seq(Bytes) /\ Len(kernel) \in Nat
      /\ Stream \in Seq(Bytes) /\ Len(Stream) = Len(recvbuf) + Len(kernel)
      /\ \A i \in 1 .. Len(recvbuf) : Stream[i] = recvbuf[i]
      /\ Len(peer) \in Nat /\ Len(peer) <= MaxMsgs /\ MaxMsgs \in Nat
      /\ (peer = <<>> <=> Len(peer) = 0) /\ (recvbuf = <<>> <=> Len(recvbuf) = 0)
      /\ (Stream = <<>> <=> Len(Stream) = 0)
      /\ told \in Seq(Items) /\ Len(told) \in Nat
      BY Lengths
<1>3. recvbuf # <<>> /\ Stream # <<>> /\ n \in 1 .. Len(recvbuf) /\ 1 \in 1 .. Len(recvbuf)
      /\ n \in 0 .. Len(recvbuf) /\ n \in 0 .. Len(Stream) /\ n \in 1 .. Len(Stream)
      BY <1>2
<1>4. n = peer[b].len BY <1>3 DEF MsgpackSize, Bad
<1>5. PICK m \in 1 .. Len(peer) + 1 :
         Begins(Stream, m) /\ Ends(Stream, m, peer, sent, ended) /\ Behind(m)
      BY <1>1 DEF StreamInv
<1>6. Stream[1] = Byte(m, 1) /\ b = m
  <2>1. Stream[1] = Byte(m, 1) BY <1>3, <1>5 DEF Begins
  <2>2. recvbuf[1] = Stream[1] BY <1>2, <1>3
  <2> QED BY <2>1, <2>2, ByteIs
<1> HIDE DEF b
<1>7. InOrder(Stream, peer) BY <1>1 DEF StreamInv
<1>8. m \in 1 .. Len(peer) /\ m \in Nat /\ m \in 1 .. MaxMsgs
  <2>1. 1 \in 1 .. Len(Stream) BY <1>2, <1>3
  <2>2. OfPeer(Stream[1], peer) BY <1>7, <2>1 DEF InOrder
  <2>3. m \in 1 .. Len(peer) BY <1>6, <2>2, ByteIs DEF OfPeer
  <2> QED BY <1>2, <2>3
<1>9. peer[m].len = n /\ n \in Nat BY <1>3, <1>4, <1>6
<1>10. \A i \in 1 .. n : Stream[i] = Byte(m, i)
  <2>1. n <= peer[m].len /\ peer[m].len \in Nat BY <1>9
  <2> QED BY <1>2, <1>3, <1>6, <1>7, <1>8, <2>1, FromFirst
<1>11. d = Message(m, n) /\ d \in Seq(Bytes)
  <2>1. d \in Seq(Bytes) /\ Len(d) = n /\ \A i \in 1 .. n : d[i] = recvbuf[i] BY <1>2, <1>3, CutInTwo
  <2>2. /\ Message(m, n) \in Seq(Bytes) /\ Len(Message(m, n)) = n
        /\ \A i \in 1 .. n : Message(m, n)[i] = Byte(m, i)
        BY <1>8, <1>9, MessageIs
  <2> HIDE DEF d
  <2>3. \A i \in 1 .. n : i \in 1 .. Len(recvbuf) BY <1>2, <1>3
  <2>4. \A i \in 1 .. Len(d) : d[i] = Message(m, n)[i] BY <1>2, <1>10, <2>1, <2>2, <2>3
  <2> QED BY <2>1, <2>2, <2>4, SeqEqual
<1>12. /\ r \in Seq(Bytes) /\ Len(r) = Len(Stream) - n
       /\ \A i \in 1 .. Len(Stream) - n : r[i] = Stream[n + i]
       BY <1>2, <1>3, CutInTwo
<1>13. Stream' = r BY <1>2, <1>3, CutOffFirst DEF Stream
<1>14. InOrder(r, peer) BY <1>2, <1>3, <1>7, InOrderCut
<1>15. recvbuf' \in Seq(Bytes) /\ Len(recvbuf') \in Nat /\ Len(recvbuf') < Len(recvbuf)
  <2>1. recvbuf' \in Seq(Bytes) /\ Len(recvbuf') = Len(recvbuf) - n BY <1>2, <1>3, CutInTwo
  <2> QED BY <1>2, <1>3, <2>1
<1> HIDE DEF r, d
<1>16. Begins(r, m + 1)
  <2> SUFFICES ASSUME r # <<>> PROVE r[1] = Byte(m + 1, 1) BY DEF Begins
  <2>1. 1 \in 1 .. Len(Stream) - n /\ n \in 1 .. Len(Stream) - 1
    <3>1. Len(r) # 0 BY <1>12, EmptySeq
    <3> QED BY <1>2, <1>3, <1>12, <3>1
  <2>2. r[1] = Stream[n + 1] BY <1>12, <2>1
  <2>3. Stream[n + 1] = NextByte(Stream[n], peer) BY <1>7, <2>1 DEF InOrder
  <2>4. Stream[n] = Byte(m, n) BY <1>3, <1>9, <1>10
  <2>5. ~(n < peer[m].len) BY <1>9
  <2> QED BY <2>2, <2>3, <2>4, <2>5, ByteIs DEF NextByte
<1>17. Ends(r, m + 1, peer, sent, ended)
  <2> SUFFICES ASSUME ended # "rst"
               PROVE  IF r # <<>> THEN r[Len(r)] = Byte(Len(peer), sent)
                      ELSE m + 1 = Len(peer) + 1 /\ (peer # <<>> => sent = peer[Len(peer)].len)
      BY DEF Ends
  <2>1. Stream[Len(Stream)] = Byte(Len(peer), sent) BY <1>3, <1>5 DEF Ends
  <2>2. CASE r # <<>>
    <3>1. Len(r) # 0 BY <1>12, <2>2, EmptySeq
    <3>2. Len(r) \in 1 .. Len(Stream) - n /\ n + Len(r) = Len(Stream) BY <1>2, <1>3, <1>12, <3>1
    <3>3. r[Len(r)] = Stream[Len(Stream)] BY <1>12, <3>2
    <3> QED BY <2>1, <2>2, <3>3
  <2>3. CASE r = <<>>
    <3>1. Len(r) = 0 BY <2>3, EmptySeq
    <3>2. n = Len(Stream)
      <4>1. Len(Stream) \in Nat /\ Len(Stream) - n = 0 BY <1>2, <1>12, <3>1
      <4> QED BY <4>1
    <3>3. Byte(m, n) = Byte(Len(peer), sent) BY <1>3, <1>9, <1>10, <2>1, <3>2
    <3>4. m = Len(peer) /\ n = sent BY <3>3, ByteIs
    <3> QED BY <1>9, <2>3, <3>4
  <2> QED BY <2>2, <2>3
<1>18. ASSUME Behind(m + 1)' PROVE StreamInv'
  <2>1. /\ InOrder(Stream', peer') /\ Begins(Stream', m + 1)
        /\ Ends(Stream', m + 1, peer', sent', ended')
        /\ peer' # <<>> => sent' \in 1 .. peer'[Len(peer')].len
        BY <1>1, <1>13, <1>14, <1>16, <1>17 DEF StreamInv
  <2>2. PICK k \in 1 .. Len(peer') + 1 : k = m + 1 BY <1>2, <1>8
  <2>3. Behind(k)' BY <1>18, <2>2
  <2> QED BY <2>1, <2>2, <2>3 DEF StreamInv
<1>19. CASE told' = Append(told, Data(d)) /\ refused' = refused
  <2> DEFINE l == Len(told) + 1
  <2>1. Data(d) \in Items /\ Data(d).kind = "data" /\ Data(d).data = d BY <1>11 DEF Data, Items
  <2>2. /\ told' \in Seq(Items) /\ Len(told') = l
        /\ \A i \in 1 .. Len(told) : told'[i] = told[i]
        /\ told'[l] = Data(d)
        BY <1>2, <1>19, <2>1, AppendProperties
  <2>3. 1 .. Len(told') = (1 .. Len(told)) \cup {l} BY <1>2, <2>2
  <2>4. DataAt \subseteq 1 .. Len(told) BY DEF DataAt
  <2>5. DataAt' = DataAt \cup {l} BY <2>1, <2>2, <2>3 DEF DataAt
  <2>6. \A i \in DataAt : told'[i] = told[i] /\ i < l /\ i # l /\ i \in Nat BY <1>2, <2>2, <2>4
  <2>7. \A i \in DataAt : IdAt(i)' = IdAt(i) BY <2>6 DEF IdAt
  <2>8. told'[l].data[1].msg = m
    <3>1. 1 \in 1 .. n BY <1>3
    <3>2. Message(m, n)[1] = Byte(m, 1) BY <1>8, <1>9, <3>1, MessageIs
    <3> QED BY <1>11, <2>1, <2>2, <3>2, ByteIs
  <2>9. PICK x : x = l OBVIOUS
  <2> HIDE DEF l
  <2>10. IdAt(x)' = m /\ told'[x].data = Message(m, n) /\ DataAt' = DataAt \cup {x}
    <3>1. told'[x].data[1].msg = m BY <2>8, <2>9
    <3> QED BY <1>11, <2>1, <2>2, <2>5, <2>9, <3>1 DEF IdAt
  <2>11. \A i \in DataAt : told'[i] = told[i] /\ IdAt(i)' = IdAt(i) /\ IdAt(i) < m /\ i < x /\ i # x /\ i \in Nat
    <3>1. \A i \in DataAt : IdAt(i) < m BY <1>5 DEF Behind
    <3> QED BY <2>6, <2>7, <2>9, <3>1
  <2>12. x \in Nat BY <1>2, <2>9 DEF l
  <2>13. ToldWhole'
    <3>1. ASSUME NEW i \in DataAt'
          PROVE  IdAt(i)' \in 1 .. Len(peer) /\ told'[i].data = Message(IdAt(i)', peer[IdAt(i)'].len)
      <4>1. CASE i = x BY <1>8, <1>9, <2>10, <4>1
      <4>2. CASE i \in DataAt
        <5>1. IdAt(i) \in 1 .. Len(peer) /\ told[i].data = Message(IdAt(i), peer[IdAt(i)].len)
              BY <1>1, <4>2 DEF ToldWhole
        <5> QED BY <2>11, <4>2, <5>1
      <4> QED BY <2>10, <4>1, <4>2
    <3> QED BY <3>1 DEF ToldWhole
  <2>14. ToldInOrder'
    <3>1. ASSUME NEW i \in DataAt', NEW j \in DataAt', i < j PROVE IdAt(i)' < IdAt(j)'
      <4>1. i \in DataAt
        <5>1. CASE i = x
          <6>1. j \in Nat /\ (j = x \/ j < x) BY <2>10, <2>11, <2>12
          <6> QED BY <2>12, <3>1, <5>1, <6>1
        <5> QED BY <2>10, <5>1
      <4>2. CASE j = x BY <2>10, <2>11, <4>1, <4>2
      <4>3. CASE j \in DataAt BY <1>1, <2>11, <3>1, <4>1, <4>3 DEF ToldInOrder
      <4> QED BY <2>10, <4>2, <4>3
    <3> QED BY <3>1 DEF ToldInOrder
  <2>15. Behind(m + 1)'
    <3>1. \A i \in DataAt' : IdAt(i)' < m + 1
      <4>1. ASSUME NEW i \in DataAt PROVE IdAt(i)' < m + 1
        <5>1. IdAt(i) \in 1 .. Len(peer) BY <1>1 DEF ToldWhole
        <5> QED BY <1>8, <2>11, <5>1
      <4> QED BY <1>8, <2>10, <4>1
    <3>2. ASSUME NEW k \in 1 .. m PROVE Handled(k)'
      <4>1. CASE k = m BY <2>10, <4>1 DEF Handled
      <4>2. CASE k # m
        <5>1. k \in 1 .. m - 1 BY <1>8, <4>2
        <5>2. Handled(k) BY <1>5, <5>1 DEF Behind
        <5> QED BY <1>19, <2>10, <2>11, <5>2 DEF Handled
      <4> QED BY <4>1, <4>2
    <3>3. (m + 1) - 1 = m BY <1>8
    <3> QED BY <3>1, <3>2, <3>3 DEF Behind
  <2>16. StreamInv' BY <1>18, <2>15
  <2>17. refused' \subseteq 0 .. MaxMsgs BY <1>1, <1>19 DEF TypeOK
  <2>18. \A i \in 1 .. Len(told') :
            told'[i].kind \in {"new", "closed"} => i \in 1 .. Len(told) /\ told'[i] = told[i]
         BY <2>1, <2>2, <2>3, <2>9
  <2> QED BY <1>15, <2>2, <2>13, <2>14, <2>16, <2>17, <2>18
<1>20. CASE refused' = refused \cup {recvbuf[1].msg} /\ told' = told
  <2>1. SameData BY <1>1, <1>20, NoticeIsNoData
  <2>2. Longer(peer, peer') /\ Len(peer') \in Nat BY <1>2 DEF Longer
  <2>3. ToldWhole' /\ ToldInOrder' /\ Behind(m)'
    <3>1. Behind(m) BY <1>5
    <3> QED BY <1>1, <1>2, <1>8, <2>1, <2>2, <3>1, ToldStill
  <2>4. m \in refused' /\ refused' \subseteq 0 .. MaxMsgs
    <3>1. recvbuf[1].msg = m BY <1>6 DEF b
    <3>2. m \in 0 .. MaxMsgs BY <1>2, <1>8
    <3> QED BY <1>1, <1>20, <3>1, <3>2 DEF TypeOK
  <2>5. Behind(m + 1)'
    <3>1. \A i \in DataAt' : IdAt(i)' < m + 1
      <4>1. ASSUME NEW i \in DataAt' PROVE IdAt(i)' < m + 1
        <5>1. IdAt(i)' < m BY <2>3 DEF Behind
        <5>2. IdAt(i)' \in 1 .. Len(peer') BY <2>3 DEF ToldWhole
        <5>3. PICK x : x = IdAt(i)' OBVIOUS
        <5>4. x \in Nat /\ x < m BY <2>2, <5>1, <5>2, <5>3
        <5> QED BY <1>8, <5>3, <5>4
      <4> QED BY <4>1
    <3>2. ASSUME NEW k \in 1 .. m PROVE Handled(k)'
      <4>1. CASE k = m BY <2>4, <4>1 DEF Handled
      <4>2. CASE k # m
        <5>1. k \in 1 .. m - 1 BY <1>8, <4>2
        <5> QED BY <2>3, <5>1 DEF Behind
      <4> QED BY <4>1, <4>2
    <3>3. (m + 1) - 1 = m BY <1>8
    <3> QED BY <3>1, <3>2, <3>3 DEF Behind
  <2>6. StreamInv' BY <1>18, <2>5
  <2>7. told' \in Seq(Items) /\ \A i \in 1 .. Len(told') : i \in 1 .. Len(told) /\ told'[i] = told[i]
        BY <1>2, <1>20
  <2> QED BY <1>15, <2>3, <2>4, <2>6, <2>7
<1> QED BY <1>19, <1>20 DEF Told, d

-----------------------------------------------------------------------------
(* The steps of the peer *)

\* get_msgpack_size_() of the buffer is a number, and does not change while the
\* buffer does not.
LEMMA SizeIs ==
    ASSUME RcvInv
    PROVE  /\ MsgpackSize(recvbuf) \in Int
           /\ recvbuf' = recvbuf /\ Longer(peer, peer') => MsgpackSize(recvbuf)' = MsgpackSize(recvbuf)
<1>1. CASE recvbuf = <<>> BY <1>1 DEF MsgpackSize
<1>2. CASE recvbuf # <<>>
  <2> DEFINE b == recvbuf[1].msg
  <2>1. /\ Len(recvbuf) \in Nat /\ Len(kernel) \in Nat /\ Len(Stream) = Len(recvbuf) + Len(kernel)
        /\ recvbuf = <<>> <=> Len(recvbuf) = 0
        /\ \A i \in 1 .. Len(recvbuf) : Stream[i] = recvbuf[i]
        /\ \A m \in 1 .. Len(peer) : peer[m].len \in Nat
        BY Lengths
  <2>2. 1 \in 1 .. Len(recvbuf) /\ 1 \in 1 .. Len(Stream) BY <1>2, <2>1
  <2>3. OfPeer(Stream[1], peer) BY <2>2 DEF RcvInv, StreamInv, InOrder
  <2>4. b \in 1 .. Len(peer)
    <3>1. Stream[1] = recvbuf[1] BY <2>1, <2>2
    <3> QED BY <2>3, <3>1 DEF OfPeer
  <2>5. MsgpackSize(recvbuf) = IF peer[b].bad THEN Bad ELSE peer[b].len BY <1>2 DEF MsgpackSize
  <2>6. MsgpackSize(recvbuf) \in Int BY <2>1, <2>4, <2>5 DEF Bad
  <2>7. ASSUME recvbuf' = recvbuf, Longer(peer, peer')
        PROVE  MsgpackSize(recvbuf)' = MsgpackSize(recvbuf)
    <3>1. peer'[b] = peer[b] BY <2>4, <2>7 DEF Longer
    <3>2. MsgpackSize(recvbuf)' = IF peer'[b].bad THEN Bad ELSE peer'[b].len
          BY <1>2, <2>7 DEF MsgpackSize, Bad
    <3> QED BY <2>5, <3>1, <3>2
  <2> QED BY <2>6, <2>7
<1> QED BY <1>1, <1>2

\* A step of the peer leaves the stages and what has been told alone.
LEMMA PeerSide ==
    ASSUME RcvInv, StreamInv', ToldWhole', ToldInOrder',
           peer' \in Seq(Messages), Len(peer') <= MaxMsgs, Longer(peer, peer'),
           sent' \in Nat, kernel' \in Seq(Bytes), ended' \in {"no", "fin", "rst"},
           UNCHANGED <<mask, status, recvbuf, size, pc, closedByPeer, told, refused>>
    PROVE  RcvInv'
<1>1. TypeOK' BY DEF RcvInv, TypeOK
<1>2. Stages' BY DEF RcvInv, Stages
<1>3. MsgpackSize(recvbuf)' = MsgpackSize(recvbuf) BY SizeIs
<1>4. EndsLast'
  <2>1. EndsLast BY DEF RcvInv, EndIsTold
  <2> QED BY <1>3, <2>1 DEF EndsLast
<1>5. CloseIsTold'
  <2>1. CloseIsTold BY DEF RcvInv, EndIsTold
  <2>2. Last(told)' = Last(told) OBVIOUS
  <2> QED BY <1>3, <2>1, <2>2 DEF CloseIsTold, Bad
<1> QED BY <1>1, <1>2, <1>4, <1>5 DEF RcvInv, EndIsTold

LEMMA PeerSendsInv ==
    ASSUME RcvInv, NEW len \in Lens, NEW bad \in BOOLEAN, NEW n \in 1 .. len, PeerSends(len, bad, n)
    PROVE  RcvInv'
<1> DEFINE msg == [len |-> len, bad |-> bad]
<1>1. len \in Nat /\ msg \in Messages /\ msg.len = len BY RPAssumption DEF Messages
<1>2. /\ peer \in Seq(Messages) /\ Len(peer) \in Nat /\ (peer = <<>> <=> Len(peer) = 0) /\ MaxMsgs \in Nat
      BY Lengths
<1>3. ended = "no" /\ Len(peer) < MaxMsgs /\ peer' = Append(peer, msg) /\ sent' = n BY DEF PeerSends
<1> HIDE DEF msg
<1>4. /\ peer' \in Seq(Messages) /\ Len(peer') = Len(peer) + 1 /\ peer'[Len(peer) + 1] = msg
      /\ \A i \in 1 .. Len(peer) : peer'[i] = peer[i]
      BY <1>1, <1>2, <1>3, AppendProperties
<1>5. Len(peer') \in 1 .. MaxMsgs /\ Len(peer') <= MaxMsgs /\ Longer(peer, peer')
      BY <1>2, <1>3, <1>4 DEF Longer
<1>6. peer'[Len(peer')] = msg /\ peer'[Len(peer')].len = len BY <1>1, <1>4
<1>7. Follows(0)
  <2>1. peer # <<>> => sent = peer[Len(peer)].len BY DEF PeerSends, Last
  <2> QED BY <1>4, <2>1 DEF Follows
<1>8. kernel' = kernel \o Piece(peer', 0, sent')
  <2>1. kernel' = kernel \o SubSeq(Message(Len(peer'), len), 1, n) BY DEF PeerSends
  <2>2. 0 + 1 = 1 OBVIOUS
  <2> QED BY <1>3, <1>6, <2>1, <2>2 DEF Piece
<1>9. sent' \in Nat /\ 0 < sent' /\ sent' <= peer'[Len(peer')].len BY <1>1, <1>3, <1>6
<1>10. UNCHANGED <<ended, mask, status, recvbuf, size, pc, closedByPeer, told, refused>> BY DEF PeerSends
<1>11. StreamInv' /\ ToldWhole' /\ ToldInOrder' /\ kernel' \in Seq(Bytes)
  <2>1. 0 \in Nat /\ ended' = ended /\ recvbuf' = recvbuf /\ told' = told /\ refused' = refused BY <1>10
  <2> QED BY <1>3, <1>4, <1>5, <1>7, <1>8, <1>9, <2>1, StreamGoesOn
<1> QED BY <1>3, <1>4, <1>5, <1>9, <1>10, <1>11, PeerSide

LEMMA PeerGoesOnInv ==
    ASSUME RcvInv, NEW n \in Nat \ {0}, PeerGoesOn(n)
    PROVE  RcvInv'
<1>1. /\ peer \in Seq(Messages) /\ Len(peer) \in Nat /\ (peer = <<>> <=> Len(peer) = 0) /\ MaxMsgs \in Nat
      /\ Len(peer) <= MaxMsgs
      BY Lengths
<1>2. /\ ended = "no" /\ peer # <<>> /\ sent + n <= peer[Len(peer)].len
      /\ sent' = sent + n /\ peer' = peer
      /\ kernel' = kernel \o SubSeq(Message(Len(peer), peer[Len(peer)].len), sent + 1, sent + n)
      BY DEF PeerGoesOn, Last
<1>3. sent \in Nat BY DEF RcvInv, TypeOK
<1>4. Len(peer') \in 1 .. MaxMsgs /\ Len(peer') <= MaxMsgs /\ Longer(peer, peer')
      BY <1>1, <1>2 DEF Longer
<1>5. Follows(sent) BY <1>2 DEF Follows
<1>6. kernel' = kernel \o Piece(peer', sent, sent') BY <1>2 DEF Piece
<1>7. sent' \in Nat /\ sent < sent' /\ sent' <= peer'[Len(peer')].len BY <1>2, <1>3
<1>8. UNCHANGED <<ended, mask, status, recvbuf, size, pc, closedByPeer, told, refused>> BY DEF PeerGoesOn
<1>9. StreamInv' /\ ToldWhole' /\ ToldInOrder' /\ kernel' \in Seq(Bytes)
  <2>1. ended' = ended /\ recvbuf' = recvbuf /\ told' = told /\ refused' = refused BY <1>8
  <2>2. PICK a \in Nat : a = sent BY <1>3
  <2>3. Follows(a) /\ a < sent' /\ kernel' = kernel \o Piece(peer', a, sent') BY <1>5, <1>6, <1>7, <2>2
  <2>4. peer' \in Seq(Messages) BY <1>1, <1>2
  <2> QED BY <1>2, <1>4, <1>7, <2>1, <2>3, <2>4, StreamGoesOn
<1> QED BY <1>1, <1>2, <1>4, <1>7, <1>8, <1>9, PeerSide

LEMMA PeerEndsInv ==
    ASSUME RcvInv, NEW how \in {"fin", "rst"}, PeerEnds(how)
    PROVE  RcvInv'
<1>1. /\ peer \in Seq(Messages) /\ Len(peer) \in Nat /\ Len(peer) <= MaxMsgs
      /\ recvbuf \in Seq(Bytes) /\ kernel \in Seq(Bytes)
      /\ Len(recvbuf) \in Nat /\ Len(kernel) \in Nat
      /\ Stream \in Seq(Bytes) /\ Len(Stream) = Len(recvbuf) + Len(kernel)
      /\ \A i \in 1 .. Len(recvbuf) : Stream[i] = recvbuf[i]
      /\ recvbuf = <<>> <=> Len(recvbuf) = 0
      /\ Stream = <<>> <=> Len(Stream) = 0
      BY Lengths
<1>2. /\ ended = "no" /\ ended' = how /\ kernel' = IF how = "rst" THEN <<>> ELSE kernel
      /\ UNCHANGED <<peer, sent, mask, status, recvbuf, size, pc, closedByPeer, told, refused>>
      BY DEF PeerEnds
<1>3. Longer(peer, peer') /\ Len(peer') \in Nat BY <1>1, <1>2 DEF Longer
<1>4. StreamInv /\ TypeOK /\ ToldWhole /\ ToldInOrder /\ sent \in Nat BY DEF RcvInv, TypeOK
<1>5. SameData BY <1>2, <1>4, NoticeIsNoData
<1>6. ToldWhole' /\ ToldInOrder' /\ \A m \in Nat : Behind(m) => Behind(m)'
      BY <1>1, <1>3, <1>4, <1>5, ToldStill
<1>7. kernel' \in Seq(Bytes) BY <1>1, <1>2, EmptySeq
<1>8. PICK m \in 1 .. Len(peer) + 1 :
         Begins(Stream, m) /\ Ends(Stream, m, peer, sent, ended) /\ Behind(m)
      BY <1>4 DEF StreamInv
<1>9. InOrder(Stream', peer') /\ Begins(Stream', m) /\ Ends(Stream', m, peer', sent', ended')
  <2>1. CASE how = "rst"
    <3>1. Stream' = recvbuf
      <4>1. recvbuf \o <<>> = recvbuf BY <1>1, ConcatEmptySeq
      <4> QED BY <1>2, <2>1, <4>1 DEF Stream
    <3>2. recvbuf = SubSeq(Stream, 1, Len(recvbuf))
      <4>1. Len(recvbuf) \in 0 .. Len(Stream) BY <1>1
      <4> DEFINE p == SubSeq(Stream, 1, Len(recvbuf))
      <4>2. p \in Seq(Bytes) /\ Len(p) = Len(recvbuf) /\ \A i \in 1 .. Len(recvbuf) : p[i] = Stream[i]
            BY <1>1, <4>1, CutInTwo
      <4> HIDE DEF p
      <4>3. \A i \in 1 .. Len(recvbuf) : recvbuf[i] = p[i] BY <1>1, <4>2
      <4>4. recvbuf = p BY <1>1, <4>2, <4>3, SeqEqual
      <4> QED BY <4>4 DEF p
    <3>3. InOrder(recvbuf, peer)
      <4>1. Len(recvbuf) \in 0 .. Len(Stream) /\ InOrder(Stream, peer) BY <1>1, <1>4 DEF StreamInv
      <4>2. InOrder(SubSeq(Stream, 1, Len(recvbuf)), peer) BY <1>1, <4>1, InOrderCut
      <4> QED BY <3>2, <4>2
    <3>4. Begins(recvbuf, m)
      <4> SUFFICES ASSUME recvbuf # <<>> PROVE recvbuf[1] = Byte(m, 1) BY DEF Begins
      <4>1. 1 \in 1 .. Len(recvbuf) /\ Stream # <<>> BY <1>1
      <4> QED BY <1>1, <1>8, <4>1 DEF Begins
    <3>5. Ends(recvbuf, m, peer', sent', ended') BY <1>2, <2>1 DEF Ends
    <3> QED BY <1>2, <3>1, <3>3, <3>4, <3>5
  <2>2. CASE how # "rst"
    <3>1. Stream' = Stream BY <1>2, <2>2 DEF Stream
    <3>2. Ends(Stream, m, peer', sent', ended') BY <1>2, <1>8, <2>2 DEF Ends
    <3> QED BY <1>2, <1>4, <1>8, <3>1, <3>2 DEF StreamInv
  <2> QED BY <2>1, <2>2
<1>10. StreamInv'
  <2>1. peer' # <<>> => sent' \in 1 .. peer'[Len(peer')].len BY <1>2, <1>4 DEF StreamInv
  <2>2. m \in 1 .. Len(peer') + 1 /\ Behind(m)' BY <1>1, <1>2, <1>6, <1>8
  <2> QED BY <1>9, <2>1, <2>2 DEF StreamInv
<1>11. sent' \in Nat /\ ended' \in {"no", "fin", "rst"} /\ peer' \in Seq(Messages) /\ Len(peer') <= MaxMsgs
       BY <1>1, <1>2, <1>4
<1> QED BY <1>2, <1>3, <1>6, <1>7, <1>10, <1>11, PeerSide

-----------------------------------------------------------------------------
(* The steps of the server *)

\* Before the end nothing was told of it, and a step that tells of no end keeps
\* what was told in order.
LEMMA NotYetEnded ==
    ASSUME RcvInv, pc # "over", Len(told') \in Nat,
           \A i \in 1 .. Len(told') :
              told'[i].kind \in {"new", "closed"} => i \in 1 .. Len(told) /\ told'[i] = told[i]
    PROVE  EndsLast' /\ \A i \in 1 .. Len(told') : told'[i].kind # "closed"
<1>1. /\ \A i \in 1 .. Len(told) : told[i].kind # "closed"
      /\ \A i \in 1 .. Len(told) : told[i].kind = "new" => i = 1
      BY DEF RcvInv, Stages, EndIsTold, EndsLast
<1>2. \A i \in 1 .. Len(told') : told'[i].kind # "closed" /\ (told'[i].kind = "new" => i = 1)
      BY <1>1
<1> QED BY <1>2 DEF EndsLast

\* The same where nothing is told.
LEMMA NothingTold ==
    ASSUME RcvInv, pc # "over", told' = told
    PROVE  EndsLast' /\ \A i \in 1 .. Len(told') : told'[i].kind # "closed"
<1>1. Len(told) \in Nat BY Lengths
<1> QED BY <1>1, NotYetEnded

\* A step that changes neither what is under way nor what has been told of it.
LEMMA Quiet ==
    ASSUME RcvInv, told' = told, refused' = refused,
           UNCHANGED <<peer, sent, kernel, ended, recvbuf>>
    PROVE  StreamInv' /\ ToldWhole' /\ ToldInOrder'
<1>1. TypeOK BY DEF RcvInv
<1>2. SameData BY <1>1, NoticeIsNoData
<1>3. Stream' = Stream BY DEF Stream
<1> QED BY <1>2, <1>3, StreamStill

LEMMA NewLinkInv == RcvInv /\ NewLink => RcvInv'
<1> SUFFICES ASSUME RcvInv, NewLink PROVE RcvInv' OBVIOUS
<1>1. /\ pc = "wait" /\ status = "new" /\ status' = "established"
      /\ UNCHANGED <<peer, sent, kernel, ended, mask, recvbuf, size, pc, closedByPeer>>
      BY DEF NewLink
<1>2. TypeOK /\ told = <<>> /\ Len(recvbuf) < size /\ ~closedByPeer BY <1>1 DEF RcvInv, Stages
<1>3. /\ told' = told \/ told' = Append(told, Notice("new"))
      /\ refused' = refused \/ refused' = refused \cup {0}
      BY DEF NewLink, Dispatches
<1>4. SameData
  <2>1. refused \subseteq refused' BY <1>3
  <2> QED BY <1>2, <1>3, <2>1, NoticeIsNoData
<1>5. StreamInv' /\ ToldWhole' /\ ToldInOrder'
  <2>1. Stream' = Stream BY <1>1 DEF Stream
  <2> QED BY <1>1, <1>4, <2>1, StreamStill
<1>6. /\ told' \in Seq(Items) /\ refused' \subseteq 0 .. MaxMsgs
      /\ \A i \in 1 .. Len(told') : i = 1 /\ told'[i].kind # "closed"
  <2>1. told \in Seq(Items) /\ Len(told) = 0 /\ MaxMsgs \in Nat BY <1>2, Lengths, EmptySeq
  <2>2. Notice("new") \in Items /\ Notice("new").kind = "new"
    <3>1. <<>> \in Seq(Bytes) BY EmptySeq
    <3> QED BY <3>1 DEF Notice, Items
  <2>3. refused' \subseteq 0 .. MaxMsgs
    <3>1. refused \subseteq 0 .. MaxMsgs /\ 0 \in 0 .. MaxMsgs BY <1>2, <2>1 DEF TypeOK
    <3> QED BY <1>3, <3>1
  <2>4. CASE told' = told BY <2>1, <2>3, <2>4
  <2>5. CASE told' = Append(told, Notice("new"))
    <3>1. told' \in Seq(Items) /\ Len(told') = 1 /\ told'[1] = Notice("new")
          BY <2>1, <2>2, <2>5, AppendProperties
    <3> QED BY <2>2, <2>3, <3>1
  <2> QED BY <1>3, <2>4, <2>5
<1>7. TypeOK' BY <1>1, <1>2, <1>6 DEF TypeOK
<1>8. Stages' BY <1>1, <1>2, <1>6 DEF RcvInv, Stages
<1>9. EndIsTold' BY <1>1, <1>6 DEF EndIsTold, EndsLast, CloseIsTold
<1> QED BY <1>5, <1>7, <1>8, <1>9 DEF RcvInv

LEMMA RecvStepInv == RcvInv /\ Recv => RcvInv'
<1> SUFFICES ASSUME RcvInv, Recv PROVE RcvInv' OBVIOUS
<1>1. /\ pc = "wait" /\ status = "established" /\ pc' = "cut"
      /\ recvbuf' = recvbuf \o kernel /\ kernel' = <<>> /\ size' = SizeFor(Len(recvbuf'))
      /\ status' = IF ended = "fin" THEN "closed" ELSE status
      /\ closedByPeer' = (ended = "fin")
      /\ UNCHANGED <<peer, sent, ended, mask, told, refused>>
      BY DEF Recv, DataArrives
<1>2. TypeOK /\ size \in Nat \ {0} BY DEF RcvInv, TypeOK
<1>3. recvbuf' = Stream /\ recvbuf' \in Seq(Bytes) /\ Len(recvbuf') \in Nat /\ kernel' \in Seq(Bytes)
  <2>1. recvbuf' = Stream BY <1>1 DEF Stream
  <2>2. Stream \in Seq(Bytes) /\ Len(Stream) \in Nat BY Lengths, LenProperties
  <2> QED BY <1>1, <2>1, <2>2, EmptySeq
<1>4. size' \in Nat \ {0} /\ Len(recvbuf') < size'
  <2>1. PICK used \in Nat : used = Len(recvbuf') BY <1>3
  <2>2. SizeFor(used) \in Nat /\ used < SizeFor(used) BY <1>2, SizeForIs
  <2> QED BY <1>1, <2>1, <2>2
<1>5. StreamInv' /\ ToldWhole' /\ ToldInOrder'
  <2>1. Stream' = Stream
    <3>1. recvbuf' \o <<>> = recvbuf' BY <1>3, ConcatEmptySeq
    <3> QED BY <1>1, <1>3, <3>1 DEF Stream
  <2>2. SameData BY <1>1, <1>2, NoticeIsNoData
  <2> QED BY <1>1, <2>1, <2>2, StreamStill
<1>6. EndsLast' /\ \A i \in 1 .. Len(told') : told'[i].kind # "closed" BY <1>1, NothingTold
<1>7. TypeOK'
  <2>1. closedByPeer' \in BOOLEAN BY <1>1
  <2>2. status' \in {"new", "established", "closed"} /\ pc' \in {"wait", "cut", "over"} BY <1>1
  <2>3. Len(recvbuf') <= size' BY <1>3, <1>4
  <2> QED BY <1>1, <1>2, <1>3, <1>4, <2>1, <2>2, <2>3 DEF TypeOK
<1>8. Stages' BY <1>1, <1>4, <1>6 DEF RcvInv, Stages
<1>9. EndIsTold' BY <1>1, <1>6 DEF EndIsTold, CloseIsTold
<1> QED BY <1>5, <1>7, <1>8, <1>9 DEF RcvInv

LEMMA RecvFailsInv == RcvInv /\ RecvFails => RcvInv'
<1> SUFFICES ASSUME RcvInv, RecvFails PROVE RcvInv' OBVIOUS
<1>1. /\ pc = "wait" /\ status' = "closed" /\ pc' = "over"
      /\ UNCHANGED <<peer, sent, ended, mask, size, closedByPeer, told, refused>>
      BY DEF RecvFails, DataArrives
<1>2. TypeOK /\ size \in Nat /\ ~closedByPeer BY <1>1 DEF RcvInv, TypeOK, Stages
<1>3. /\ recvbuf \in Seq(Bytes) /\ kernel \in Seq(Bytes)
      /\ Len(recvbuf) \in Nat /\ Len(kernel) \in Nat /\ Len(recvbuf) <= size
      BY Lengths DEF RcvInv, TypeOK
<1>4. /\ recvbuf' \in Seq(Bytes) /\ kernel' \in Seq(Bytes) /\ Len(recvbuf') <= size
      /\ Stream' = Stream
  <2>1. CASE UNCHANGED <<recvbuf, kernel>> BY <1>3, <2>1 DEF Stream
  <2>2. CASE LET n == size - Len(recvbuf)
             IN  /\ n <= Len(kernel)
                 /\ recvbuf' = recvbuf \o SubSeq(kernel, 1, n)
                 /\ kernel' = From(kernel, n)
    <3>1. PICK n : n = size - Len(recvbuf) OBVIOUS
    <3>2. n \in 0 .. Len(kernel) BY <1>2, <1>3, <2>2, <3>1
    <3>3. PICK t : t = SubSeq(kernel, 1, n) OBVIOUS
    <3>4. PICK u : u = From(kernel, n) OBVIOUS
    <3>5. t \in Seq(Bytes) /\ Len(t) = n /\ u \in Seq(Bytes) /\ t \o u = kernel
          BY <1>3, <3>2, <3>3, <3>4, CutInTwo
    <3>6. recvbuf' = recvbuf \o t /\ kernel' = u BY <2>2, <3>1, <3>3, <3>4
    <3>7. recvbuf' \in Seq(Bytes) /\ Len(recvbuf') = Len(recvbuf) + n
          BY <1>3, <3>5, <3>6, ConcatProperties
    <3>8. (recvbuf \o t) \o u = recvbuf \o (t \o u) BY <1>3, <3>5, JoinedAll
    <3>9. Stream' = Stream BY <3>5, <3>6, <3>8 DEF Stream
    <3>10. Len(recvbuf) + n = size BY <1>2, <1>3, <3>1
    <3> QED BY <1>2, <3>5, <3>6, <3>7, <3>9, <3>10
  <2> QED BY <2>1, <2>2 DEF RecvFails
<1>5. StreamInv' /\ ToldWhole' /\ ToldInOrder'
  <2>1. SameData BY <1>1, <1>2, NoticeIsNoData
  <2> QED BY <1>1, <1>4, <2>1, StreamStill
<1>6. EndsLast' BY <1>1, NothingTold
<1>7. TypeOK' BY <1>1, <1>2, <1>4 DEF TypeOK
<1>8. Stages' BY <1>1 DEF RcvInv, Stages
<1>9. EndIsTold' BY <1>1, <1>2, <1>6 DEF EndIsTold, CloseIsTold
<1> QED BY <1>5, <1>7, <1>8, <1>9 DEF RcvInv

LEMMA CutMessageInv == RcvInv /\ CutMessage => RcvInv'
<1> SUFFICES ASSUME RcvInv, CutMessage PROVE RcvInv' OBVIOUS
<1>1. PICK n \in Int : n = MsgpackSize(recvbuf) BY SizeIs
<1>2. /\ pc = "cut" /\ n > 0 /\ n <= Len(recvbuf) /\ Told(n) /\ recvbuf' = From(recvbuf, n)
      /\ UNCHANGED <<peer, sent, kernel, ended, mask, status, size, pc, closedByPeer>>
      BY <1>1 DEF CutMessage, Told
<1>3. /\ StreamInv' /\ ToldWhole' /\ ToldInOrder'
      /\ recvbuf' \in Seq(Bytes) /\ Len(recvbuf') \in Nat /\ Len(recvbuf') < Len(recvbuf)
      /\ told' \in Seq(Items) /\ refused' \subseteq 0 .. MaxMsgs
      /\ \A i \in 1 .. Len(told') :
            told'[i].kind \in {"new", "closed"} => i \in 1 .. Len(told) /\ told'[i] = told[i]
  <2>1. kernel' = kernel /\ peer' = peer /\ sent' = sent /\ ended' = ended BY <1>2
  <2> QED BY <1>1, <1>2, <2>1, StreamCut
<1>4. EndsLast' /\ \A i \in 1 .. Len(told') : told'[i].kind # "closed"
  <2>1. Len(told') \in Nat BY <1>3, LenProperties
  <2> QED BY <1>2, <1>3, <2>1, NotYetEnded
<1>5. TypeOK /\ Len(recvbuf) \in Nat /\ size \in Nat /\ Len(recvbuf) < size
      BY <1>2, Lengths DEF RcvInv, TypeOK, Stages
<1>6. Len(recvbuf') < size' /\ Len(recvbuf') <= size' BY <1>2, <1>3, <1>5
<1>7. TypeOK' BY <1>2, <1>3, <1>5, <1>6 DEF TypeOK
<1>8. Stages' BY <1>2, <1>4, <1>6 DEF RcvInv, Stages
<1>9. EndIsTold' BY <1>2, <1>4 DEF EndIsTold, CloseIsTold
<1> QED BY <1>3, <1>7, <1>8, <1>9 DEF RcvInv

LEMMA CutBadInv == RcvInv /\ CutBad => RcvInv'
<1> SUFFICES ASSUME RcvInv, CutBad PROVE RcvInv' OBVIOUS
<1>1. /\ pc = "cut" /\ MsgpackSize(recvbuf) = Bad /\ status' = "closed" /\ pc' = "over"
      /\ UNCHANGED <<peer, sent, kernel, ended, mask, recvbuf, size, closedByPeer, told, refused>>
      BY DEF CutBad
<1>2. StreamInv' /\ ToldWhole' /\ ToldInOrder' BY <1>1, Quiet
<1>3. EndsLast' BY <1>1, NothingTold
<1>4. MsgpackSize(recvbuf)' = Bad
  <2>1. Longer(peer, peer') BY <1>1, Lengths DEF Longer
  <2> QED BY <1>1, <2>1, SizeIs
<1>5. TypeOK' BY <1>1 DEF RcvInv, TypeOK
<1>6. Stages' BY <1>1 DEF RcvInv, Stages
<1>7. EndIsTold' BY <1>1, <1>3, <1>4 DEF EndIsTold, CloseIsTold, Bad
<1> QED BY <1>2, <1>5, <1>6, <1>7 DEF RcvInv

\* The application is told of the end.
LEMMA EndTold ==
    ASSUME RcvInv, pc = "cut", closedByPeer, "closed" \in mask, Dispatches(Notice("closed")),
           MsgpackSize(recvbuf) \notin 1 .. Len(recvbuf),
           pc' = "over",
           UNCHANGED <<peer, sent, kernel, ended, mask, status, recvbuf, size, closedByPeer>>
    PROVE  RcvInv'
<1>1. TypeOK /\ told \in Seq(Items) /\ Len(told) \in Nat /\ MaxMsgs \in Nat BY Lengths DEF RcvInv
<1>2. /\ \A i \in 1 .. Len(told) : told[i].kind # "closed"
      /\ \A i \in 1 .. Len(told) : told[i].kind = "new" => i = 1
      BY DEF RcvInv, Stages, EndIsTold, EndsLast
<1>3. refused \subseteq refused' /\ refused' \subseteq 0 .. MaxMsgs
  <2>1. refused \subseteq 0 .. MaxMsgs /\ 0 \in 0 .. MaxMsgs BY <1>1 DEF TypeOK
  <2> QED BY <2>1 DEF Dispatches
<1>4. StreamInv' /\ ToldWhole' /\ ToldInOrder'
  <2>1. told' = told \/ \E kind \in {"new", "closed"} : told' = Append(told, Notice(kind)) BY DEF Dispatches
  <2>2. SameData BY <1>1, <1>3, <2>1, NoticeIsNoData
  <2>3. Stream' = Stream BY DEF Stream
  <2> QED BY <2>2, <2>3, StreamStill
<1>5. MsgpackSize(recvbuf)' = MsgpackSize(recvbuf)
  <2>1. Longer(peer, peer') BY Lengths DEF Longer
  <2> QED BY <2>1, SizeIs
<1>6. Stages' BY DEF RcvInv, Stages
<1>7. told' \in Seq(Items) /\ EndIsTold'
  <2>1. CASE refused' = refused \cup {0} /\ told' = told
    <3>1. EndsLast' BY <2>1, NothingTold
    <3>2. 0 \in refused' BY <2>1
    <3> QED BY <1>1, <2>1, <3>1, <3>2 DEF EndIsTold, CloseIsTold
  <2>2. CASE told' = Append(told, Notice("closed")) /\ refused' = refused
    <3> DEFINE l == Len(told) + 1
    <3>1. Notice("closed") \in Items /\ Notice("closed").kind = "closed"
      <4>1. <<>> \in Seq(Bytes) BY EmptySeq
      <4> QED BY <4>1 DEF Notice, Items
    <3>2. /\ told' \in Seq(Items) /\ Len(told') = l /\ told'[l] = Notice("closed")
          /\ \A i \in 1 .. Len(told) : told'[i] = told[i]
          BY <1>1, <2>2, <3>1, AppendProperties
    <3>3. 1 .. Len(told') = (1 .. Len(told)) \cup {l} BY <1>1, <3>2
    <3>4. \A i \in 1 .. Len(told') :
             /\ told'[i].kind = "new" => i = 1
             /\ told'[i].kind = "closed" => i = Len(told')
          BY <1>2, <3>1, <3>2, <3>3
    <3>5. EndsLast' BY <1>5, <3>4 DEF EndsLast
    <3>6. told' # <<>> /\ Last(told)'.kind = "closed"
      <4>1. Len(told') # 0 BY <1>1, <3>2
      <4>2. told' # <<>> BY <3>2, <4>1, EmptySeq
      <4> QED BY <3>1, <3>2, <4>2 DEF Last
    <3>7. CloseIsTold' BY <3>6 DEF CloseIsTold
    <3> QED BY <3>2, <3>5, <3>7 DEF EndIsTold
  <2> QED BY <2>1, <2>2 DEF Dispatches
<1>8. TypeOK' BY <1>1, <1>3, <1>7 DEF TypeOK
<1> QED BY <1>4, <1>6, <1>7, <1>8 DEF RcvInv

LEMMA CutDoneInv == RcvInv /\ CutDone => RcvInv'
<1> SUFFICES ASSUME RcvInv, CutDone PROVE RcvInv' OBVIOUS
<1>1. /\ pc = "cut" /\ (MsgpackSize(recvbuf) > Len(recvbuf) \/ recvbuf = <<>>)
      /\ pc' = IF closedByPeer THEN "over" ELSE "wait"
      /\ UNCHANGED <<peer, sent, kernel, ended, mask, status, recvbuf, size, closedByPeer>>
      BY DEF CutDone
<1>2. CASE closedByPeer /\ "closed" \in mask
  <2>1. MsgpackSize(recvbuf) \notin 1 .. Len(recvbuf)
    <3>1. Len(recvbuf) \in Nat /\ (recvbuf = <<>> <=> Len(recvbuf) = 0) /\ MsgpackSize(recvbuf) \in Int
          BY Lengths, SizeIs
    <3> QED BY <1>1, <3>1
  <2>2. Dispatches(Notice("closed")) /\ pc' = "over" BY <1>1, <1>2 DEF CutDone
  <2> QED BY <1>1, <1>2, <2>1, <2>2, EndTold
<1>3. CASE ~(closedByPeer /\ "closed" \in mask)
  <2>1. told' = told /\ refused' = refused BY <1>3 DEF CutDone
  <2>2. StreamInv' /\ ToldWhole' /\ ToldInOrder' BY <1>1, <2>1, Quiet
  <2>3. EndsLast' /\ \A i \in 1 .. Len(told') : told'[i].kind # "closed" BY <1>1, <2>1, NothingTold
  <2>4. TypeOK' BY <1>1, <2>1 DEF RcvInv, TypeOK
  <2>5. Stages' BY <1>1, <2>1, <2>3 DEF RcvInv, Stages
  <2>6. EndIsTold' BY <1>1, <1>3, <2>3 DEF EndIsTold, CloseIsTold
  <2> QED BY <2>2, <2>4, <2>5, <2>6 DEF RcvInv
<1> QED BY <1>2, <1>3

LEMMA ShutdownInv == RcvInv /\ Shutdown => RcvInv'
<1> SUFFICES ASSUME RcvInv, Shutdown PROVE RcvInv' OBVIOUS
<1>1. /\ pc = "wait" /\ status' = "closed" /\ pc' = "over"
      /\ UNCHANGED <<peer, sent, kernel, ended, mask, recvbuf, size, closedByPeer, told, refused>>
      BY DEF Shutdown
<1>2. StreamInv' /\ ToldWhole' /\ ToldInOrder' BY <1>1, Quiet
<1>3. EndsLast' BY <1>1, NothingTold
<1>4. TypeOK' BY <1>1 DEF RcvInv, TypeOK
<1>5. Stages' BY <1>1 DEF RcvInv, Stages
<1>6. ~closedByPeer' BY <1>1 DEF RcvInv, Stages
<1>7. EndIsTold' BY <1>3, <1>6 DEF EndIsTold, CloseIsTold
<1> QED BY <1>2, <1>4, <1>5, <1>7 DEF RcvInv

-----------------------------------------------------------------------------
(* The theorems *)

LEMMA InitInv == Init => RcvInv
<1> SUFFICES ASSUME Init PROVE RcvInv OBVIOUS
<1>1. /\ peer = <<>> /\ sent = 0 /\ kernel = <<>> /\ ended = "no" /\ mask \in SUBSET {"new", "closed"}
      /\ status = "new" /\ recvbuf = <<>> /\ size = RcvBuf
      /\ pc = "wait" /\ closedByPeer = FALSE /\ told = <<>> /\ refused = {}
      BY DEF Init
<1>2. /\ <<>> \in Seq(Bytes) /\ <<>> \in Seq(Messages) /\ <<>> \in Seq(Items)
      /\ Len(<<>>) = 0 /\ <<>> \o <<>> = <<>>
      BY EmptySeq, ConcatEmptySeq
<1>3. RcvBuf \in Nat \ {0} /\ MaxMsgs \in Nat BY RPAssumption
<1>4. closedByPeer \in BOOLEAN BY <1>1
<1>5. TypeOK BY <1>1, <1>2, <1>3, <1>4 DEF TypeOK
<1>6. DataAt = {} BY <1>1, <1>2 DEF DataAt
<1>7. Stream = <<>> BY <1>1, <1>2 DEF Stream
<1>8. StreamInv
  <2>1. InOrder(Stream, peer) BY <1>2, <1>7 DEF InOrder
  <2>2. Begins(Stream, 1) BY <1>7 DEF Begins
  <2>3. Ends(Stream, 1, peer, sent, ended) BY <1>1, <1>2, <1>7 DEF Ends
  <2>4. Behind(1) BY <1>6 DEF Behind
  <2>5. 1 \in 1 .. Len(peer) + 1 BY <1>1, <1>2
  <2> QED BY <1>1, <2>1, <2>2, <2>3, <2>4, <2>5 DEF StreamInv
<1>9. ToldWhole /\ ToldInOrder BY <1>6 DEF ToldWhole, ToldInOrder
<1>10. Stages BY <1>1, <1>2, <1>3 DEF Stages
<1>11. EndIsTold BY <1>1, <1>2 DEF EndIsTold, EndsLast, CloseIsTold
<1> QED BY <1>5, <1>8, <1>9, <1>10, <1>11 DEF RcvInv

LEMMA NextInv == RcvInv /\ [Next]_vars => RcvInv'
<1> SUFFICES ASSUME RcvInv, [Next]_vars PROVE RcvInv' OBVIOUS
<1>1. CASE Peer
  <2>1. ASSUME NEW len \in Lens, NEW bad \in BOOLEAN, NEW n \in 1 .. len, PeerSends(len, bad, n)
        PROVE  RcvInv'
        BY <2>1, PeerSendsInv
  <2>2. ASSUME NEW len \in Lens, NEW n \in 1 .. len, PeerGoesOn(n) PROVE RcvInv'
    <3>1. len \in Nat BY RPAssumption
    <3>2. n \in Nat \ {0} BY <3>1
    <3> QED BY <2>2, <3>2, PeerGoesOnInv
  <2>3. ASSUME NEW how \in {"fin", "rst"}, PeerEnds(how) PROVE RcvInv' BY <2>3, PeerEndsInv
  <2> QED BY <1>1, <2>1, <2>2, <2>3 DEF Peer
<1>2. CASE Event
      BY <1>2, NewLinkInv, RecvStepInv, RecvFailsInv, CutMessageInv, CutBadInv, CutDoneInv DEF Event
<1>3. CASE Shutdown BY <1>3, ShutdownInv
<1>4. CASE UNCHANGED vars
  <2>1. UNCHANGED <<peer, sent, kernel, ended, mask, status, recvbuf, size, pc, closedByPeer, told, refused>>
        BY <1>4 DEF vars
  <2>2. StreamInv' /\ ToldWhole' /\ ToldInOrder' BY <2>1, Quiet
  <2>3. Longer(peer, peer') BY <2>1, Lengths DEF Longer
  <2>4. /\ peer' \in Seq(Messages) /\ Len(peer') <= MaxMsgs
        /\ sent' \in Nat /\ kernel' \in Seq(Bytes) /\ ended' \in {"no", "fin", "rst"}
        BY <2>1 DEF RcvInv, TypeOK, Stages
  <2>5. UNCHANGED <<mask, status, recvbuf, size, pc, closedByPeer, told, refused>> BY <2>1
  <2> QED BY <2>2, <2>3, <2>4, <2>5, PeerSide
<1> QED BY <1>1, <1>2, <1>3, <1>4 DEF Next

\* However the bytes arrive and the connection ends, what is under way follows
\* from what has been told, and nothing is told after the end.
THEOREM Invariance == Spec => []RcvInv
<1> QED BY InitInv, NextInv, PTL DEF Spec

\* recv() and the loop of on_net_event() lose, tear and repeat nothing, and leave
\* room for the bytes still to come.
THEOREM RecvTheorem == Spec => []RecvInv
<1>1. RcvInv => RecvInv
  <2> SUFFICES ASSUME RcvInv PROVE RecvInv OBVIOUS
  <2>1. TypeOK /\ RoomToRecv BY DEF RcvInv, Stages, RoomToRecv
  <2>2. MessagesWhole
    <3>1. PICK m \in 1 .. Len(peer) + 1 : Behind(m) BY DEF RcvInv, StreamInv
    <3>2. m \in Nat /\ Len(peer) \in Nat BY <3>1, Lengths
    <3>3. ASSUME NEW i \in DataAt
          PROVE  /\ told[i].data = Message(IdAt(i), peer[IdAt(i)].len)
                 /\ \A j \in DataAt : i < j => IdAt(i) < IdAt(j)
                 /\ \A k \in 1 .. IdAt(i) : Handled(k)
      <4>1. IdAt(i) \in 1 .. Len(peer) /\ told[i].data = Message(IdAt(i), peer[IdAt(i)].len)
            BY DEF RcvInv, ToldWhole
      <4>2. \A j \in DataAt : i < j => IdAt(i) < IdAt(j) BY DEF RcvInv, ToldInOrder
      <4>3. IdAt(i) < m BY <3>1 DEF Behind
      <4>4. \A k \in 1 .. IdAt(i) : k \in 1 .. m - 1 BY <3>2, <4>1, <4>3
      <4> QED BY <3>1, <4>1, <4>2, <4>4 DEF Behind
    <3> QED BY <3>3 DEF MessagesWhole
  <2> QED BY <2>1, <2>2 DEF RecvInv
<1> QED BY <1>1, Invariance, PTL

\* The application hears of the end of a connection after all there is to tell,
\* and it hears of it.
THEOREM EndTheorem == Spec => []EndIsTold
<1>1. RcvInv => EndIsTold BY DEF RcvInv
<1> QED BY <1>1, Invariance, PTL
=============================================================================
