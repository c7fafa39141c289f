-------------------------- MODULE RingQueueProofs --------------------------
(***************************************************************************)
(* Machine-checked proofs about ring_queue_t, for every buffer length,     *)
(* header size, message length and content, and about the two threads that *)
(* talk through it, for any number of messages.                            *)
(***************************************************************************)
EXTENDS RingQueue, AppThread, SequenceTheorems, TLAPS

-----------------------------------------------------------------------------
(* Arithmetic of positions on the ring *)

\* A distance on the ring is a position's worth of bytes.
LEMMA DistType ==
    ASSUME NEW a \in Pos, NEW p \in Pos
    PROVE  Dist(a, p) \in 0 .. BufferLen - 1
BY RQAssumption DEF Dist, Pos

\* Only a position itself lies at distance 0.
LEMMA DistZero ==
    ASSUME NEW a \in Pos, NEW p \in Pos
    PROVE  (Dist(a, p) = 0) <=> (a = p)
BY RQAssumption DEF Dist, Pos

\* normalize_pos(a + n) lies n bytes ahead of a.
LEMMA NormalizeDist ==
    ASSUME NEW a \in Pos, NEW n \in 0 .. BufferLen - 1
    PROVE  /\ NormalizePos(a + n) \in Pos
           /\ Dist(a, NormalizePos(a + n)) = n
BY RQAssumption DEF Dist, Pos, NormalizePos

\* Distances add up, once round the ring at most.
LEMMA DistSum ==
    ASSUME NEW a \in Pos, NEW b \in Pos, NEW c \in Pos
    PROVE  Dist(a, b) + Dist(b, c) \in {Dist(a, c), Dist(a, c) + BufferLen}
BY RQAssumption DEF Dist, Pos

\* What get_used_len() and get_free_len() compute.
LEMMA UsedIsDist ==
    ASSUME NEW a \in Pos, NEW b \in Pos
    PROVE  /\ GetUsedLen(a, b) = Dist(a, b)
           /\ GetFreeLen(a, b) = BufferLen - 1 - Dist(a, b)
BY RQAssumption DEF GetUsedLen, GetFreeLen, Dist, Pos

\* A header whose bytes are intact is read back.
LEMMA ExtractHeader ==
    ASSUME NEW pos \in Pos, NEW l \in Nat, HeaderBytes(pos, l)
    PROVE  ExtractRb(pos) = l
<1>1. \A k \in 0 .. HdrLen - 1 :
          NormalizePos(pos + k) \in Pos /\ Dist(pos, NormalizePos(pos + k)) = k
      BY NormalizeDist, RQAssumption
<1>2. \A k \in 0 .. HdrLen - 1 : buffer[NormalizePos(pos + k)] = Hdr(l, k)
      BY <1>1, RQAssumption DEF HeaderBytes
<1>3. buffer[pos] = Hdr(l, 0)
      BY DistZero, RQAssumption DEF HeaderBytes
<1>4. buffer[pos].val = l
      BY <1>3 DEF Hdr
<1> QED BY <1>2, <1>4 DEF ExtractRb

\* A payload whose bytes are intact is copied out whole.
LEMMA ExtractPayload ==
    ASSUME NEW pos \in Pos, NEW v \in Nat, NEW n \in 1 .. BufferLen - 1,
           PayloadBytes(pos, v, n)
    PROVE  PayloadAt(pos, n) = [len |-> n, val |-> v]
<1>1. \A k \in 0 .. n - 1 :
          NormalizePos(pos + k) \in Pos /\ Dist(pos, NormalizePos(pos + k)) = k
      BY NormalizeDist, RQAssumption
<1>2. \A k \in 0 .. n - 1 : buffer[NormalizePos(pos + k)] = Pay(v, k)
      BY <1>1, RQAssumption DEF PayloadBytes
<1>3. buffer[pos] = Pay(v, 0)
      BY DistZero, RQAssumption DEF PayloadBytes
<1>4. buffer[pos].val = v
      BY <1>3 DEF Pay
<1> QED BY <1>2, <1>4 DEF PayloadAt

-----------------------------------------------------------------------------
(* Who owns which bytes *)

\* Start splits the published bytes into the payload being consumed and the
\* blocks with an unread header.
LEMMA StartSplits ==
    ASSUME TypeOK, ConsumerView
    PROVE  /\ Start \in Pos
           /\ Dist(read, write) = Dist(read, Start) + Dist(Start, write)
           /\ Dist(read, Start) = IF Consuming THEN clen ELSE 0
<1>0. read \in Pos /\ write \in Pos /\ clen \in Nat BY DEF TypeOK
<1>1. CASE Consuming
  <2>1. clen \in 0 .. BufferLen - 1 /\ clen <= Dist(read, write)
        BY <1>0, <1>1, DistType, RQAssumption DEF ConsumerView
  <2>2. Start \in Pos /\ Dist(read, Start) = clen
        BY <1>0, <1>1, <2>1, NormalizeDist DEF Start
  <2>3. Dist(Start, write) \in 0 .. BufferLen - 1
        BY <1>0, <2>2, DistType
  <2>4. Dist(read, write) \in 0 .. BufferLen - 1
        BY <1>0, DistType
  <2>5. Dist(read, Start) + Dist(Start, write)
           \in {Dist(read, write), Dist(read, write) + BufferLen}
        BY <1>0, <2>2, DistSum
  <2> QED BY <1>1, <2>1, <2>2, <2>3, <2>4, <2>5, RQAssumption
<1>2. CASE ~Consuming
  <2>1. Start = read BY <1>2 DEF Start
  <2>2. Dist(read, Start) = 0 BY <1>0, <2>1, DistZero
  <2> QED BY <1>0, <1>2, <2>1, <2>2, DistType, RQAssumption
<1> QED BY <1>1, <1>2

\* A byte of a block that lies before write_ as seen from Start lies between
\* read_ and write_.
LEMMA BlockIsUnread ==
    ASSUME TypeOK, ConsumerView, NEW pos \in Pos, NEW n \in Nat,
           Dist(Start, pos) + n <= Dist(Start, write),
           NEW p \in Pos, Dist(pos, p) < n
    PROVE  /\ Dist(Start, p) = Dist(Start, pos) + Dist(pos, p)
           /\ Dist(read, p) < Dist(read, write)
<1>0. read \in Pos /\ write \in Pos /\ Start \in Pos
      BY StartSplits DEF TypeOK
<1>1. /\ Dist(Start, pos) \in 0 .. BufferLen - 1
      /\ Dist(pos, p) \in 0 .. BufferLen - 1
      /\ Dist(Start, p) \in 0 .. BufferLen - 1
      /\ Dist(read, p) \in 0 .. BufferLen - 1
      /\ Dist(read, Start) \in 0 .. BufferLen - 1
      /\ Dist(Start, write) \in 0 .. BufferLen - 1
      /\ Dist(read, write) \in 0 .. BufferLen - 1
      BY <1>0, DistType
<1>2. Dist(Start, pos) + Dist(pos, p) \in {Dist(Start, p), Dist(Start, p) + BufferLen}
      BY <1>0, DistSum
<1>3. Dist(Start, p) = Dist(Start, pos) + Dist(pos, p)
      BY <1>1, <1>2, RQAssumption
<1>4. Dist(read, Start) + Dist(Start, p) \in {Dist(read, p), Dist(read, p) + BufferLen}
      BY <1>0, DistSum
<1>5. Dist(read, write) = Dist(read, Start) + Dist(Start, write)
      BY StartSplits
<1> QED BY <1>1, <1>3, <1>4, <1>5, RQAssumption

\* The bytes the producer may write are not the consumer's.
LEMMA FreeIsDisjoint ==
    ASSUME TypeOK, NEW n \in Nat, Dist(read, write) + n < BufferLen,
           NEW p \in Pos, Dist(read, p) < Dist(read, write)
    PROVE  ~(Dist(write, p) < n)
<1>0. read \in Pos /\ write \in Pos BY DEF TypeOK
<1>1. /\ Dist(read, write) \in 0 .. BufferLen - 1
      /\ Dist(write, p) \in 0 .. BufferLen - 1
      /\ Dist(read, p) \in 0 .. BufferLen - 1
      BY <1>0, DistType
<1>2. Dist(read, write) + Dist(write, p) \in {Dist(read, p), Dist(read, p) + BufferLen}
      BY <1>0, DistSum
<1> QED BY <1>1, <1>2, RQAssumption

-----------------------------------------------------------------------------
(* Steps that leave the consumer's bytes alone *)

\* A block before write_ survives a step that overwrites no unread byte.
LEMMA BlockFramed ==
    ASSUME TypeOK, ConsumerView, NoOverwriteStep,
           NEW pos \in Pos, NEW l \in Nat, NEW v \in Nat,
           Dist(Start, pos) + HdrLen + l <= Dist(Start, write),
           BlockBytes(pos, l, v)
    PROVE  BlockBytes(pos, l, v)'
<1>0. read \in Pos /\ write \in Pos /\ Start \in Pos
      BY StartSplits DEF TypeOK
<1>1. ASSUME NEW p \in Pos, Dist(pos, p) < HdrLen + l
      PROVE  buffer'[p] = buffer[p]
  <2>1. Dist(Start, pos) \in Int /\ Dist(Start, write) \in Int
        BY <1>0, DistType, RQAssumption
  <2>2. Dist(Start, pos) + (HdrLen + l) <= Dist(Start, write)
        BY <2>1, RQAssumption
  <2>3. Dist(read, p) < Dist(read, write)
        BY <1>1, <2>2, BlockIsUnread, RQAssumption
  <2> QED BY <1>0, <2>3, UsedIsDist DEF NoOverwriteStep
<1>2. \A p \in Pos : Dist(pos, p) \in Int
      BY DistType, RQAssumption
<1>3. HeaderBytes(pos, l)'
      BY <1>1, <1>2, RQAssumption DEF BlockBytes, HeaderBytes
<1>4. ASSUME NEW p \in Pos, Dist(pos, p) - HdrLen \in 0 .. l - 1
      PROVE  buffer'[p] = Pay(v, Dist(pos, p) - HdrLen)
      BY <1>1, <1>2, <1>4, RQAssumption DEF BlockBytes
<1> QED BY <1>3, <1>4 DEF BlockBytes

\* Nothing the consumer relies on changes in such a step of the producer.
LEMMA ConsumerFramed ==
    ASSUME IInv, NoOverwriteStep, UNCHANGED <<read, write, pend, cvars>>
    PROVE  Layout' /\ ConsumerView'
<1> USE DEF IInv
<1>0. /\ read \in Pos /\ write \in Pos /\ Start \in Pos
      /\ pend \in Seq(Blocks)
      BY StartSplits DEF TypeOK
<1>1. Start' = Start /\ Consuming' = Consuming
      BY DEF Start, Consuming, cvars
<1>2. \A i \in 1 .. Len(pend) : BlockBytes(pend[i].pos, pend[i].len, pend[i].val)'
  <2> SUFFICES ASSUME NEW i \in 1 .. Len(pend)
               PROVE  BlockBytes(pend[i].pos, pend[i].len, pend[i].val)'
      OBVIOUS
  <2>0. pend[i] \in Blocks BY <1>0, ElementOfSeq
  <2>1. pend[i].pos \in Pos /\ pend[i].len \in Nat /\ pend[i].val \in Nat
        BY <2>0 DEF Blocks
  <2>2. /\ Dist(Start, pend[i].pos) + HdrLen + pend[i].len <= Dist(Start, write)
        /\ BlockBytes(pend[i].pos, pend[i].len, pend[i].val)
        BY DEF Layout, BlockEnd
  <2>3. \A pos \in Pos, l \in Nat, v \in Nat :
           /\ Dist(Start, pos) + HdrLen + l <= Dist(Start, write)
           /\ BlockBytes(pos, l, v)
           => BlockBytes(pos, l, v)'
        BY BlockFramed
  <2>4. pend' = pend OBVIOUS
  <2> DEFINE m == pend[i]
  <2>5. /\ \A p \in Pos : Dist(m.pos, p) < HdrLen => buffer'[p] = Hdr(m.len, Dist(m.pos, p))
        /\ \A p \in Pos : Dist(m.pos, p) - HdrLen \in 0 .. m.len - 1
              => buffer'[p] = Pay(m.val, Dist(m.pos, p) - HdrLen)
        BY <2>1, <2>2, <2>3 DEF BlockBytes, HeaderBytes
  <2> QED BY <2>4, <2>5 DEF BlockBytes, HeaderBytes
<1>3. Layout'
  <2>1. \A m : BlockEnd(m)' = Dist(Start, m.pos) + HdrLen + m.len
        BY <1>1 DEF BlockEnd
  <2> QED BY <1>1, <1>2, <2>1 DEF Layout, BlockEnd
<1>4. ConsumerView'
  <2>1. ASSUME Consuming PROVE PayloadBytes(read, cur.val, clen)'
    <3>1. clen <= Dist(read, write) /\ PayloadBytes(read, cur.val, clen)
          BY <2>1 DEF ConsumerView
    <3>2. \A p \in Pos : Dist(read, p) \in Int /\ Dist(read, write) \in Int /\ clen \in Int
          BY <1>0, DistType, RQAssumption DEF TypeOK
    <3>3. \A p \in Pos : Dist(read, p) < clen => buffer'[p] = buffer[p]
          BY <1>0, <3>1, <3>2, UsedIsDist DEF NoOverwriteStep
    <3> QED BY <3>1, <3>3 DEF PayloadBytes, cvars
  <2> QED BY <1>1, <2>1 DEF ConsumerView, cvars
<1> QED BY <1>3, <1>4

-----------------------------------------------------------------------------
(* What produce_bytes() does *)

\* A header goes to the HdrLen bytes from pos and nowhere else.
LEMMA PutHeaderEffect ==
    ASSUME NEW b \in [Pos -> Cells], NEW pos \in Pos, NEW l \in Nat
    PROVE  /\ PutHeader(b, pos, l) \in [Pos -> Cells]
           /\ \A p \in Pos : PutHeader(b, pos, l)[p] =
                 IF Dist(pos, p) < HdrLen THEN Hdr(l, Dist(pos, p)) ELSE b[p]
<1>1. NormalizePos(pos) = pos BY RQAssumption DEF NormalizePos, Pos
<1>2. \A p \in Pos : Dist(pos, p) \in Nat BY DistType, RQAssumption
<1>3. \A p \in Pos : Hdr(l, Dist(pos, p)) \in Cells BY <1>2 DEF Hdr, Cells
<1> QED BY <1>1, <1>3 DEF PutHeader

\* Bytes o .. o+c-1 of a payload go behind the header and the first o bytes.
LEMMA PutPayloadEffect ==
    ASSUME NEW b \in [Pos -> Cells], NEW pos \in Pos, NEW v \in Nat,
           NEW o \in Nat, NEW c \in Nat, HdrLen + o + c < BufferLen
    PROVE  /\ PutPayload(b, pos + HdrLen + o, v, o, c) \in [Pos -> Cells]
           /\ \A p \in Pos : PutPayload(b, pos + HdrLen + o, v, o, c)[p] =
                 IF Dist(pos, p) - HdrLen \in o .. o + c - 1
                 THEN Pay(v, Dist(pos, p) - HdrLen) ELSE b[p]
<1> DEFINE at == NormalizePos(pos + HdrLen + o)
<1>1. /\ at \in Pos
      /\ \A p \in Pos : Dist(at, p) < c
            <=> Dist(pos, p) - HdrLen \in o .. o + c - 1
      /\ \A p \in Pos : Dist(at, p) < c => Dist(pos, p) - HdrLen = o + Dist(at, p)
      BY RQAssumption DEF NormalizePos, Dist, Pos
<1>2. \A p \in Pos : Dist(at, p) \in Nat BY <1>1, DistType, RQAssumption
<1>3. \A p \in Pos : Pay(v, o + Dist(at, p)) \in Cells BY <1>2 DEF Pay, Cells
<1>4. PutPayload(b, pos + HdrLen + o, v, o, c) =
        [p \in Pos |-> IF Dist(at, p) < c THEN Pay(v, o + Dist(at, p)) ELSE b[p]]
      BY DEF PutPayload
<1> HIDE DEF at
<1>5. PutPayload(b, pos + HdrLen + o, v, o, c) \in [Pos -> Cells]
      BY <1>3, <1>4
<1>6. \A p \in Pos : PutPayload(b, pos + HdrLen + o, v, o, c)[p] =
         IF Dist(at, p) < c THEN Pay(v, o + Dist(at, p)) ELSE b[p]
      BY <1>4
<1> QED BY <1>1, <1>5, <1>6

\* Writing n free bytes behind write_ overwrites no unread byte.
LEMMA FreeWrite ==
    ASSUME TypeOK, NEW n \in Nat, Dist(read, write) + n < BufferLen,
           \A p \in Pos : ~(Dist(write, p) < n) => buffer'[p] = buffer[p]
    PROVE  NoOverwriteStep
<1>1. read \in Pos /\ write \in Pos BY DEF TypeOK
<1> QED BY <1>1, FreeIsDisjoint, UsedIsDist DEF NoOverwriteStep

-----------------------------------------------------------------------------
(* Every step of the producing thread preserves the invariant *)

\* produce_reserve() keeps the invariant: the header goes behind write_.
LEMMA ReserveInv ==
    ASSUME IInv, NEW n \in Lens, NEW v \in Vals, ProduceReserve(n, v)
    PROVE  IInv' /\ NoOverwriteStep
<1> USE DEF IInv, ProduceReserve
<1>0. /\ read \in Pos /\ write \in Pos /\ buffer \in [Pos -> Cells]
      /\ n \in Nat /\ v \in Nat
      BY RQAssumption DEF TypeOK
<1>1. Dist(read, write) + HdrLen + n < BufferLen /\ Dist(read, write) \in Nat
      BY <1>0, UsedIsDist, DistType, RQAssumption
<1>2. /\ buffer' \in [Pos -> Cells]
      /\ \A p \in Pos : buffer'[p] =
            IF Dist(write, p) < HdrLen THEN Hdr(0, Dist(write, p)) ELSE buffer[p]
      BY <1>0, PutHeaderEffect
<1>3. NoOverwriteStep
      BY <1>1, <1>2, FreeWrite, RQAssumption
<1>4. Layout' /\ ConsumerView'
      BY <1>3, ConsumerFramed
<1>5. BlockBytes(write, 0, v)'
      BY <1>2, DistType DEF BlockBytes, HeaderBytes
<1>6. TypeOK'
      BY <1>0, <1>2, RQAssumption DEF TypeOK, cvars, Messages
<1>7. ProducerView'
      BY <1>0, <1>1, <1>5, RQAssumption DEF ProducerView
<1>8. NeverBroken' BY DEF NeverBroken
<1> QED BY <1>3, <1>4, <1>6, <1>7, <1>8

\* produce_append() keeps it: the new bytes follow those appended before,
\* and the header is rewritten with the longer length.
LEMMA AppendInv ==
    ASSUME IInv, NEW c \in Lens, ProduceAppend(c)
    PROVE  IInv' /\ NoOverwriteStep
<1> USE DEF IInv
<1>a. pmsg.len \in Nat /\ pmsg.val \in Nat
      BY DEF TypeOK, Messages
<1>b. PICK l \in Nat, v \in Nat : l = pmsg.len /\ v = pmsg.val
      BY <1>a
<1>c. PICK mid : mid = PutPayload(buffer, write + HdrLen + l, v, l, c)
      OBVIOUS
<1>0. /\ read \in Pos /\ write \in Pos /\ buffer \in [Pos -> Cells]
      /\ c \in Nat /\ c > 0 /\ l \in Nat /\ v \in Nat /\ room \in Nat /\ c <= room
      BY <1>b, RQAssumption DEF TypeOK, Messages, ProduceAppend
<1>1. /\ Dist(read, write) + HdrLen + l + room < BufferLen
      /\ Dist(read, write) \in Nat /\ BlockBytes(write, l, v)
      BY <1>0, <1>b, DistType DEF ProducerView, ProduceAppend
<1>2. ExtractRb(write) = l
      BY <1>0, <1>1, ExtractHeader DEF BlockBytes
<1>3. /\ buffer' = PutHeader(mid, write, l + c)
      /\ pmsg' = [len |-> l + c, val |-> v]
      /\ room' = room - c
      /\ UNCHANGED <<read, write, ppc, pend, cvars>>
      /\ ppc = "open"
      BY <1>b, <1>c, <1>2 DEF ProduceAppend
<1>3a. write' = write
      BY <1>3
<1>3b. broken' = FALSE
  <2>1. broken' = (l = Broken) BY <1>2 DEF ProduceAppend
  <2>2. l # Broken BY <1>0 DEF Broken
  <2> QED BY <2>1, <2>2
<1>4. HdrLen + l + c < BufferLen
      BY <1>0, <1>1, RQAssumption
<1>5. /\ mid \in [Pos -> Cells]
      /\ \A p \in Pos : mid[p] = IF Dist(write, p) - HdrLen \in l .. l + c - 1
                                 THEN Pay(v, Dist(write, p) - HdrLen) ELSE buffer[p]
      BY <1>0, <1>c, <1>4, PutPayloadEffect
<1>6. /\ buffer' \in [Pos -> Cells]
      /\ \A p \in Pos : buffer'[p] =
            IF Dist(write, p) < HdrLen THEN Hdr(l + c, Dist(write, p)) ELSE mid[p]
  <2>1. l + c \in Nat BY <1>0
  <2> QED BY <1>0, <1>3, <1>5, <2>1, PutHeaderEffect
<1>7. \A p \in Pos : Dist(write, p) \in Nat
      BY <1>0, DistType, RQAssumption
<1>8. NoOverwriteStep
  <2>1. \A p \in Pos : ~(Dist(write, p) < HdrLen + l + c) => buffer'[p] = buffer[p]
        BY <1>0, <1>5, <1>6, <1>7, RQAssumption
  <2>2. Dist(read, write) + (HdrLen + l + c) < BufferLen /\ HdrLen + l + c \in Nat
        BY <1>0, <1>1, RQAssumption
  <2> QED BY <2>1, <2>2, FreeWrite
<1>9. Layout' /\ ConsumerView'
      BY <1>3, <1>8, ConsumerFramed
<1>10. BlockBytes(write, l + c, v)'
  <2>1. HeaderBytes(write, l + c)'
        BY <1>3, <1>6 DEF HeaderBytes
  <2>2. ASSUME NEW p \in Pos, Dist(write, p) - HdrLen \in 0 .. l + c - 1
        PROVE  buffer'[p] = Pay(v, Dist(write, p) - HdrLen)
    <3>1. buffer'[p] = mid[p] BY <1>6, <1>7, <2>2, RQAssumption
    <3>2. CASE Dist(write, p) - HdrLen \in 0 .. l - 1
      <4>1. buffer[p] = Pay(v, Dist(write, p) - HdrLen)
            BY <1>1, <3>2 DEF BlockBytes
      <4>2. mid[p] = buffer[p]
            BY <1>0, <1>5, <1>7, <3>2, RQAssumption
      <4> QED BY <3>1, <4>1, <4>2
    <3>3. CASE Dist(write, p) - HdrLen \in l .. l + c - 1
          BY <1>5, <3>1, <3>3
    <3> QED BY <1>0, <1>7, <2>2, <3>2, <3>3, RQAssumption
  <2>3. \A p \in Pos : Dist(write, p) - HdrLen \in 0 .. l + c - 1
           => buffer'[p] = Pay(v, Dist(write, p) - HdrLen)
        BY <2>2
  <2> QED BY <1>0, <1>3a, <1>7, <2>1, <2>3, RQAssumption DEF BlockBytes, HeaderBytes
<1>11. pmsg' \in Messages
      BY <1>0, <1>3 DEF Messages
<1>12. TypeOK'
  <2>1. room' \in Nat BY <1>0, <1>3
  <2> QED BY <2>1, <1>3, <1>3b, <1>6, <1>11 DEF TypeOK, cvars
<1>13. ProducerView'
  <2>1. v \in Vals BY <1>b, <1>3 DEF ProducerView
  <2> QED BY <1>0, <1>1, <1>3, <1>10, <1>11, <2>1, RQAssumption DEF ProducerView
<1> QED BY <1>3b, <1>8, <1>9, <1>12, <1>13 DEF NeverBroken

\* The header written by produce() keeps it.
LEMMA ProduceInv ==
    ASSUME IInv, NEW n \in Lens, NEW v \in Vals, Produce(n, v)
    PROVE  IInv' /\ NoOverwriteStep
<1> USE DEF IInv, Produce
<1>0. /\ read \in Pos /\ write \in Pos /\ buffer \in [Pos -> Cells]
      /\ n \in Nat /\ n > 0 /\ v \in Nat
      BY RQAssumption DEF TypeOK
<1>1. Dist(read, write) + HdrLen + n < BufferLen /\ Dist(read, write) \in Nat
      BY <1>0, UsedIsDist, DistType, RQAssumption
<1>2. /\ buffer' \in [Pos -> Cells]
      /\ \A p \in Pos : buffer'[p] =
            IF Dist(write, p) < HdrLen THEN Hdr(n, Dist(write, p)) ELSE buffer[p]
      BY <1>0, PutHeaderEffect
<1>3. NoOverwriteStep
      BY <1>1, <1>2, FreeWrite, RQAssumption
<1>4. Layout' /\ ConsumerView'
      BY <1>3, ConsumerFramed
<1>5. HeaderBytes(write, n)'
      BY <1>2 DEF HeaderBytes
<1>6. TypeOK'
      BY <1>0, <1>2, RQAssumption DEF TypeOK, cvars, Messages
<1>7. ProducerView'
      BY <1>0, <1>1, <1>5, RQAssumption DEF ProducerView, HeaderBytes
<1>8. NeverBroken' BY DEF NeverBroken
<1> QED BY <1>3, <1>4, <1>6, <1>7, <1>8

\* The payload written by produce() keeps it.
LEMMA ProducePayloadInv ==
    ASSUME IInv, ProducePayload
    PROVE  IInv' /\ NoOverwriteStep
<1> USE DEF IInv
<1>a. pmsg.len \in Nat /\ pmsg.val \in Nat /\ room \in Nat
      BY DEF TypeOK, Messages
<1>b. PICK n \in Nat, v \in Nat : n = room /\ v = pmsg.val
      BY <1>a
<1>0. /\ read \in Pos /\ write \in Pos /\ buffer \in [Pos -> Cells] /\ n > 0
      BY <1>b DEF TypeOK, ProducerView, ProducePayload
<1>1. /\ Dist(read, write) + HdrLen + n < BufferLen
      /\ Dist(read, write) \in Nat /\ HeaderBytes(write, n)
      BY <1>0, <1>a, <1>b, DistType, RQAssumption DEF ProducerView, ProducePayload
<1>2. /\ buffer' = PutPayload(buffer, write + HdrLen + 0, v, 0, n)
      /\ pmsg' = [len |-> n, val |-> v]
      /\ ppc' = "written" /\ room' = 0
      /\ UNCHANGED <<read, write, broken, pend, cvars>>
      BY <1>0, <1>b, RQAssumption DEF ProducePayload, Pos
<1>3. HdrLen + 0 + n < BufferLen
      BY <1>0, <1>1, RQAssumption
<1>4. /\ buffer' \in [Pos -> Cells]
      /\ \A p \in Pos : buffer'[p] = IF Dist(write, p) - HdrLen \in 0 .. 0 + n - 1
                                     THEN Pay(v, Dist(write, p) - HdrLen) ELSE buffer[p]
      BY <1>0, <1>2, <1>3, PutPayloadEffect
<1>5. \A p \in Pos : Dist(write, p) \in Nat
      BY <1>0, DistType, RQAssumption
<1>6. NoOverwriteStep
  <2>1. \A p \in Pos : ~(Dist(write, p) < HdrLen + n) => buffer'[p] = buffer[p]
        BY <1>4, <1>5, RQAssumption
  <2>2. Dist(read, write) + (HdrLen + n) < BufferLen /\ HdrLen + n \in Nat
        BY <1>0, <1>1, RQAssumption
  <2> QED BY <2>1, <2>2, FreeWrite
<1>7. Layout' /\ ConsumerView'
      BY <1>2, <1>6, ConsumerFramed
<1>8. BlockBytes(write, n, v)'
  <2>1. HeaderBytes(write, n)'
        BY <1>1, <1>2, <1>4, <1>5, RQAssumption DEF HeaderBytes
  <2> QED BY <1>2, <1>4, <1>5, <2>1, RQAssumption DEF BlockBytes, HeaderBytes
<1>9. TypeOK'
  <2>1. pmsg' \in Messages BY <1>2 DEF Messages
  <2> QED BY <2>1, <1>2, <1>4 DEF TypeOK, cvars
<1>10. ProducerView'
  <2>1. v \in Vals BY <1>b DEF ProducerView, ProducePayload
  <2> QED BY <1>0, <1>1, <1>2, <1>8, <2>1, RQAssumption DEF ProducerView
<1> QED BY <1>2, <1>6, <1>7, <1>9, <1>10 DEF NeverBroken

\* Publishing appends the block behind write_ to the chain.
LEMMA FinishInv ==
    ASSUME IInv, ProduceFinish
    PROVE  IInv' /\ NoOverwriteStep
<1> USE DEF IInv
<1>a. pmsg.len \in Nat /\ pmsg.val \in Nat /\ room \in Nat
      BY DEF TypeOK, Messages
<1>b. PICK l \in Nat, v \in Nat, w \in Pos :
          l = pmsg.len /\ v = pmsg.val /\ w = write
      BY <1>a DEF TypeOK
<1>0. /\ read \in Pos /\ Start \in Pos /\ l > 0
      /\ pend \in Seq(Blocks)
      BY <1>b, StartSplits DEF TypeOK, ProducerView, ProduceFinish
<1>1. /\ Dist(read, w) + HdrLen + l < BufferLen
      /\ Dist(read, w) \in Nat /\ BlockBytes(w, l, v)
  <2>1. ppc \in {"open", "written"} BY DEF ProduceFinish
  <2>2. Dist(read, w) + HdrLen + l + room < BufferLen /\ BlockBytes(w, l, v)
        BY <1>b, <2>1 DEF ProducerView
  <2>3. Dist(read, w) \in Nat BY <1>0, DistType, RQAssumption
  <2> QED BY <1>a, <2>2, <2>3, RQAssumption
<1>2. ExtractRb(w) = l
      BY <1>0, <1>1, ExtractHeader DEF BlockBytes
<1> DEFINE m == [len |-> l, val |-> v, pos |-> w]
<1>3. /\ write' = NormalizePos(w + l + HdrLen)
      /\ pend' = Append(pend, m)
      /\ ppc' = "idle" /\ room' = 0 /\ pmsg' = NoMsg
      /\ UNCHANGED <<buffer, read, cvars>>
      BY <1>b, <1>2 DEF ProduceFinish
<1>4. broken' = FALSE
  <2>1. broken' = (l = Broken) BY <1>b, <1>2 DEF ProduceFinish
  <2>2. l # Broken BY DEF Broken
  <2> QED BY <2>1, <2>2
<1>5. Start' = Start /\ Consuming' = Consuming
      BY <1>3 DEF Start, Consuming, cvars
<1>6. NoOverwriteStep
      BY <1>3 DEF NoOverwriteStep
<1>7. write' \in Pos /\ Dist(w, write') = HdrLen + l
  <2>1. HdrLen + l \in 0 .. BufferLen - 1 /\ w + l + HdrLen = w + (HdrLen + l)
        BY <1>0, <1>1, RQAssumption DEF Pos
  <2> QED BY <1>3, <2>1, NormalizeDist
<1>8. /\ Dist(Start, write') = Dist(Start, w) + HdrLen + l
      /\ Dist(read, write') = Dist(read, w) + HdrLen + l
      /\ Dist(Start, w) \in Nat /\ Dist(read, w) \in Nat
  <2>1. /\ Dist(Start, w) \in 0 .. BufferLen - 1 /\ Dist(read, w) \in 0 .. BufferLen - 1
        /\ Dist(Start, write') \in 0 .. BufferLen - 1
        /\ Dist(read, write') \in 0 .. BufferLen - 1
        /\ Dist(read, Start) \in 0 .. BufferLen - 1
        BY <1>0, <1>7, DistType
  <2>2. /\ Dist(Start, w) + Dist(w, write') \in {Dist(Start, write'), Dist(Start, write') + BufferLen}
        /\ Dist(read, w) + Dist(w, write') \in {Dist(read, write'), Dist(read, write') + BufferLen}
        BY <1>0, <1>7, DistSum
  <2>3. Dist(read, w) = Dist(read, Start) + Dist(Start, w)
        BY <1>b, StartSplits
  <2> QED BY <1>1, <1>7, <2>1, <2>2, <2>3, RQAssumption
<1>9. /\ m \in Blocks /\ pend' \in Seq(Blocks)
      /\ Len(pend') = Len(pend) + 1 /\ Len(pend) \in Nat
      /\ \A i \in 1 .. Len(pend) : pend'[i] = pend[i]
      /\ pend'[Len(pend) + 1] = m
      /\ pend' # <<>>
  <2>1. m \in Blocks BY DEF Blocks
  <2> QED BY <1>0, <1>3, <2>1, AppendProperties
<1>11. Layout'
  <2>1. \A i \in 1 .. Len(pend) : pend[i].pos \in Pos /\ pend[i].len \in Nat /\ pend[i].val \in Nat
    <3>1. \A i \in 1 .. Len(pend) : pend[i] \in Blocks BY <1>0, ElementOfSeq
    <3> QED BY <3>1 DEF Blocks
  <2>2. BlockEnd(m) = Dist(Start, write') /\ m.pos = w /\ m.len = l /\ m.val = v
        BY <1>8 DEF BlockEnd
  <2>3. pend'[1].pos = Start
    <3>1. CASE pend = <<>>
      <4>1. Len(pend) = 0 /\ Start = w BY <1>b, <3>1 DEF Layout
      <4> QED BY <1>9, <2>2, <4>1
    <3>2. CASE pend # <<>>
      <4>1. Len(pend) >= 1 BY <1>0, <3>2, EmptySeq
      <4> QED BY <1>9, <3>2, <4>1 DEF Layout
    <3> QED BY <3>1, <3>2
  <2>4. \A i \in 1 .. Len(pend') - 1 : Dist(Start, pend'[i + 1].pos) = BlockEnd(pend'[i])
    <3> SUFFICES ASSUME NEW i \in 1 .. Len(pend)
                 PROVE  Dist(Start, pend'[i + 1].pos) = BlockEnd(pend'[i])
        BY <1>9
    <3>1. BlockEnd(pend'[i]) = BlockEnd(pend[i])
          BY <1>9
    <3>2. CASE i = Len(pend)
      <4>1. BlockEnd(pend[i]) = Dist(Start, w)
            BY <1>b, <1>9, <3>2 DEF Layout
      <4> QED BY <1>9, <2>2, <3>1, <3>2, <4>1
    <3>3. CASE i # Len(pend)
      <4>1. i \in 1 .. Len(pend) - 1 /\ i + 1 \in 1 .. Len(pend)
            BY <1>9, <3>3
      <4> QED BY <1>9, <3>1, <4>1 DEF Layout
    <3> QED BY <3>2, <3>3
  <2>5. \A i \in 1 .. Len(pend') :
           /\ pend'[i].len > 0
           /\ BlockEnd(pend'[i]) <= Dist(Start, write')
           /\ BlockBytes(pend'[i].pos, pend'[i].len, pend'[i].val)
    <3> SUFFICES ASSUME NEW i \in 1 .. Len(pend) + 1
                 PROVE  /\ pend'[i].len > 0
                        /\ BlockEnd(pend'[i]) <= Dist(Start, write')
                        /\ BlockBytes(pend'[i].pos, pend'[i].len, pend'[i].val)
        BY <1>9
    <3>1. CASE i = Len(pend) + 1
      <4>1. pend'[i] = m BY <1>9, <3>1
      <4>2. BlockEnd(m) <= Dist(Start, write') BY <1>8, <2>2, RQAssumption
      <4> HIDE DEF m
      <4> QED BY <1>0, <1>1, <2>2, <4>1, <4>2
    <3>2. CASE i # Len(pend) + 1
      <4>1. i \in 1 .. Len(pend) /\ pend'[i] = pend[i] BY <1>9, <3>2
      <4>2. BlockEnd(pend'[i]) = BlockEnd(pend[i])
            BY <4>1
      <4>3. BlockEnd(pend[i]) <= Dist(Start, w) /\ BlockEnd(pend[i]) \in Int
        <5>1. Dist(Start, pend[i].pos) \in Int
              BY <1>0, <2>1, <4>1, DistType, RQAssumption
        <5>2. BlockEnd(pend[i]) \in Int
              BY <2>1, <4>1, <5>1, RQAssumption DEF BlockEnd
        <5> QED BY <1>b, <4>1, <5>2 DEF Layout
      <4>4. Dist(Start, w) <= Dist(Start, write')
            BY <1>8, RQAssumption
      <4> QED BY <1>8, <4>1, <4>2, <4>3, <4>4, RQAssumption DEF Layout
    <3> QED BY <3>1, <3>2
  <2>6. \A i \in 1 .. Len(pend') : BlockBytes(pend[i].pos, pend[i].len, pend[i].val)'
    <3>1. buffer' = buffer BY <1>3
    <3> QED BY <2>5, <3>1 DEF BlockBytes, HeaderBytes
  <2>7. BlockEnd(pend'[Len(pend')]) = Dist(Start, write')
        BY <1>9, <2>2
  <2>8. \A i, j \in 1 .. Len(pend') : i < j => BlockEnd(pend'[i]) <= Dist(Start, pend'[j].pos)
    <3> SUFFICES ASSUME NEW i \in 1 .. Len(pend), NEW j \in 1 .. Len(pend) + 1, i < j
                 PROVE  BlockEnd(pend'[i]) <= Dist(Start, pend'[j].pos)
        BY <1>9
    <3>1. pend'[i] = pend[i] BY <1>9
    <3>2. CASE j = Len(pend) + 1
      <4>1. pend'[j].pos = w BY <1>9, <3>2
      <4> QED BY <1>b, <3>1, <4>1 DEF Layout
    <3>3. CASE j # Len(pend) + 1
      <4>1. j \in 1 .. Len(pend) /\ pend'[j] = pend[j] BY <1>9, <3>3
      <4> QED BY <3>1, <4>1 DEF Layout
    <3> QED BY <3>2, <3>3
  <2> QED BY <1>5, <1>9, <2>3, <2>4, <2>5, <2>6, <2>7, <2>8 DEF Layout, BlockEnd
<1>12. ConsumerView'
  <2>1. Consuming => clen <= Dist(read, write')
        BY <1>8, <1>b, RQAssumption DEF ConsumerView, TypeOK
  <2>2. cpc = "peeked" => pend'[1] = pend[1]
    <3>1. cpc = "peeked" => Len(pend) >= 1
          BY <1>0, EmptySeq DEF ConsumerView
    <3> QED BY <1>9, <3>1
  <2> QED BY <1>3, <1>5, <1>9, <2>1, <2>2 DEF ConsumerView, PayloadBytes, cvars
<1>13. ProducerView'
      BY <1>3 DEF ProducerView
<1>14. TypeOK'
      BY <1>3, <1>4, <1>7, <1>9 DEF TypeOK, cvars, Messages, NoMsg
<1> QED BY <1>4, <1>6, <1>11, <1>12, <1>13, <1>14 DEF NeverBroken

-----------------------------------------------------------------------------
(* Every step of the consuming thread preserves the invariant *)

\* The chain does not change while Start, the bytes and write_ do not.
LEMMA LayoutFramed ==
    ASSUME IInv, UNCHANGED <<buffer, write, pend>>, Start' = Start
    PROVE  Layout'
BY DEF IInv, Layout, BlockEnd, BlockBytes, HeaderBytes

\* The block the consumer is about to read starts at read_.
LEMMA HeadBlock ==
    ASSUME IInv, ~Consuming, pend # <<>>
    PROVE  /\ pend[1] \in Blocks /\ Len(pend) \in Nat \ {0}
           /\ Start = read /\ pend[1].pos = read
           /\ pend[1].len > 0
           /\ HdrLen + pend[1].len <= Dist(read, write)
           /\ BlockBytes(read, pend[1].len, pend[1].val)
<1> USE DEF IInv
<1>1. pend[1] \in Blocks /\ Len(pend) \in Nat \ {0}
      BY EmptySeq, ElementOfSeq DEF TypeOK
<1>2. Start = read /\ pend[1].pos = read
      BY DEF Start, Layout
<1>3. /\ pend[1].len > 0 /\ BlockEnd(pend[1]) <= Dist(read, write)
      /\ BlockBytes(read, pend[1].len, pend[1].val)
      BY <1>1, <1>2 DEF Layout
<1>4. BlockEnd(pend[1]) = HdrLen + pend[1].len
  <2>1. Dist(read, read) = 0 BY DistZero DEF TypeOK
  <2> QED BY <1>1, <1>2, <2>1, RQAssumption DEF BlockEnd, Blocks
<1> QED BY <1>1, <1>2, <1>3, <1>4

\* A queue that is not empty holds a published message.
LEMMA SeeDataInv ==
    ASSUME IInv, SeeData
    PROVE  IInv'
<1> USE DEF IInv
<1>1. Consuming' = Consuming /\ ~Consuming /\ Start' = Start /\ Start = read
      BY DEF SeeData, Consuming, Start
<1>2. Layout' BY <1>1, LayoutFramed DEF SeeData
<1>3. pend # <<>>
  <2> SUFFICES ASSUME pend = <<>> PROVE FALSE OBVIOUS
  <2>1. read = write BY <1>1 DEF Layout
  <2>2. GetUsedLen(read, write) = 0
        BY <2>1, UsedIsDist, DistZero DEF TypeOK
  <2> QED BY <2>2 DEF SeeData
<1>4. TypeOK' BY DEF TypeOK, SeeData, pvars
<1>5. ConsumerView' BY <1>1, <1>3 DEF ConsumerView, SeeData
<1>6. ProducerView'
      BY DEF ProducerView, BlockBytes, HeaderBytes, SeeData, pvars
<1> QED BY <1>2, <1>4, <1>5, <1>6 DEF NeverBroken, SeeData

\* The header the consumer reads is sound, and its bytes are all there.
LEMMA GetConsumeLenInv ==
    ASSUME IInv, GetConsumeLen
    PROVE  IInv'
<1> USE DEF IInv
<1>1. Consuming' = Consuming /\ ~Consuming /\ Start' = Start /\ pend # <<>>
      BY DEF GetConsumeLen, Consuming, Start, ConsumerView
<1>2. Layout' BY <1>1, LayoutFramed DEF GetConsumeLen
<1>3. /\ pend[1].len \in Nat /\ pend[1].len > 0
      /\ HdrLen + pend[1].len <= Dist(read, write)
      /\ BlockBytes(read, pend[1].len, pend[1].val)
      BY <1>1, HeadBlock DEF Blocks
<1>4. ExtractRb(read) = pend[1].len
      BY <1>3, ExtractHeader DEF TypeOK, BlockBytes
<1>5. broken' = FALSE
  <2>1. ~(ExtractRb(read) = Broken) BY <1>3, <1>4 DEF Broken
  <2>2. ~(GetUsedLen(read, write) < ExtractRb(read) + HdrLen)
    <3>1. GetUsedLen(read, write) = Dist(read, write) /\ Dist(read, write) \in Nat
          BY UsedIsDist, DistType, RQAssumption DEF TypeOK
    <3> QED BY <1>3, <1>4, <3>1, RQAssumption
  <2> QED BY <2>1, <2>2 DEF GetConsumeLen
<1>6. clen' = pend[1].len BY <1>4 DEF GetConsumeLen
<1>7. TypeOK' BY <1>3, <1>5, <1>6 DEF TypeOK, GetConsumeLen, pvars
<1>8. ConsumerView' BY <1>1, <1>6 DEF ConsumerView, GetConsumeLen
<1>9. ProducerView'
      BY DEF ProducerView, BlockBytes, HeaderBytes, GetConsumeLen, pvars
<1> QED BY <1>2, <1>5, <1>7, <1>8, <1>9 DEF NeverBroken

\* Giving up on a message changes nothing.
LEMMA DeclineInv ==
    ASSUME IInv, Decline
    PROVE  IInv'
<1> USE DEF IInv
<1>1. ~Consuming' /\ Start' = Start
      BY DEF Decline, Consuming, Start
<1>2. Layout' BY <1>1, LayoutFramed DEF Decline
<1>3. TypeOK' BY DEF TypeOK, Decline, pvars
<1>4. ConsumerView' BY <1>1 DEF ConsumerView, Decline
<1>5. ProducerView'
      BY DEF ProducerView, BlockBytes, HeaderBytes, Decline, pvars
<1> QED BY <1>2, <1>3, <1>4, <1>5 DEF NeverBroken, Decline

\* Skipping a header takes the first block off the chain.
LEMMA SkipHeaderInv ==
    ASSUME IInv, NEW next \in {"payload", "skipping"}, SkipHeader(next)
    PROVE  IInv'
<1> USE DEF IInv
<1>0. /\ read \in Pos /\ write \in Pos /\ pend \in Seq(Blocks)
      BY DEF TypeOK
<1>1. ~Consuming /\ pend # <<>> /\ clen = pend[1].len
      BY DEF SkipHeader, Consuming, ConsumerView
<1>2. PICK l \in Nat, v \in Nat, r \in Pos :
          l = pend[1].len /\ v = pend[1].val /\ r = read
      BY <1>0, <1>1, HeadBlock DEF Blocks
<1>3. /\ Len(pend) \in Nat \ {0} /\ pend[1].pos = r /\ Start = r /\ l > 0
      /\ HdrLen + l <= Dist(r, write) /\ BlockBytes(r, l, v)
      BY <1>1, <1>2, HeadBlock
<1>4. /\ read' = NormalizePos(r + HdrLen) /\ clen' = l /\ cpc' = next
      /\ cur' = [len |-> l, val |-> v]
      /\ pend' = Tail(pend)
      /\ UNCHANGED <<buffer, write, pvars, got, broken>>
      BY <1>1, <1>2 DEF SkipHeader
<1>5. Dist(r, write) \in 0 .. BufferLen - 1 BY <1>0, DistType
<1>6. /\ read' \in Pos /\ Dist(r, read') = HdrLen
      /\ Dist(read', write) = Dist(r, write) - HdrLen
  <2>1. HdrLen \in 0 .. BufferLen - 1 BY <1>3, <1>5, RQAssumption
  <2>2. read' \in Pos /\ Dist(r, read') = HdrLen
        BY <1>4, <2>1, NormalizeDist
  <2>3. Dist(r, read') + Dist(read', write) \in {Dist(r, write), Dist(r, write) + BufferLen}
        BY <1>0, <2>2, DistSum
  <2>4. Dist(read', write) \in 0 .. BufferLen - 1 BY <1>0, <2>2, DistType
  <2> QED BY <1>3, <1>5, <2>2, <2>3, <2>4, RQAssumption
<1>7. Consuming' /\ Start' = NormalizePos(read' + l)
      BY <1>4 DEF Consuming, Start
<1>8. /\ Start' \in Pos /\ Dist(read', Start') = l /\ Dist(r, Start') = HdrLen + l
  <2>1. l \in 0 .. BufferLen - 1 BY <1>3, <1>5, RQAssumption
  <2>2. Start' \in Pos /\ Dist(read', Start') = l
        BY <1>6, <1>7, <2>1, NormalizeDist
  <2>3. Dist(r, read') + Dist(read', Start') \in {Dist(r, Start'), Dist(r, Start') + BufferLen}
        BY <1>6, <2>2, DistSum
  <2>4. Dist(r, Start') \in 0 .. BufferLen - 1 BY <2>2, DistType
  <2> QED BY <1>3, <1>5, <1>6, <2>2, <2>3, <2>4, RQAssumption
<1>9. \A x \in Pos : Dist(r, x) >= HdrLen + l =>
         Dist(Start', x) = Dist(r, x) - (HdrLen + l) /\ Dist(r, x) \in Int
  <2> SUFFICES ASSUME NEW x \in Pos, Dist(r, x) >= HdrLen + l
               PROVE  Dist(Start', x) = Dist(r, x) - (HdrLen + l) /\ Dist(r, x) \in Int
      OBVIOUS
  <2>1. Dist(r, Start') + Dist(Start', x) \in {Dist(r, x), Dist(r, x) + BufferLen}
        BY <1>8, DistSum
  <2>2. Dist(r, x) \in 0 .. BufferLen - 1 /\ Dist(Start', x) \in 0 .. BufferLen - 1
        BY <1>8, DistType
  <2> QED BY <1>8, <2>1, <2>2, RQAssumption
<1>10. BlockEnd(pend[1]) = HdrLen + l
  <2>1. Dist(r, r) = 0 BY DistZero
  <2> QED BY <1>2, <1>3, <2>1, RQAssumption DEF BlockEnd
<1>11. /\ pend' \in Seq(Blocks) /\ Len(pend') = Len(pend) - 1
       /\ \A i \in 1 .. Len(pend') : i + 1 \in 1 .. Len(pend) /\ pend'[i] = pend[i + 1]
  <2>1. pend' \in Seq(Blocks) /\ Len(pend') = Len(pend) - 1
        BY <1>0, <1>1, <1>4, HeadTailProperties
  <2>2. \A i \in 1 .. Len(pend') : i + 1 \in 1 .. Len(pend)
        BY <1>3, <2>1
  <2> QED BY <1>0, <1>1, <1>4, <2>1, <2>2, HeadTailProperties
<1>12. \A i \in 1 .. Len(pend') :
          /\ pend'[i].pos \in Pos /\ pend'[i].len \in Nat /\ pend'[i].val \in Nat
          /\ Dist(r, pend'[i].pos) >= HdrLen + l
          /\ Dist(r, pend'[i].pos) + HdrLen + pend'[i].len <= Dist(r, write)
  <2> SUFFICES ASSUME NEW i \in 1 .. Len(pend')
               PROVE  /\ pend'[i].pos \in Pos /\ pend'[i].len \in Nat /\ pend'[i].val \in Nat
                      /\ Dist(r, pend'[i].pos) >= HdrLen + l
                      /\ Dist(r, pend'[i].pos) + HdrLen + pend'[i].len <= Dist(r, write)
      OBVIOUS
  <2>1. pend'[i] \in Blocks BY <1>11, ElementOfSeq
  <2>2. i + 1 \in 1 .. Len(pend) /\ 1 \in 1 .. Len(pend) /\ 1 < i + 1 /\ pend'[i] = pend[i + 1]
        BY <1>3, <1>11
  <2>3. BlockEnd(pend[1]) <= Dist(Start, pend[i + 1].pos) BY <2>2 DEF Layout
  <2>4. BlockEnd(pend[i + 1]) <= Dist(Start, write) BY <2>2 DEF Layout
  <2>5. Dist(r, pend'[i].pos) \in 0 .. BufferLen - 1
        BY <2>1, DistType DEF Blocks
  <2>6. Dist(r, pend'[i].pos) >= HdrLen + l
        BY <1>3, <1>10, <2>2, <2>3, <2>5, RQAssumption
  <2>7. Dist(r, pend'[i].pos) + HdrLen + pend'[i].len <= Dist(r, write)
        BY <1>3, <2>2, <2>4 DEF BlockEnd
  <2> QED BY <2>1, <2>6, <2>7 DEF Blocks
<1>13. \A i \in 1 .. Len(pend') :
          Dist(Start', pend'[i].pos) = Dist(Start, pend'[i].pos) - (HdrLen + l)
          /\ Dist(Start, pend'[i].pos) \in Int
      BY <1>3, <1>9, <1>12
<1>14. /\ Dist(Start', write) = Dist(Start, write) - (HdrLen + l)
       /\ Dist(Start, write) \in Int
      BY <1>0, <1>3, <1>9
<1>15. Layout'
  <2>1. \A i \in 1 .. Len(pend') :
           /\ Dist(Start', pend'[i].pos) + HdrLen + pend'[i].len
                 = BlockEnd(pend[i + 1]) - (HdrLen + l)
           /\ BlockEnd(pend[i + 1]) \in Int
    <3> SUFFICES ASSUME NEW i \in 1 .. Len(pend')
                 PROVE  /\ Dist(Start', pend'[i].pos) + HdrLen + pend'[i].len
                              = BlockEnd(pend[i + 1]) - (HdrLen + l)
                        /\ BlockEnd(pend[i + 1]) \in Int
        OBVIOUS
    <3>1. BlockEnd(pend[i + 1]) = Dist(Start, pend'[i].pos) + HdrLen + pend'[i].len
          BY <1>11 DEF BlockEnd
    <3>2. Dist(Start', pend'[i].pos) = Dist(Start, pend'[i].pos) - (HdrLen + l)
          BY <1>13
    <3>3. Dist(Start, pend'[i].pos) \in Int /\ pend'[i].len \in Nat
          BY <1>12, <1>13
    <3>4. HdrLen \in Int /\ l \in Int /\ HdrLen + l \in Int BY <1>2, RQAssumption
    <3>5. Dist(Start', pend'[i].pos) \in Int /\ BlockEnd(pend[i + 1]) \in Int
          BY <3>1, <3>2, <3>3, <3>4, RQAssumption
    <3>6. Dist(Start', pend'[i].pos) + HdrLen + pend'[i].len
             = BlockEnd(pend[i + 1]) - (HdrLen + l)
    <4>1. PICK a, b, n, e, t : /\ a = Dist(Start', pend'[i].pos) /\ b = Dist(Start, pend'[i].pos)
                               /\ n = pend'[i].len /\ e = BlockEnd(pend[i + 1]) /\ t = HdrLen + l
          OBVIOUS
    <4>2. e = b + HdrLen + n /\ a = b - t BY <3>1, <3>2, <4>1
    <4>3. b \in Int /\ n \in Int /\ HdrLen \in Int /\ t \in Int BY <3>3, <3>4, <4>1
    <4>4. a + HdrLen + n = e - t BY <4>2, <4>3
    <4> QED BY <4>1, <4>4
    <3> QED BY <3>5, <3>6
  <2>2. CASE pend' = <<>>
    <3>1. Len(pend) = 1 BY <1>3, <1>11, <2>2
    <3>2. Dist(r, write) = HdrLen + l BY <1>3, <1>1, <1>10, <3>1 DEF Layout
    <3>3. Dist(Start', write) = 0 BY <1>3, <1>14, <3>2, RQAssumption
    <3>4. Start' = write BY <1>0, <1>8, <3>3, DistZero
    <3> QED BY <1>4, <1>11, <2>2, <3>1, <3>4 DEF Layout
  <2>3. CASE pend' # <<>>
    <3>1. Len(pend') \in Nat \ {0} BY <1>11, <2>3, EmptySeq
    <3>2. pend'[1].pos = Start'
      <4>1. pend'[1] = pend[2] /\ 1 \in 1 .. Len(pend) - 1 /\ 1 \in 1 .. Len(pend')
            BY <1>3, <1>11, <3>1
      <4>2. Dist(Start, pend[1 + 1].pos) = BlockEnd(pend[1])
            BY <4>1 DEF Layout
      <4>3. Dist(Start', pend'[1].pos) = 0
            BY <1>10, <1>13, <4>1, <4>2, RQAssumption
      <4> QED BY <1>8, <1>12, <4>1, <4>3, DistZero
    <3>3. Dist(Start', pend'[Len(pend')].pos) + HdrLen + pend'[Len(pend')].len = Dist(Start', write)
      <4>1. BlockEnd(pend[Len(pend)]) = Dist(Start, write) BY <1>1 DEF Layout
      <4>2. Len(pend') \in 1 .. Len(pend') /\ Len(pend') + 1 = Len(pend)
            BY <1>3, <1>11, <3>1
      <4> QED BY <1>14, <2>1, <4>1, <4>2
    <3>4. \A i \in 1 .. Len(pend') - 1 :
             Dist(Start', pend'[i + 1].pos) = Dist(Start', pend'[i].pos) + HdrLen + pend'[i].len
      <4> SUFFICES ASSUME NEW i \in 1 .. Len(pend') - 1
                   PROVE  Dist(Start', pend'[i + 1].pos)
                             = Dist(Start', pend'[i].pos) + HdrLen + pend'[i].len
          OBVIOUS
      <4>1. i \in 1 .. Len(pend') /\ i + 1 \in 1 .. Len(pend') /\ i + 1 \in 1 .. Len(pend) - 1
            BY <1>3, <1>11, <3>1
      <4>2. Dist(Start, pend[(i + 1) + 1].pos) = BlockEnd(pend[i + 1])
            BY <4>1 DEF Layout
      <4>3. pend'[i + 1] = pend[(i + 1) + 1] BY <1>11, <4>1
      <4> QED BY <1>13, <2>1, <4>1, <4>2, <4>3
    <3>5. \A i, j \in 1 .. Len(pend') : i < j =>
             Dist(Start', pend'[i].pos) + HdrLen + pend'[i].len <= Dist(Start', pend'[j].pos)
      <4> SUFFICES ASSUME NEW i \in 1 .. Len(pend'), NEW j \in 1 .. Len(pend'), i < j
                   PROVE  Dist(Start', pend'[i].pos) + HdrLen + pend'[i].len
                             <= Dist(Start', pend'[j].pos)
          OBVIOUS
      <4>1. /\ i + 1 \in 1 .. Len(pend) /\ j + 1 \in 1 .. Len(pend) /\ i + 1 < j + 1
            /\ pend'[j] = pend[j + 1]
            BY <1>3, <1>11
      <4>2. BlockEnd(pend[i + 1]) <= Dist(Start, pend[j + 1].pos) BY <4>1 DEF Layout
      <4>3. Dist(Start', pend'[j].pos) = Dist(Start, pend[j + 1].pos) - (HdrLen + l)
            /\ Dist(Start, pend[j + 1].pos) \in Int
            BY <1>13, <4>1
      <4>4. Dist(Start', pend'[i].pos) + HdrLen + pend'[i].len
                = BlockEnd(pend[i + 1]) - (HdrLen + l)
            /\ BlockEnd(pend[i + 1]) \in Int
            BY <2>1
      <4> QED BY <1>2, <4>2, <4>3, <4>4, RQAssumption
    <3>6. \A i \in 1 .. Len(pend') :
             /\ pend'[i].len > 0
             /\ Dist(Start', pend'[i].pos) + HdrLen + pend'[i].len <= Dist(Start', write)
             /\ BlockBytes(pend'[i].pos, pend'[i].len, pend'[i].val)
      <4> SUFFICES ASSUME NEW i \in 1 .. Len(pend')
                   PROVE  /\ pend'[i].len > 0
                          /\ Dist(Start', pend'[i].pos) + HdrLen + pend'[i].len <= Dist(Start', write)
                          /\ BlockBytes(pend'[i].pos, pend'[i].len, pend'[i].val)
          OBVIOUS
      <4>1. i + 1 \in 1 .. Len(pend) /\ pend'[i] = pend[i + 1] BY <1>11
      <4>2. BlockEnd(pend[i + 1]) <= Dist(Start, write) BY <4>1 DEF Layout
      <4>3. Dist(Start', pend'[i].pos) + HdrLen + pend'[i].len <= Dist(Start', write)
            BY <1>2, <1>14, <2>1, <4>2, RQAssumption
      <4> QED BY <4>1, <4>3 DEF Layout
    <3>7. \A i \in 1 .. Len(pend') : BlockBytes(pend[i].pos, pend[i].len, pend[i].val)'
      <4>1. buffer' = buffer BY <1>4
      <4> QED BY <3>6, <4>1 DEF BlockBytes, HeaderBytes
    <3>8. write' = write BY <1>4
    <3> QED BY <2>3, <3>2, <3>3, <3>4, <3>5, <3>6, <3>7, <3>8 DEF Layout, BlockEnd
  <2> QED BY <2>2, <2>3
<1>16. ConsumerView'
  <2>1. clen' = cur'.len /\ clen' > 0 /\ cur'.val = v BY <1>3, <1>4
  <2>2. clen' <= Dist(read', write)
        BY <1>3, <1>4, <1>5, <1>6, RQAssumption
  <2>3. \A p \in Pos : Dist(read', p) < l => buffer[p] = Pay(v, Dist(read', p))
    <3> SUFFICES ASSUME NEW p \in Pos, Dist(read', p) < l
                 PROVE  buffer[p] = Pay(v, Dist(read', p))
        OBVIOUS
    <3>1. Dist(r, read') + Dist(read', p) \in {Dist(r, p), Dist(r, p) + BufferLen}
          BY <1>6, DistSum
    <3>2. Dist(r, p) \in 0 .. BufferLen - 1 /\ Dist(read', p) \in 0 .. BufferLen - 1
          BY <1>6, DistType
    <3>3. Dist(r, p) - HdrLen = Dist(read', p)
          BY <1>3, <1>5, <1>6, <3>1, <3>2, RQAssumption
    <3>4. Dist(r, p) - HdrLen \in 0 .. l - 1
          BY <3>2, <3>3, RQAssumption
    <3> QED BY <1>3, <3>3, <3>4 DEF BlockBytes
  <2>4. cpc' \in {"payload", "skipping"} BY <1>4
  <2> QED BY <1>4, <1>7, <2>1, <2>2, <2>3, <2>4 DEF ConsumerView, PayloadBytes
<1>17. ProducerView'
  <2>1. ppc # "idle" => Dist(read', write) + HdrLen + pmsg.len + room < BufferLen
    <3>1. pmsg.len \in Nat /\ room \in Nat BY DEF TypeOK, Messages
    <3> QED BY <1>2, <1>5, <1>6, <3>1, RQAssumption DEF ProducerView
  <2> QED BY <1>4, <2>1 DEF ProducerView, BlockBytes, HeaderBytes, pvars
<1>18. TypeOK'
  <2>1. cur' \in Messages BY <1>4 DEF Messages
  <2> QED BY <1>4, <1>6, <1>11, <2>1 DEF TypeOK, pvars
<1> QED BY <1>4, <1>15, <1>16, <1>17, <1>18 DEF NeverBroken

\* The memcpy of consume_bytes() copies the payload of the current message.
LEMMA ConsumeBytesInv ==
    ASSUME IInv, ConsumeBytes
    PROVE  IInv'
<1> USE DEF IInv
<1>1. Consuming /\ Consuming' /\ Start' = Start
      BY DEF ConsumeBytes, Consuming, Start
<1>2. Layout' BY <1>1, LayoutFramed DEF ConsumeBytes
<1>3. got' = cur
  <2>1. clen \in Nat /\ clen = cur.len /\ clen > 0 /\ cur \in Messages
        /\ clen <= Dist(read, write) /\ PayloadBytes(read, cur.val, clen)
        BY <1>1 DEF ConsumerView, TypeOK
  <2>2. clen \in 1 .. BufferLen - 1
        BY <2>1, DistType, RQAssumption DEF TypeOK
  <2>3. got' = [len |-> clen, val |-> cur.val]
        BY <2>1, <2>2, ExtractPayload DEF ConsumeBytes, TypeOK, Messages
  <2> QED BY <2>1, <2>3 DEF Messages
<1>4. TypeOK' BY <1>3 DEF TypeOK, ConsumeBytes, pvars
<1>5. ConsumerView'
      BY <1>1, <1>3 DEF ConsumerView, PayloadBytes, ConsumeBytes
<1>6. ProducerView'
      BY DEF ProducerView, BlockBytes, HeaderBytes, ConsumeBytes, pvars
<1> QED BY <1>2, <1>4, <1>5, <1>6 DEF NeverBroken, ConsumeBytes

\* Giving the payload back moves read_ to where the next block starts.
LEMMA ReleaseBytesInv ==
    ASSUME IInv, ReleaseBytes
    PROVE  IInv'
<1> USE DEF IInv
<1>1. Consuming /\ ~Consuming' /\ Start' = Start /\ read' = Start
      BY DEF ReleaseBytes, Consuming, Start
<1>2. Layout' BY <1>1, LayoutFramed DEF ReleaseBytes
<1>3. read' \in Pos /\ Dist(read', write) <= Dist(read, write)
      /\ Dist(read, write) \in Int /\ Dist(read', write) \in Int
  <2>1. read' \in Pos BY <1>1, StartSplits
  <2>2. /\ Dist(read, read') \in 0 .. BufferLen - 1
        /\ Dist(read', write) \in 0 .. BufferLen - 1
        BY <2>1, DistType DEF TypeOK
  <2>3. Dist(read, write) = Dist(read, read') + Dist(read', write)
        BY <1>1, StartSplits
  <2> QED BY <2>1, <2>2, <2>3, RQAssumption
<1>4. TypeOK' BY <1>3 DEF TypeOK, ReleaseBytes, pvars, Messages, NoMsg
<1>5. ConsumerView' BY <1>1 DEF ConsumerView, ReleaseBytes
<1>6. ProducerView'
  <2>1. ppc # "idle" => Dist(read', write) + HdrLen + pmsg.len + room < BufferLen
    <3>1. pmsg.len \in Nat /\ room \in Nat BY DEF TypeOK, Messages
    <3> QED BY <1>3, <3>1, RQAssumption DEF ProducerView
  <2> QED BY <2>1 DEF ProducerView, BlockBytes, HeaderBytes, ReleaseBytes, pvars
<1> QED BY <1>2, <1>4, <1>5, <1>6 DEF NeverBroken, ReleaseBytes

\* clear() between two operations leaves an empty queue.
LEMMA ClearInv ==
    ASSUME IInv, Clear
    PROVE  IInv'
<1> USE DEF IInv, Clear
<1>1. ~Consuming' /\ Start' = 0 BY DEF Consuming, Start, cvars
<1>2. Layout' BY <1>1 DEF Layout
<1>3. TypeOK' BY RQAssumption DEF TypeOK, pvars, cvars, Pos
<1>4. ConsumerView' BY <1>1 DEF ConsumerView, cvars
<1>5. ProducerView' BY DEF ProducerView, pvars
<1> QED BY <1>2, <1>3, <1>4, <1>5 DEF NeverBroken

-----------------------------------------------------------------------------
(* The theorems *)

\* The initial queue satisfies the invariant.
LEMMA InitInv ==
    ASSUME Init
    PROVE  IInv
<1> USE DEF Init
<1>1. TypeOK
  <2>1. Junk \in Cells BY DEF Junk, Cells
  <2>2. 0 \in Pos BY RQAssumption DEF Pos
  <2>3. <<>> \in Seq(Blocks) BY EmptySeq
  <2> QED BY <2>1, <2>2, <2>3 DEF TypeOK, Messages, NoMsg
<1>2. ~Consuming /\ Start = write BY DEF Consuming, Start
<1>3. Layout BY <1>2 DEF Layout
<1>4. ConsumerView BY <1>2 DEF ConsumerView
<1>5. ProducerView BY DEF ProducerView
<1> QED BY <1>1, <1>3, <1>4, <1>5 DEF IInv, NeverBroken

\* Every step of either thread preserves the invariant and writes no byte
\* that is the consumer's.
LEMMA NextInv ==
    ASSUME IInv, [Next]_vars
    PROVE  IInv' /\ [NoOverwriteStep]_vars
<1>1. CASE UNCHANGED vars
  <2>1. IInv'
        BY <1>1 DEF vars, IInv, TypeOK, NeverBroken, Layout, BlockEnd, Start, Consuming,
                    BlockBytes, HeaderBytes, PayloadBytes, ConsumerView, ProducerView
  <2> QED BY <1>1, <2>1
<1>2. CASE Next
  <2>1. ASSUME Producer PROVE IInv' /\ NoOverwriteStep
        BY <2>1, ReserveInv, ProduceInv, AppendInv, ProducePayloadInv, FinishInv DEF Producer
  <2>2. ASSUME Consumer \/ Clear PROVE IInv' /\ NoOverwriteStep
    <3>1. IInv'
          BY <2>2, SeeDataInv, GetConsumeLenInv, DeclineInv, SkipHeaderInv, ConsumeBytesInv,
             ReleaseBytesInv, ClearInv DEF Consumer
    <3>2. buffer' = buffer
          BY <2>2 DEF Consumer, SeeData, GetConsumeLen, Decline, SkipHeader, ConsumeBytes,
                      ReleaseBytes, Clear
    <3> QED BY <3>1, <3>2 DEF NoOverwriteStep
  <2> QED BY <1>2, <2>1, <2>2 DEF Next
<1> QED BY <1>1, <1>2

\* The invariant is inductive: it holds in every reachable state.
THEOREM Invariance == Spec => []IInv
<1>1. Init => IInv BY InitInv
<1>2. IInv /\ [Next]_vars => IInv' BY NextInv
<1> QED BY <1>1, <1>2, PTL DEF Spec

\* Every variable of the queue keeps its type.
THEOREM TypeCorrect == Spec => []TypeOK
<1>1. IInv => TypeOK BY DEF IInv
<1> QED BY <1>1, Invariance, PTL

\* No interleaving of the two threads reaches an abort() of the queue.
THEOREM NeverAborts == Spec => []NeverBroken
<1>1. IInv => NeverBroken BY DEF IInv
<1> QED BY <1>1, Invariance, PTL

\* The bytes between read_ and write_ are exactly the published blocks.
THEOREM LayoutCorrect == Spec => []Layout
<1>1. IInv => Layout BY DEF IInv
<1> QED BY <1>1, Invariance, PTL

\* A reserved block always still fits when it is appended.
THEOREM ReservationsHold == Spec => []ReservationHolds
<1>1. IInv => ReservationHolds
  <2> SUFFICES ASSUME IInv, ppc = "open"
               PROVE  GetFreeLen(read, write) >= HdrLen + pmsg.len + room
      BY DEF ReservationHolds
  <2>1. GetFreeLen(read, write) = BufferLen - 1 - Dist(read, write)
        /\ Dist(read, write) \in Int /\ pmsg.len \in Nat /\ room \in Nat
        BY UsedIsDist, DistType, RQAssumption DEF IInv, TypeOK, Messages
  <2>2. Dist(read, write) + HdrLen + pmsg.len + room < BufferLen
        BY DEF IInv, ProducerView
  <2> QED BY <2>1, <2>2, RQAssumption
<1> QED BY <1>1, Invariance, PTL

\* What consume() copies out is a message as it was published.
THEOREM NothingIsTorn == Spec => []NothingTorn
<1>1. IInv => NothingTorn BY DEF IInv, ConsumerView, NothingTorn
<1> QED BY <1>1, Invariance, PTL

\* The three together: no abort(), reservations that hold, whole blocks.
THEOREM BlocksStayWhole == Spec => []BlocksWhole
<1>1. NeverBroken /\ ReservationHolds /\ NothingTorn => BlocksWhole BY DEF BlocksWhole
<1> QED BY <1>1, NeverAborts, ReservationsHold, NothingIsTorn, PTL

\* No step of either thread writes an unread byte.
THEOREM NoOverwriting == Spec => NoOverwrite
<1>1. IInv /\ [Next]_vars => [NoOverwriteStep]_vars BY NextInv
<1> QED BY <1>1, Invariance, PTL DEF Spec, NoOverwrite

-----------------------------------------------------------------------------
(* The queue implements a FIFO of messages (safety) *)

\* The messages of the chain, and how the chain's steps act on them.
LEMMA PayloadsType ==
    ASSUME NEW s \in Seq(Blocks)
    PROVE  /\ Payloads(s) \in Seq(Messages) /\ Len(Payloads(s)) = Len(s)
           /\ \A i \in 1 .. Len(s) : Payloads(s)[i] = [len |-> s[i].len, val |-> s[i].val]
<1>1. Len(s) \in Nat BY LenProperties
<1>2. \A i \in 1 .. Len(s) : [len |-> s[i].len, val |-> s[i].val] \in Messages
  <2>1. \A i \in 1 .. Len(s) : s[i] \in Blocks BY ElementOfSeq
  <2> QED BY <2>1 DEF Blocks, Messages
<1>3. Payloads(s) \in [1 .. Len(s) -> Messages]
      BY <1>2 DEF Payloads
<1>4. Payloads(s) \in Seq(Messages)
      BY <1>1, <1>3, SeqDef
<1> QED BY <1>1, <1>4, LenProperties DEF Payloads

\* Publishing one more block appends its message to the queue.
LEMMA PayloadsAppend ==
    ASSUME NEW s \in Seq(Blocks), NEW m \in Blocks
    PROVE  Payloads(Append(s, m)) = Append(Payloads(s), [len |-> m.len, val |-> m.val])
<1> DEFINE x == [len |-> m.len, val |-> m.val]
           lhs == Payloads(Append(s, m))
           rhs == Append(Payloads(s), x)
<1>1. x \in Messages BY DEF Blocks, Messages
<1>2. /\ Append(s, m) \in Seq(Blocks) /\ Len(Append(s, m)) = Len(s) + 1
      /\ \A i \in 1 .. Len(s) : Append(s, m)[i] = s[i]
      /\ Append(s, m)[Len(s) + 1] = m
      BY AppendProperties
<1>3. lhs \in Seq(Messages) /\ Len(lhs) = Len(s) + 1
      BY <1>2, PayloadsType
<1>4. /\ rhs \in Seq(Messages) /\ Len(rhs) = Len(s) + 1
      /\ \A i \in 1 .. Len(s) : rhs[i] = Payloads(s)[i]
      /\ rhs[Len(s) + 1] = x
      BY <1>1, PayloadsType, AppendProperties
<1>5. Len(s) \in Nat BY LenProperties
<1>6. \A i \in 1 .. Len(lhs) : lhs[i] = rhs[i]
  <2> SUFFICES ASSUME NEW i \in 1 .. Len(s) + 1 PROVE lhs[i] = rhs[i]
      BY <1>3
  <2>1. lhs[i] = [len |-> Append(s, m)[i].len, val |-> Append(s, m)[i].val]
        BY <1>2, PayloadsType
  <2>2. CASE i = Len(s) + 1 BY <1>2, <1>4, <2>1, <2>2
  <2>3. CASE i # Len(s) + 1
    <3>1. i \in 1 .. Len(s) BY <1>5, <2>3
    <3>2. Payloads(s)[i] = [len |-> s[i].len, val |-> s[i].val]
          BY <3>1, PayloadsType
    <3> QED BY <1>2, <1>4, <2>1, <3>1, <3>2
  <2> QED BY <2>2, <2>3
<1> HIDE DEF lhs, rhs
<1>7. lhs = rhs BY <1>3, <1>4, <1>6, SeqEqual
<1> QED BY <1>7 DEF lhs, rhs

\* Skipping the first header takes the first message from the queue.
LEMMA PayloadsTail ==
    ASSUME NEW s \in Seq(Blocks), s # <<>>
    PROVE  /\ Payloads(Tail(s)) = Tail(Payloads(s))
           /\ Payloads(s) # <<>>
           /\ Head(Payloads(s)) = [len |-> s[1].len, val |-> s[1].val]
           /\ Payloads(s) = <<[len |-> s[1].len, val |-> s[1].val]>> \o Payloads(Tail(s))
<1> DEFINE p == Payloads(s)
           t == Payloads(Tail(s))
           x == [len |-> s[1].len, val |-> s[1].val]
<1>1. /\ Tail(s) \in Seq(Blocks) /\ Len(Tail(s)) = Len(s) - 1
      /\ \A i \in 1 .. Len(Tail(s)) : Tail(s)[i] = s[i + 1]
      BY HeadTailProperties
<1>2. Len(s) \in Nat \ {0} BY EmptySeq
<1>3. /\ p \in Seq(Messages) /\ Len(p) = Len(s)
      /\ \A i \in 1 .. Len(s) : p[i] = [len |-> s[i].len, val |-> s[i].val]
      BY PayloadsType
<1>4. /\ t \in Seq(Messages) /\ Len(t) = Len(s) - 1
      /\ \A i \in 1 .. Len(s) - 1 : t[i] = p[i + 1]
  <2>1. /\ t \in Seq(Messages) /\ Len(t) = Len(s) - 1
        /\ \A i \in 1 .. Len(s) - 1 : t[i] = [len |-> Tail(s)[i].len, val |-> Tail(s)[i].val]
        BY <1>1, PayloadsType
  <2>2. \A i \in 1 .. Len(s) - 1 : i + 1 \in 1 .. Len(s) /\ Tail(s)[i] = s[i + 1]
        BY <1>1, <1>2
  <2> QED BY <1>3, <2>1, <2>2
<1> HIDE DEF p, t
<1>5. p # <<>>
      BY <1>2, <1>3, EmptySeq
<1>6. /\ Tail(p) \in Seq(Messages) /\ Len(Tail(p)) = Len(s) - 1
      /\ \A i \in 1 .. Len(s) - 1 : Tail(p)[i] = p[i + 1]
      BY <1>3, <1>5, HeadTailProperties
<1>7. t = Tail(p)
      BY <1>4, <1>6, SeqEqual
<1>8. p[1] = x /\ x \in Messages
  <2>1. p[1] = x BY <1>2, <1>3
  <2>2. p[1] \in Messages BY <1>2, <1>3, ElementOfSeq
  <2> QED BY <2>1, <2>2
<1> HIDE DEF x
<1>9. p = <<x>> \o t
  <2>1. <<x>> \in Seq(Messages) /\ Len(<<x>>) = 1 /\ <<x>>[1] = x BY <1>8
  <2>2. /\ <<x>> \o t \in Seq(Messages) /\ Len(<<x>> \o t) = Len(s)
        /\ \A i \in 1 .. Len(s) : (<<x>> \o t)[i] = IF i <= 1 THEN <<x>>[i] ELSE t[i - 1]
        BY <1>2, <1>4, <2>1, ConcatProperties
  <2>3. \A i \in 1 .. Len(s) : (<<x>> \o t)[i] = p[i]
    <3> SUFFICES ASSUME NEW i \in 1 .. Len(s) PROVE (<<x>> \o t)[i] = p[i]
        OBVIOUS
    <3>1. CASE i = 1 BY <1>8, <2>1, <2>2, <3>1
    <3>2. CASE i # 1
      <4>1. i - 1 \in 1 .. Len(s) - 1 /\ (i - 1) + 1 = i /\ ~(i <= 1) BY <1>2, <3>2
      <4> QED BY <1>4, <2>2, <4>1
    <3> QED BY <3>1, <3>2
  <2> QED BY <1>3, <2>2, <2>3, SeqEqual
<1>10. Head(p) = x BY <1>5, <1>8
<1> QED BY <1>5, <1>7, <1>9, <1>10 DEF p, t, x

\* Publishing a block puts one message into the FIFO.
LEMMA FinishPuts ==
    ASSUME IInv, ProduceFinish
    PROVE  Fifo!Next
<1> USE DEF IInv
<1>1. /\ pend \in Seq(Blocks) /\ cur \in Messages
      /\ pmsg.len \in Nat /\ pmsg.val \in Nat /\ room \in Nat /\ write \in Pos
      BY DEF TypeOK, Messages
<1> DEFINE m == [len |-> pmsg.len, val |-> pmsg.val, pos |-> write]
           x == [len |-> pmsg.len, val |-> pmsg.val]
<1>2. /\ pend' = Append(pend, m) /\ UNCHANGED <<cpc, cur, got>>
      BY DEF ProduceFinish, cvars
<1>3. m \in Blocks /\ x \in Messages BY <1>1 DEF Blocks, Messages
<1>4. Payloads(pend') = Append(Payloads(pend), x)
      BY <1>1, <1>2, <1>3, PayloadsAppend
<1>5. x \in [len : 1 .. BufferLen, val : Vals]
  <2>1. pmsg.val \in Vals /\ pmsg.len > 0
        /\ Dist(read, write) + HdrLen + pmsg.len + room < BufferLen
        BY DEF ProducerView, ProduceFinish
  <2>2. Dist(read, write) \in Nat BY DistType, RQAssumption DEF TypeOK
  <2>3. pmsg.len \in 1 .. BufferLen BY <1>1, <2>1, <2>2, RQAssumption
  <2> QED BY <2>1, <2>3
<1>6. Payloads(pend) \in Seq(Messages) BY <1>1, PayloadsType
<1> HIDE DEF x, m
<1>7. Queue' = Append(Queue, x)
  <2>1. CASE cpc = "payload"
    <3>1. Queue = <<cur>> \o Payloads(pend) /\ Queue' = <<cur>> \o Append(Payloads(pend), x)
          BY <1>2, <1>4, <2>1 DEF Queue
    <3>2. Append(Payloads(pend), x) = Payloads(pend) \o <<x>>
          BY <1>3, <1>6, AppendIsConcat
    <3>3. <<cur>> \in Seq(Messages) /\ <<x>> \in Seq(Messages)
          BY <1>1, <1>3
    <3>4. (<<cur>> \o Payloads(pend)) \o <<x>> = <<cur>> \o (Payloads(pend) \o <<x>>)
          BY <1>6, <3>3, ConcatAssociative
    <3>5. <<cur>> \o Payloads(pend) \in Seq(Messages)
          BY <1>6, <3>3, ConcatProperties
    <3>6. Append(<<cur>> \o Payloads(pend), x) = (<<cur>> \o Payloads(pend)) \o <<x>>
          BY <1>3, <3>5, AppendIsConcat
    <3> QED BY <3>1, <3>2, <3>4, <3>6
  <2>2. CASE cpc # "payload" BY <1>2, <1>4, <2>2 DEF Queue
  <2> QED BY <2>1, <2>2
<1> QED BY <1>2, <1>5, <1>7 DEF Fifo!Next, Fifo!Put

\* A skipped header keeps its message for the copy, or drops it.
LEMMA SkipHeaderMaps ==
    ASSUME IInv, NEW next \in {"payload", "skipping"}, SkipHeader(next)
    PROVE  Fifo!Next \/ UNCHANGED Fifo!vars
<1> USE DEF IInv
<1>1. ~Consuming /\ pend # <<>> /\ cpc # "payload" /\ pend \in Seq(Blocks)
      BY DEF SkipHeader, Consuming, ConsumerView, TypeOK
<1>2. /\ cur' = [len |-> pend[1].len, val |-> pend[1].val]
      /\ pend' = Tail(pend) /\ cpc' = next /\ got' = got
      BY <1>1 DEF SkipHeader
<1>3. Queue = Payloads(pend) BY <1>1 DEF Queue
<1>4. CASE next = "payload"
  <2>1. Queue' = <<cur'>> \o Payloads(pend') BY <1>2, <1>4 DEF Queue
  <2>2. Queue' = Queue BY <1>1, <1>2, <1>3, <2>1, PayloadsTail
  <2> QED BY <1>2, <2>2 DEF Fifo!vars
<1>5. CASE next = "skipping"
  <2>1. Queue' = Payloads(pend') BY <1>2, <1>5 DEF Queue
  <2>2. Queue' = Tail(Queue) /\ Queue # <<>>
        BY <1>1, <1>2, <1>3, <2>1, PayloadsTail
  <2> QED BY <1>2, <2>2 DEF Fifo!Next, Fifo!Drop
<1> QED BY <1>4, <1>5

\* Copying the bytes out takes the oldest message.
LEMMA ConsumeTakes ==
    ASSUME IInv, ConsumeBytes
    PROVE  Fifo!Next
<1> USE DEF IInv
<1>1. /\ cpc = "payload" /\ cpc' = "copied" /\ UNCHANGED <<pend, cur>>
      /\ pend \in Seq(Blocks) /\ cur \in Messages
      BY DEF ConsumeBytes, TypeOK
<1>2. got' = cur
      BY <1>1, ConsumeBytesInv DEF ConsumerView
<1>3. Queue = <<cur>> \o Payloads(pend) /\ Queue' = Payloads(pend)
      BY <1>1 DEF Queue
<1>4. Payloads(pend) \in Seq(Messages) BY <1>1, PayloadsType
<1> DEFINE p == Payloads(pend)
<1> HIDE DEF p
<1>5. ASSUME NEW s \in Seq(Messages)
      PROVE  <<cur>> \o s # <<>> /\ Head(<<cur>> \o s) = cur /\ Tail(<<cur>> \o s) = s
  <2> DEFINE c == <<cur>> \o s
  <2>1. <<cur>> \in Seq(Messages) /\ Len(<<cur>>) = 1 /\ <<cur>>[1] = cur BY <1>1
  <2>2. Len(s) \in Nat BY LenProperties
  <2>3. /\ c \in Seq(Messages) /\ Len(c) = 1 + Len(s)
        /\ \A i \in 1 .. 1 + Len(s) : c[i] = IF i <= 1 THEN <<cur>>[i] ELSE s[i - 1]
        BY <2>1, ConcatProperties
  <2> HIDE DEF c
  <2>4. c # <<>> BY <2>2, <2>3, EmptySeq
  <2>5. Head(c) = cur BY <2>1, <2>2, <2>3, <2>4
  <2>6. /\ Tail(c) \in Seq(Messages) /\ Len(Tail(c)) = Len(s)
        /\ \A i \in 1 .. Len(s) : Tail(c)[i] = c[i + 1]
        BY <2>2, <2>3, <2>4, HeadTailProperties
  <2>7. \A i \in 1 .. Len(s) : Tail(c)[i] = s[i]
    <3> SUFFICES ASSUME NEW i \in 1 .. Len(s) PROVE Tail(c)[i] = s[i]
        OBVIOUS
    <3>1. i + 1 \in 1 .. 1 + Len(s) /\ ~(i + 1 <= 1) /\ (i + 1) - 1 = i BY <2>2
    <3> QED BY <2>3, <2>6, <3>1
  <2>8. Tail(c) = s BY <2>6, <2>7, SeqEqual
  <2> QED BY <2>4, <2>5, <2>8 DEF c
<1>6. Queue # <<>> /\ Head(Queue) = cur /\ Tail(Queue) = Queue'
      BY <1>3, <1>4, <1>5
<1> QED BY <1>2, <1>6 DEF Fifo!Next, Fifo!Take

\* The ring hands over whole messages, each at most once, in the order in
\* which they were published: its safety part of MsgQueue.
THEOREM RefinesFifo == Spec => FifoOrder
<1>1. Init => Fifo!Init
  <2> SUFFICES ASSUME Init PROVE Fifo!Init OBVIOUS
  <2>1. Payloads(<<>>) = <<>> BY EmptySeq DEF Payloads
  <2> QED BY <2>1 DEF Init, Fifo!Init, Queue
<1>2. IInv /\ [Next]_vars => [Fifo!Next]_Fifo!vars
  <2> SUFFICES ASSUME IInv, [Next]_vars
               PROVE  Fifo!Next \/ UNCHANGED Fifo!vars
      OBVIOUS
  <2>1. CASE UNCHANGED vars
        BY <2>1 DEF vars, Fifo!vars, Queue
  <2>2. CASE Producer
    <3>1. ProduceFinish \/ UNCHANGED <<pend, cvars>>
          BY <2>2 DEF Producer, ProduceReserve, Produce, ProduceAppend, ProducePayload
    <3>2. UNCHANGED <<pend, cvars>> => UNCHANGED Fifo!vars
          BY DEF cvars, Fifo!vars, Queue
    <3> QED BY <3>1, <3>2, FinishPuts
  <2>3. CASE Consumer
    <3>1. SeeData \/ GetConsumeLen \/ Decline \/ ReleaseBytes => UNCHANGED Fifo!vars
          BY DEF SeeData, GetConsumeLen, Decline, ReleaseBytes, Fifo!vars, Queue
    <3> QED BY <2>3, <3>1, SkipHeaderMaps, ConsumeTakes DEF Consumer
  <2>4. CASE Clear
    <3>1. Payloads(<<>>) = <<>> BY EmptySeq DEF Payloads
    <3> QED BY <2>4, <3>1 DEF Clear, cvars, Queue, Fifo!Next, Fifo!Reset
  <2> QED BY <2>1, <2>2, <2>3, <2>4 DEF Next
<1> QED BY <1>1, <1>2, Invariance, PTL DEF Spec, FifoOrder, Fifo!Spec

-----------------------------------------------------------------------------
(* The threads at the ends of two ring queues                              *)

\* Only the main thread takes from out_, and the application appends behind what
\* is there: the message process_appthread_msg() has measured is still the first
\* when it calls consume().
LookHolds ==
    mpc = "consume" =>
        outq # <<>> /\ Head(outq).len = mclen /\ mclen <= mbuf

\* The inductive invariant.
ThreadsInv == AppInv /\ LookHolds

-----------------------------------------------------------------------------
(* Queues of messages *)

\* A queue stays one of messages, and the oldest stays the oldest, when a message
\* is put in.
LEMMA PutKeepsHead ==
    ASSUME NEW q \in Seq(Message), NEW m \in Message
    PROVE  /\ Append(q, m) \in Seq(Message)
           /\ q # <<>> => Append(q, m) # <<>> /\ Head(Append(q, m)) = Head(q)
<1>1. Append(q, m) \in Seq(Message) /\ Len(Append(q, m)) = Len(q) + 1
      BY AppendProperties
<1>2. ASSUME q # <<>> PROVE Append(q, m)[1] = q[1] /\ Append(q, m) # <<>>
      BY <1>1, <1>2, AppendProperties, EmptySeq, LenProperties
<1>3. ASSUME q # <<>> PROVE Head(Append(q, m)) = Head(q)
      BY <1>1, <1>2, <1>3
<1> QED BY <1>1, <1>2, <1>3

\* A message taken from a queue is one, and has a length.
LEMMA TakeFrom ==
    ASSUME NEW q \in Seq(Message), q # <<>>
    PROVE  Head(q) \in Message /\ Tail(q) \in Seq(Message)
BY HeadTailProperties

\* get_consume_len() is 0 exactly for an empty queue.
LEMMA ConsumeLenType ==
    ASSUME NEW q \in Seq(Message)
    PROVE  /\ ConsumeLen(q) \in Nat
           /\ ConsumeLen(q) > 0 <=> q # <<>>
<1>1. CASE q = <<>> BY <1>1 DEF ConsumeLen
<1>2. CASE q # <<>>
  <2>1. Head(q).len \in MsgLens BY <1>2, TakeFrom DEF Message
  <2>2. \A n \in MsgLens : n \in Nat /\ n >= CtxLen BY ATAssumption
  <2>3. CtxLen \in Nat /\ CtxLen > 0 BY ATAssumption
  <2>4. Head(q).len \in Nat /\ Head(q).len > 0 BY <2>1, <2>2, <2>3
  <2> QED BY <1>2, <2>4 DEF ConsumeLen
<1> QED BY <1>1, <1>2

-----------------------------------------------------------------------------
(* The steps *)

\* What a handler may send leaves out_ a queue of messages with the same oldest.
LEMMA AppSendsInv ==
    ASSUME ThreadsTypeOK, AppSends
    PROVE  /\ outq' \in Seq(Message) /\ made' \in 0 .. MaxMsgs
           /\ outq # <<>> => outq' # <<>> /\ Head(outq') = Head(outq)
<1>1. CASE UNCHANGED <<outq, made>> BY <1>1 DEF ThreadsTypeOK
<1>2. ASSUME NEW len \in MsgLens, made < MaxMsgs, made' = made + 1,
             outq' = Append(outq, [id |-> made', len |-> len])
      PROVE  /\ outq' \in Seq(Message) /\ made' \in 0 .. MaxMsgs
             /\ outq # <<>> => outq' # <<>> /\ Head(outq') = Head(outq)
  <2>1. made' \in 1 .. MaxMsgs BY <1>2, ATAssumption DEF ThreadsTypeOK
  <2>2. [id |-> made', len |-> len] \in Message BY <2>1 DEF Message
  <2> QED BY <1>2, <2>1, <2>2, PutKeepsHead, ATAssumption DEF ThreadsTypeOK
<1> QED BY <1>1, <1>2 DEF AppSends

\* The application thread's steps.
LEMMA AppStepInv ==
    ASSUME ThreadsInv, App
    PROVE  ThreadsInv'
<1> USE DEF ThreadsInv, AppInv, MainSendsWholeMessage, NoUseAfterFree, LookHolds, mvars
<1>1. CASE AppTick BY <1>1, AppSendsInv DEF AppTick, ThreadsTypeOK
<1>2. CASE AppExit BY <1>2 DEF AppExit, ThreadsTypeOK
<1>3. CASE AppPeek
      BY <1>3, ConsumeLenType DEF AppPeek, ThreadsTypeOK, MaxOf
<1>4. CASE AppDrained BY <1>4 DEF AppDrained, ThreadsTypeOK
<1>5. CASE AppAbort BY <1>5 DEF AppAbort, ThreadsTypeOK
<1>6. CASE AppConsume
  <2>1. inq # <<>> BY <1>6 DEF AppConsume, ConsumeLen
  <2> QED BY <1>6, <2>1, TakeFrom DEF AppConsume, ThreadsTypeOK
<1>7. CASE AppHandle BY <1>7, AppSendsInv DEF AppHandle, ThreadsTypeOK
<1> QED BY <1>1, <1>2, <1>3, <1>4, <1>5, <1>6, <1>7 DEF App

\* The main thread's steps.
LEMMA MainStepInv ==
    ASSUME ThreadsInv, Main
    PROVE  ThreadsInv'
<1> USE DEF ThreadsInv, AppInv, MainSendsWholeMessage, NoUseAfterFree, LookHolds, avars
<1>1. ASSUME NEW len \in MsgLens, Dispatch(len) PROVE ThreadsInv'
  <2>1. made' \in 1 .. MaxMsgs BY <1>1, ATAssumption DEF Dispatch, ThreadsTypeOK
  <2>2. [id |-> made', len |-> len] \in Message BY <2>1 DEF Message
  <2>3. inq' \in Seq(Message) /\ made' \in 0 .. MaxMsgs
        BY <1>1, <2>1, <2>2, PutKeepsHead, ATAssumption DEF Dispatch, ThreadsTypeOK
  <2> QED BY <1>1, <2>3 DEF Dispatch, ThreadsTypeOK, mvars
<1>2. CASE WaitDone BY <1>2 DEF WaitDone, ThreadsTypeOK
<1>3. CASE MainSkip
  <2>1. outq # <<>> BY <1>3 DEF MainSkip, ConsumeLen, ThreadsTypeOK
  <2> QED BY <1>3, <2>1, TakeFrom, ConsumeLenType DEF MainSkip, ThreadsTypeOK
<1>4. CASE MainPeek
  <2>1. ConsumeLen(outq) \in Nat /\ (ConsumeLen(outq) > 0 <=> outq # <<>>)
        BY ConsumeLenType DEF ThreadsTypeOK
  <2>2. ThreadsTypeOK' BY <1>4, <2>1 DEF MainPeek, ThreadsTypeOK, MaxOf
  <2>3. LookHolds' BY <1>4, <2>1 DEF MainPeek, ThreadsTypeOK, MaxOf, ConsumeLen
  <2> QED BY <1>4, <2>2, <2>3 DEF MainPeek
<1>5. CASE MainConsume
  <2>1. outq # <<>> /\ Head(outq).len = mclen /\ mclen <= mbuf BY <1>5 DEF MainConsume
  <2> QED BY <1>5, <2>1, TakeFrom DEF MainConsume, ThreadsTypeOK
<1>6. CASE MainSend BY <1>6 DEF MainSend, ThreadsTypeOK
<1>7. CASE MainLoop BY <1>7 DEF MainLoop, ThreadsTypeOK
<1>8. CASE Stop BY <1>8 DEF Stop, ThreadsTypeOK
<1>9. CASE FreeQueues BY <1>9 DEF FreeQueues, ThreadsTypeOK
<1> QED BY <1>1, <1>2, <1>3, <1>4, <1>5, <1>6, <1>7, <1>8, <1>9 DEF Main

\* The look of process_appthread_msg() and the order of join and delete hold in
\* every interleaving of the two threads: the message the main thread sends is the
\* one it has measured, whole, and neither thread touches a deleted queue.  Nothing
\* is said of what the application's own loop hands to its handler.
THEOREM ThreadsInvariance == ThreadsSpec => []AppInv
<1>1. ThreadsInit => ThreadsInv
  <2> SUFFICES ASSUME ThreadsInit PROVE ThreadsInv OBVIOUS
  <2>1. inq \in Seq(Message) /\ outq \in Seq(Message)
        BY EmptySeq DEF ThreadsInit
  <2>2. made \in 0 .. MaxMsgs /\ bufsize \in Nat /\ mbuf \in Nat
        BY ATAssumption DEF ThreadsInit
  <2> QED BY <2>1, <2>2 DEF ThreadsInit, ThreadsInv, AppInv, ThreadsTypeOK, MainSendsWholeMessage,
                            NoUseAfterFree, LookHolds
<1>2. ThreadsInv /\ [ThreadsNext]_threadVars => ThreadsInv'
  <2>1. ASSUME ThreadsInv, UNCHANGED threadVars PROVE ThreadsInv'
        BY <2>1 DEF ThreadsInv, AppInv, ThreadsTypeOK, MainSendsWholeMessage, NoUseAfterFree,
                    LookHolds, threadVars
  <2> QED BY <2>1, AppStepInv, MainStepInv DEF ThreadsNext
<1>3. ThreadsInv => AppInv BY DEF ThreadsInv
<1> QED BY <1>1, <1>2, <1>3, PTL DEF ThreadsSpec
=============================================================================
