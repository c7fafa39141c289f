----------------------------- MODULE RingQueue -----------------------------
(***************************************************************************)
(* ring_queue_t: the lock-free byte ring between the main thread and one   *)
(* application thread.  One thread produces, the other consumes; they      *)
(* share buffer_, read_ and write_ and nothing else.                       *)
(*                                                                         *)
(* A byte of buffer_ is abstracted to the record that says which byte of   *)
(* which kind of block it is: byte k of a header announcing a length, or   *)
(* byte k of the payload of a message.  One step is one access to the      *)
(* state the other thread can see.  The variables pend and cur are         *)
(* history: they record what the code never stores, the messages between   *)
(* write_ and read_ and the one whose header has just been skipped.        *)
(***************************************************************************)
EXTENDS Integers, Sequences

CONSTANTS BufferLen,    \* buffer_len_
          HdrLen,       \* sizeof(ring_block_t), 4 in the code
          Lens,         \* lengths a caller may append or produce
          Vals          \* contents that tell messages apart

ASSUME RQAssumption ==
    /\ HdrLen \in Nat \ {0}
    /\ BufferLen \in Nat \ {0}
    /\ HdrLen < BufferLen
    /\ Lens \subseteq Nat \ {0}
    /\ Vals \subseteq Nat

VARIABLES buffer,       \* buffer_
          read,         \* read_
          write,        \* write_
          ppc,          \* where the producing thread is
          room,         \* what it reserved and has not appended yet
          pmsg,         \* the message it is writing: length and content so far
          cpc,          \* where the consuming thread is
          clen,         \* the length get_consume_len() returned to it
          got,          \* the bytes consume() copied out last, as a message
          broken,       \* a header was not what a producer wrote: abort()
          pend,         \* history: published messages with their header unread
          cur           \* history: the message whose header was just skipped

pvars == <<ppc, room, pmsg>>
cvars == <<cpc, clen, got, cur>>
vars  == <<buffer, read, write, ppc, room, pmsg, cpc, clen, got, broken, pend, cur>>

-----------------------------------------------------------------------------
(* Positions and bytes *)

Pos == 0 .. BufferLen - 1

Broken == -1

Cells == [kind : {"junk", "hdr", "pay"}, val : Nat, k : Nat]

Junk      == [kind |-> "junk", val |-> 0, k |-> 0]
Hdr(l, k) == [kind |-> "hdr", val |-> l, k |-> k]
Pay(v, k) == [kind |-> "pay", val |-> v, k |-> k]

Messages == [len : Nat, val : Nat]
Blocks   == [len : Nat, val : Nat, pos : Pos]   \* pos: of the header
NoMsg    == [len |-> 0, val |-> 0]      \* no published message has length 0
Corrupt  == [len |-> -1, val |-> 0]     \* the bytes of no single message

NormalizePos(pos) == IF pos >= BufferLen THEN pos - BufferLen ELSE pos

\* How far p lies ahead of a on the ring.
Dist(a, p) == IF p >= a THEN p - a ELSE p - a + BufferLen

GetFreeLen(r, w) == IF w >= r THEN BufferLen - (w - r) - 1 ELSE r - w - 1

GetUsedLen(r, w) == BufferLen - 1 - GetFreeLen(r, w)

\* produce_bytes() of a header announcing l bytes.
PutHeader(buf, pos, l) ==
    [p \in Pos |-> LET d == Dist(NormalizePos(pos), p)
                   IN  IF d < HdrLen THEN Hdr(l, d) ELSE buf[p]]

PutPayloadNoWrap(buf, pos, v, k, c) ==
    [p \in Pos |-> LET d == p - NormalizePos(pos)
                   IN  IF d \in 0 .. c - 1 THEN Pay(v, k + d) ELSE buf[p]]

\* produce_bytes() of bytes k .. k+c-1 of a message with content v.
PutPayload(buf, pos, v, k, c) ==
    [p \in Pos |-> LET d == Dist(NormalizePos(pos), p)
                   IN  IF d < c THEN Pay(v, k + d) ELSE buf[p]]

\* extract_rb(): the length of the header at from, Broken if its bytes are
\* not those of one header.
ExtractRb(from) ==
    LET l == buffer[from].val
    IN  IF \A k \in 0 .. HdrLen - 1 : buffer[NormalizePos(from + k)] = Hdr(l, k)
        THEN l ELSE Broken

\* What consume_bytes() copies from from, n bytes of it.
PayloadAt(from, n) ==
    LET v == buffer[from].val
    IN  IF \A k \in 0 .. n - 1 : buffer[NormalizePos(from + k)] = Pay(v, k)
        THEN [len |-> n, val |-> v] ELSE Corrupt

-----------------------------------------------------------------------------
Init ==
    /\ buffer = [p \in Pos |-> Junk]
    /\ read = 0 /\ write = 0
    /\ ppc = "idle" /\ room = 0 /\ pmsg = NoMsg
    /\ cpc = "idle" /\ clen = 0 /\ got = NoMsg
    /\ broken = FALSE
    /\ pend = <<>> /\ cur = NoMsg

-----------------------------------------------------------------------------
(* The producing thread *)

\* produce_reserve(n), succeeding; when space is short it changes nothing.
ProduceReserve(n, v) ==
    /\ ppc = "idle"
    /\ GetFreeLen(read, write) >= HdrLen + n
    /\ buffer' = PutHeader(buffer, write, 0)
    /\ ppc' = "open" /\ room' = n /\ pmsg' = [len |-> 0, val |-> v]
    /\ UNCHANGED <<read, write, broken, pend, cvars>>

\* produce_append(data, c) by a caller that stays within its reservation.
ProduceAppend(c) ==
    /\ ppc = "open" /\ c <= room
    /\ LET l == ExtractRb(write)
       IN  /\ broken' = (l = Broken)
           /\ GetFreeLen(read, write) >= c + l + HdrLen
           /\ buffer' = PutHeader(
                          PutPayload(buffer, write + HdrLen + l, pmsg.val, l, c),
                          write, l + c)
           /\ pmsg' = [len |-> l + c, val |-> pmsg.val]
    /\ room' = room - c
    /\ UNCHANGED <<read, write, ppc, pend, cvars>>

\* A produce() that asks for the room of the payload only.
ProduceIgnoresHeader(n, v) ==
    /\ ppc = "idle"
    /\ GetFreeLen(read, write) >= n
    /\ buffer' = PutHeader(buffer, write, n)
    /\ ppc' = "header" /\ room' = n /\ pmsg' = [len |-> 0, val |-> v]
    /\ UNCHANGED <<read, write, broken, pend, cvars>>

\* produce(data, n): the header with its final length ...
Produce(n, v) ==
    /\ ppc = "idle"
    /\ GetFreeLen(read, write) >= n + HdrLen
    /\ buffer' = PutHeader(buffer, write, n)
    /\ ppc' = "header" /\ room' = n /\ pmsg' = [len |-> 0, val |-> v]
    /\ UNCHANGED <<read, write, broken, pend, cvars>>

\* ... then the payload, then produce_finish() below.
ProducePayload ==
    /\ ppc = "header"
    /\ buffer' = PutPayload(buffer, write + HdrLen, pmsg.val, 0, room)
    /\ ppc' = "written" /\ room' = 0 /\ pmsg' = [len |-> room, val |-> pmsg.val]
    /\ UNCHANGED <<read, write, broken, pend, cvars>>

\* A produce_finish() that publishes the message before its payload is there.
ProduceFinishEarly ==
    /\ \/ ppc = "open" /\ pmsg.len > 0
       \/ ppc = "header"
    /\ write' = NormalizePos(write + ExtractRb(write) + HdrLen)
    /\ pend' = Append(pend, [len |-> ExtractRb(write), val |-> pmsg.val, pos |-> write])
    /\ broken' = FALSE /\ ppc' = "idle" /\ room' = 0 /\ pmsg' = NoMsg
    /\ UNCHANGED <<buffer, read, cvars>>

\* produce_finish(): one store of write_ publishes the block.  Every caller
\* appends at least its msgpack_context_t first, so the block is not empty.
ProduceFinish ==
    /\ \/ ppc = "open" /\ pmsg.len > 0
       \/ ppc = "written"
    /\ LET l == ExtractRb(write)
       IN  /\ broken' = (l = Broken)
           /\ write' = NormalizePos(write + l + HdrLen)
    /\ pend' = Append(pend, [len |-> pmsg.len, val |-> pmsg.val, pos |-> write])
    /\ ppc' = "idle" /\ room' = 0 /\ pmsg' = NoMsg
    /\ UNCHANGED <<buffer, read, cvars>>

-----------------------------------------------------------------------------
(* The consuming thread *)

\* A get_consume_len() that takes a block with one payload byte for none.
SeeDataOffByOne ==
    /\ cpc = "idle"
    /\ GetUsedLen(read, write) > HdrLen + 1
    /\ cpc' = "nonempty"
    /\ UNCHANGED <<buffer, read, write, pvars, clen, got, broken, pend, cur>>

\* get_consume_len(): the queue is not empty ...
SeeData ==
    /\ cpc = "idle"
    /\ GetUsedLen(read, write) > 0
    /\ cpc' = "nonempty"
    /\ UNCHANGED <<buffer, read, write, pvars, clen, got, broken, pend, cur>>

\* ... and its header is sound and describes bytes that are all there; the
\* two abort() calls are broken'.
GetConsumeLen ==
    /\ cpc = "nonempty"
    /\ LET l == ExtractRb(read)
       IN  /\ broken' = (l = Broken \/ GetUsedLen(read, write) < l + HdrLen)
           /\ clen' = l
    /\ cpc' = "peeked"
    /\ UNCHANGED <<buffer, read, write, pvars, got, pend, cur>>

\* The caller only looked, or offered consume() a buffer that is too small.
Decline ==
    /\ cpc = "peeked"
    /\ cpc' = "idle" /\ clen' = 0
    /\ UNCHANGED <<buffer, read, write, pvars, got, broken, pend, cur>>

\* skip_consume_bytes(sizeof(ring_block_t)) on the way to the state next.
SkipHeader(next) ==
    /\ cpc = "peeked"
    /\ read' = NormalizePos(read + HdrLen)
    /\ cpc' = next
    /\ cur' = [len |-> Head(pend).len, val |-> Head(pend).val]
    /\ pend' = Tail(pend)
    /\ UNCHANGED <<buffer, write, pvars, clen, got, broken>>

\* A consume_bytes() that gives the bytes back before it copies them.
ConsumeBytesReleased ==
    /\ cpc = "payload"
    /\ got' = PayloadAt(NormalizePos(read + clen), clen)
    /\ cpc' = "copied"
    /\ UNCHANGED <<buffer, read, write, pvars, clen, broken, pend, cur>>

\* consume_bytes(): the memcpy ...
ConsumeBytes ==
    /\ cpc = "payload"
    /\ got' = PayloadAt(read, clen)
    /\ cpc' = "copied"
    /\ UNCHANGED <<buffer, read, write, pvars, clen, broken, pend, cur>>

\* ... and the store of read_ that gives the bytes back; skip_consume() does
\* only this.
ReleaseBytes ==
    /\ cpc \in {"copied", "skipping"}
    /\ read' = NormalizePos(read + clen)
    /\ cpc' = "idle" /\ clen' = 0 /\ cur' = NoMsg
    /\ UNCHANGED <<buffer, write, pvars, got, broken, pend>>

\* clear(), which is only meaningful while neither thread is in the queue.
Clear ==
    /\ ppc = "idle" /\ cpc = "idle"
    /\ read' = 0 /\ write' = 0 /\ pend' = <<>>
    /\ UNCHANGED <<buffer, pvars, cvars, broken>>

-----------------------------------------------------------------------------
Producer == \/ \E n \in Lens, v \in Vals : ProduceReserve(n, v) \/ Produce(n, v)
            \/ \E c \in Lens : ProduceAppend(c)
            \/ ProducePayload
            \/ ProduceFinish

Consumer == \/ SeeData \/ GetConsumeLen \/ Decline
            \/ SkipHeader("payload") \/ SkipHeader("skipping")
            \/ ConsumeBytes \/ ReleaseBytes

Next == ~broken /\ (Producer \/ Consumer \/ Clear)

Spec == Init /\ [][Next]_vars

\* The consuming loops (_app_thread_main, process_appthread_msg) never stop
\* polling and never decline the same message for ever.
Fairness == /\ WF_vars(~broken /\ (SeeData \/ GetConsumeLen \/ ConsumeBytes \/ ReleaseBytes))
            /\ SF_vars(~broken /\ (SkipHeader("payload") \/ SkipHeader("skipping")))

FairSpec == Spec /\ Fairness

-----------------------------------------------------------------------------
(* Properties *)

\* Every variable stays within the values the code can give it.
TypeOK ==
    /\ buffer \in [Pos -> Cells]
    /\ read \in Pos /\ write \in Pos
    /\ ppc \in {"idle", "open", "header", "written"}
    /\ room \in Nat /\ pmsg \in Messages
    /\ cpc \in {"idle", "nonempty", "peeked", "payload", "copied", "skipping"}
    /\ clen \in Nat
    /\ got \in Messages
    /\ broken \in BOOLEAN
    /\ pend \in Seq(Blocks)
    /\ cur \in Messages

\* No interleaving reaches an abort() of get_consume_len() or
\* produce_append(): the header a thread reads is the one that was written,
\* and the bytes it announces have all been published.
NeverBroken == ~broken

\* A reservation holds until it is used: whatever the consumer does in
\* between, produce_append() of the reserved bytes never finds the queue full
\* (dispatch_msg_to_app() aborts the process if it did).
ReservationHolds ==
    ppc = "open" => GetFreeLen(read, write) >= HdrLen + pmsg.len + room

\* The message copied out is the one that was published, whole.
NothingTorn == cpc = "copied" => got = cur

\* No two-thread interleaving aborts the process, takes away reserved room or
\* hands over a torn block.
BlocksWhole == NeverBroken /\ ReservationHolds /\ NothingTorn

\* No step writes a byte between read_ and write_: those are the consumer's.
NoOverwriteStep ==
    \A p \in Pos : Dist(read, p) < GetUsedLen(read, write) => buffer'[p] = buffer[p]
NoOverwrite == [][NoOverwriteStep]_vars

\* The queue implements a FIFO of whole messages: a message is received when
\* its bytes are copied and dropped when skip_consume() leaves its header.
Payloads(s) == [i \in 1 .. Len(s) |-> [len |-> s[i].len, val |-> s[i].val]]

Queue == IF cpc = "payload" THEN <<cur>> \o Payloads(pend) ELSE Payloads(pend)

Fifo == INSTANCE MsgQueue WITH
            Msgs <- [len : 1 .. BufferLen, val : Vals], q <- Queue

\* Each message comes out at most once, whole, and in the order published.
FifoOrder == Fifo!Spec

\* Besides, none is left for ever while the consuming thread polls.
ImplementsFifo == Fifo!FairSpec

-----------------------------------------------------------------------------
(* What the bytes mean in between: the inductive invariant *)

\* The consumer has skipped a header and not yet given the payload back.
Consuming == cpc \in {"payload", "copied", "skipping"}

\* Where the first block with an unread header starts.
Start == IF Consuming THEN NormalizePos(read + clen) ELSE read

\* pos holds a header announcing l bytes, and then n bytes of content v.
HeaderBytes(pos, l) ==
    \A p \in Pos : Dist(pos, p) < HdrLen => buffer[p] = Hdr(l, Dist(pos, p))
PayloadBytes(pos, v, n) ==
    \A p \in Pos : Dist(pos, p) < n => buffer[p] = Pay(v, Dist(pos, p))
BlockBytes(pos, l, v) ==
    /\ HeaderBytes(pos, l)
    /\ \A p \in Pos : LET d == Dist(pos, p) - HdrLen
                      IN  d \in 0 .. l - 1 => buffer[p] = Pay(v, d)

BlockEnd(m) == Dist(Start, m.pos) + HdrLen + m.len

\* The bytes from Start to write_ are exactly the published blocks, one after
\* the other, each with its own header and its own payload: no gap, no
\* overlap, nothing the producer has not published.
Layout ==
    /\ IF pend = <<>> THEN Start = write
       ELSE pend[1].pos = Start /\ BlockEnd(pend[Len(pend)]) = Dist(Start, write)
    /\ \A i \in 1 .. Len(pend) - 1 : Dist(Start, pend[i + 1].pos) = BlockEnd(pend[i])
    /\ \A i, j \in 1 .. Len(pend) : i < j => BlockEnd(pend[i]) <= Dist(Start, pend[j].pos)
    /\ \A i \in 1 .. Len(pend) : /\ pend[i].len > 0
                                 /\ BlockEnd(pend[i]) <= Dist(Start, write)
                                 /\ BlockBytes(pend[i].pos, pend[i].len, pend[i].val)

\* What the consumer found out is still true whatever the producer did since.
ConsumerView ==
    /\ cpc \in {"nonempty", "peeked"} => pend # <<>>
    /\ cpc = "peeked" => clen = pend[1].len
    /\ Consuming => /\ clen = cur.len /\ clen > 0
                    /\ clen <= Dist(read, write)
                    /\ PayloadBytes(read, cur.val, clen)
    /\ cpc = "copied" => got = cur

\* What the producer has written behind write_ is still there, and there is
\* room for the rest of what it reserved.
ProducerView ==
    /\ ppc # "idle" => pmsg.val \in Vals
    /\ ppc # "idle" => Dist(read, write) + HdrLen + pmsg.len + room < BufferLen
    /\ ppc = "open" => BlockBytes(write, pmsg.len, pmsg.val)
    /\ ppc = "header" => HeaderBytes(write, room) /\ pmsg.len = 0 /\ room > 0
    /\ ppc = "written" => /\ BlockBytes(write, pmsg.len, pmsg.val)
                          /\ pmsg.len > 0 /\ room = 0

\* The inductive invariant: what the unread bytes mean, and what each thread has
\* found out or reserved, holds whatever step the other one takes.
IInv == TypeOK /\ NeverBroken /\ Layout /\ ConsumerView /\ ProducerView
=============================================================================
