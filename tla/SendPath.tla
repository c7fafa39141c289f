------------------------------ MODULE SendPath ------------------------------
(***************************************************************************)
(* The sending side of one netlink_t: send() with its buffer send_buf_,    *)
(* and EPOLLOUT, by which wait() learns that the rest can be sent.         *)
(*                                                                         *)
(* The main thread runs all of this, so a call of send() is one step; in   *)
(* it the kernel takes as many bytes as it has room for, in as many calls  *)
(* of ::send() as it likes, and then answers EAGAIN.  A byte is the number *)
(* of its message and its place in it.  An error of the socket is final:   *)
(* the kernel takes nothing more from it.                                  *)
(***************************************************************************)
EXTENDS Integers, SequencesExt

CONSTANTS KernelRoom,   \* bytes the kernel holds of what the peer has not read
          SndBuf,       \* usr_sndbuf_size_ to begin with
          Lens,         \* lengths of messages
          MaxMsgs       \* bound: messages the application sends

ASSUME SPAssumption ==
    /\ KernelRoom \in Nat \ {0} /\ SndBuf \in Nat
    /\ Lens \subseteq Nat \ {0} /\ MaxMsgs \in Nat

VARIABLES status,       \* of the link: connecting, established or closed
          sendbuf,      \* send_buf_->data_, used_ bytes of it
          size,         \* usr_sndbuf_size_
          armed,        \* EPOLLOUT is asked for
          room,         \* bytes the kernel would take now
          dead,         \* the socket has failed: EPOLLERR is pending
          wire,         \* history: the bytes the kernel has taken
          lens,         \* history: lengths of the messages sent so far
          failed        \* history: those for which send() returned -1

vars == <<status, sendbuf, size, armed, room, dead, wire, lens, failed>>

Bytes == [msg : 1 .. MaxMsgs, k : Nat]

Message(m, len) == [k \in 1 .. len |-> [msg |-> m, k |-> k]]

NoData == <<>>      \* send(NULL, 0)

Least(a, b) == IF a < b THEN a ELSE b

From(s, n) == SubSeq(s, n + 1, Len(s))

Init ==
    /\ status = "connecting"
    /\ sendbuf = <<>> /\ size = SndBuf
    /\ armed = FALSE /\ room = 0 /\ dead = FALSE
    /\ wire = <<>> /\ lens = <<>> /\ failed = {}

-----------------------------------------------------------------------------
(* netlink_t::send() *)

\* A copy to the beginning of the buffer.
CopyOverwrites(buf, rest, ret) ==
    LET used == Len(buf) + Len(rest)
    IN  /\ ret = 0 => /\ sendbuf' = IF rest = NoData THEN buf ELSE rest
                     /\ size' = IF used > size THEN used ELSE size
        /\ ret = -1 => used > size /\ rest # NoData /\ sendbuf' = buf /\ UNCHANGED size

\* copy_data_to_send_buffer(rest) behind what is in buf; ret says whether it
\* did.  realloc() may fail when the buffer has to grow.
CopyToSendBuffer(buf, rest, ret) ==
    LET used == Len(buf) + Len(rest)
    IN  /\ ret = 0 => sendbuf' = buf \o rest /\ size' = IF used > size THEN used ELSE size
        /\ ret = -1 => used > size /\ rest # NoData /\ sendbuf' = buf /\ UNCHANGED size

\* A send() that forgets how much of data the kernel has taken.
SendBlocksAgain(data, ret) ==
    LET used == Len(sendbuf)
        n    == Least(room, used + Len(data))
    IN  /\ ~dead
        /\ wire' = wire \o SubSeq(sendbuf \o data, 1, n)
        /\ room' = room - n
        /\ IF n < used THEN CopyToSendBuffer(From(sendbuf, n), data, ret)
           ELSE CopyToSendBuffer(<<>>, data, ret)
        /\ UNCHANGED dead

\* send(data, len), until all is sent or the kernel answers EAGAIN.
SendBlocks(data, ret) ==
    LET used == Len(sendbuf)
        n    == Least(room, used + Len(data))
    IN  /\ ~dead
        /\ wire' = wire \o SubSeq(sendbuf \o data, 1, n)
        /\ room' = room - n
        /\ IF n < used THEN CopyToSendBuffer(From(sendbuf, n), data, ret)
           ELSE CopyToSendBuffer(<<>>, From(data, n - used), ret)
        /\ UNCHANGED dead

\* send(data, len), until ::send() fails for good after n more bytes: what it
\* has sent of the buffer is not taken out unless it has sent all of it.
SendFails(data) ==
    /\ sendbuf \o data # NoData
    /\ \E n \in 0 .. IF dead THEN 0 ELSE Least(room, Len(sendbuf \o data) - 1) :
          /\ wire' = wire \o SubSeq(sendbuf \o data, 1, n)
          /\ sendbuf' = IF n < Len(sendbuf) THEN sendbuf ELSE <<>>
    /\ dead' = TRUE /\ room' = 0
    /\ UNCHANGED size

-----------------------------------------------------------------------------
(* process_appthread_msg(), after wait() *)

\* send_by_context(), send_by_group(): the result is logged, nothing else; a
\* closed link is refused.  EPOLLOUT stays as it is.
AppSends(len) ==
    /\ status # "closed" /\ Len(lens) < MaxMsgs
    /\ lens' = Append(lens, len)
    /\ LET data == Message(Len(lens'), len)
       IN  \/ SendBlocks(data, 0) /\ UNCHANGED failed
           \/ SendBlocks(data, -1) /\ failed' = failed \cup {Len(lens')}
           \/ SendFails(data) /\ failed' = failed \cup {Len(lens')}
    /\ UNCHANGED <<status, armed>>

-----------------------------------------------------------------------------
(* wait(): one event of the link *)

\* The handshake is over; data sent meanwhile arms EPOLLOUT.
EventConnected ==
    /\ status = "connecting" /\ ~dead
    /\ status' = "established" /\ room' = KernelRoom
    /\ armed' = (sendbuf # <<>>)
    /\ UNCHANGED <<sendbuf, size, dead, wire, lens, failed>>

\* EPOLLIN: whatever was received, data left in the send buffer arms EPOLLOUT.
EventIn ==
    /\ status = "established" /\ ~dead
    /\ armed' = (armed \/ sendbuf # <<>>)
    /\ UNCHANGED <<status, sendbuf, size, room, dead, wire, lens, failed>>

\* An EPOLLOUT event that disarms EPOLLOUT whether or not all has been sent.
EventOutDisarms ==
    /\ status = "established" /\ ~dead /\ armed /\ room > 0
    /\ IF sendbuf = <<>> THEN UNCHANGED <<sendbuf, size, room, dead, wire, armed>>
       ELSE SendBlocks(NoData, 0) /\ armed' = FALSE
    /\ UNCHANGED <<status, lens, failed>>

\* EPOLLOUT: send(NULL, 0); when all is sent EPOLLOUT is cancelled.
EventOut ==
    /\ status = "established" /\ ~dead /\ armed /\ room > 0
    /\ IF sendbuf = <<>> THEN UNCHANGED <<sendbuf, size, room, dead, wire, armed>>
       ELSE SendBlocks(NoData, 0) /\ armed' = (sendbuf' # <<>>)
    /\ UNCHANGED <<status, lens, failed>>

\* The same with an error: wait() shuts the link down.
EventOutFails ==
    /\ status = "established" /\ ~dead /\ armed /\ room > 0
    /\ SendFails(NoData)
    /\ status' = "closed" /\ armed' = FALSE
    /\ UNCHANGED <<lens, failed>>

\* EPOLLERR or EPOLLHUP, the peer's close, the application's request:
\* shutdown_link(); or the recovery of a link that idled out.
Shutdown ==
    /\ status # "closed"
    /\ status' = "closed" /\ armed' = FALSE
    /\ UNCHANGED <<sendbuf, size, room, dead, wire, lens, failed>>

\* The peer reads some of what the kernel holds for it.
PeerReads ==
    /\ status = "established" /\ ~dead
    /\ room' \in room + 1 .. KernelRoom
    /\ UNCHANGED <<status, sendbuf, size, armed, dead, wire, lens, failed>>

Next == \/ \E len \in Lens : AppSends(len)
        \/ EventConnected \/ EventIn \/ EventOut \/ EventOutFails
        \/ Shutdown \/ PeerReads

Spec == Init /\ [][Next]_vars

\* The connection is established, the peer keeps reading and the main loop
\* keeps handling EPOLLOUT, and EPOLLERR of a dead socket: the link is in the
\* used list until its connection ends.  The peer need not send anything.
FairSpec ==
    /\ Spec
    /\ WF_vars(EventConnected) /\ WF_vars(PeerReads) /\ WF_vars(EventOut)
    /\ WF_vars(dead /\ Shutdown)

-----------------------------------------------------------------------------
(* Properties *)

\* Every variable stays within the values the code can give it; the buffer
\* holds no more than its size.
TypeOK ==
    /\ status \in {"connecting", "established", "closed"}
    /\ sendbuf \in Seq(Bytes) /\ size \in Nat /\ Len(sendbuf) <= size
    /\ armed \in BOOLEAN /\ dead \in BOOLEAN
    /\ room \in 0 .. KernelRoom
    /\ wire \in Seq(Bytes) /\ lens \in Seq(Lens) /\ failed \subseteq 1 .. MaxMsgs

\* What the peer gets of the messages sent: a byte follows its predecessor in
\* its message, or begins a later message when its own is complete, or when
\* send() has said that it is not.
FollowsIn(s, i) ==
    IF i > 1 /\ s[i].msg = s[i - 1].msg THEN s[i].k = s[i - 1].k + 1
    ELSE /\ s[i].k = 1
         /\ i > 1 => /\ s[i - 1].msg < s[i].msg
                     /\ s[i - 1].k = lens[s[i - 1].msg] \/ s[i - 1].msg \in failed
WholeInOrder(s) == \A i \in 1 .. Len(s) : FollowsIn(s, i)

\* Nothing is sent twice, out of order or with a hole, and a message is cut
\* only if its send() has returned -1.
StreamIntact == WholeInOrder(wire) /\ (~dead => WholeInOrder(wire \o sendbuf))

\* send() in all its branches keeps its buffer within its size and the stream in
\* order.
SendInv == TypeOK /\ StreamIntact

\* "return 0 means ok": while the socket lives, every byte of a message for
\* which send() returned 0 has been taken by the kernel or waits in the buffer.
OkIsKept ==
    ~dead => \A m \in 1 .. Len(lens) \ failed : \A k \in 1 .. lens[m] :
                Contains(wire \o sendbuf, [msg |-> m, k |-> k])

\* Once EPOLLOUT is armed for data in the buffer, the data leaves.
ArmedIsSent == armed /\ sendbuf # <<>> ~> sendbuf = <<>> \/ status = "closed"

\* "return 0 means ok": a message that send() accepted reaches the kernel when
\* the peer keeps reading, unless the connection ends.
BufferedIsSent == sendbuf # <<>> ~> sendbuf = <<>> \/ status = "closed"
=============================================================================
