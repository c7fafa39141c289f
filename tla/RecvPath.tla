------------------------------ MODULE RecvPath ------------------------------
(***************************************************************************)
(* The receiving side of one connection: recv() with its growing buffer    *)
(* recv_buf_, the loop of on_net_event() that cuts it into messages, and   *)
(* what the application thread is told: a new connection, the messages,    *)
(* the end of the connection.                                              *)
(*                                                                         *)
(* The main thread runs all of this while the peer writes and closes.  A   *)
(* byte is the number of its message and its place in it.  The handler's   *)
(* get_msgpack_size_ is external: it knows the length of a message, or     *)
(* that it is bad, from the first byte.  Left out: extrabuf.               *)
(***************************************************************************)
EXTENDS Integers, SequencesExt

CONSTANTS RcvBuf,       \* usr_rcvbuf_size_ to begin with
          Expand,       \* EXPAND_NETLINK_BUFSIZE
          Lens,         \* lengths of messages
          MaxMsgs       \* bound: messages the peer sends

ASSUME RPAssumption ==
    /\ RcvBuf \in Nat \ {0} /\ Expand \in Nat \ {0}
    /\ Lens \subseteq Nat \ {0} /\ MaxMsgs \in Nat

VARIABLES peer,         \* the messages the peer has begun to send, [len, bad]
          sent,         \* how many bytes of the last of them have arrived
          kernel,       \* bytes of them that the kernel holds
          ended,        \* how the peer ended: no, fin (in order), rst
          mask,         \* which of mpf_new_connection, mpf_closed_by_peer are allowed
          status,       \* of the link: new (accepted), established, closed
          recvbuf,      \* recv_buf_->data_, used_ bytes of it
          size,         \* usr_rcvbuf_size_
          pc,           \* wait, or in the loop of on_net_event(), or over
          closedByPeer, \* closed_by_peer
          told,         \* history: what the application thread was sent
          refused       \* history: messages its full queue refused; 0 is a notice

vars == <<peer, sent, kernel, ended, mask, status, recvbuf, size, pc, closedByPeer, told, refused>>

Messages == [len : Lens, bad : BOOLEAN]
Bytes    == [msg : 1 .. MaxMsgs, k : Nat]

Message(m, len) == [k \in 1 .. len |-> [msg |-> m, k |-> k]]

From(s, n) == SubSeq(s, n + 1, Len(s))

\* What the application thread is sent.
Notice(kind) == [kind |-> kind, data |-> <<>>]
Data(bytes)  == [kind |-> "data", data |-> bytes]
Items        == [kind : {"new", "data", "closed"}, data : Seq(Bytes)]

Bad == -1

\* get_msgpack_size_(data)
MsgpackSize(data) ==
    IF data = <<>> THEN 0
    ELSE IF peer[data[1].msg].bad THEN Bad
    ELSE peer[data[1].msg].len

Init ==
    /\ peer = <<>> /\ sent = 0 /\ kernel = <<>> /\ ended = "no"
    /\ mask \in SUBSET {"new", "closed"}
    /\ status = "new" /\ recvbuf = <<>> /\ size = RcvBuf
    /\ pc = "wait" /\ closedByPeer = FALSE
    /\ told = <<>> /\ refused = {}

-----------------------------------------------------------------------------
(* The peer *)

\* The first n bytes of a new message arrive ...
PeerSends(len, bad, n) ==
    /\ ended = "no" /\ Len(peer) < MaxMsgs
    /\ peer # <<>> => sent = Last(peer).len
    /\ peer' = Append(peer, [len |-> len, bad |-> bad]) /\ sent' = n
    /\ kernel' = kernel \o SubSeq(Message(Len(peer'), len), 1, n)
    /\ UNCHANGED <<ended, mask, status, recvbuf, size, pc, closedByPeer, told, refused>>

\* ... or n bytes more of it.
PeerGoesOn(n) ==
    /\ ended = "no" /\ peer # <<>> /\ sent + n <= Last(peer).len
    /\ sent' = sent + n
    /\ kernel' = kernel \o SubSeq(Message(Len(peer), Last(peer).len), sent + 1, sent + n)
    /\ UNCHANGED <<peer, ended, mask, status, recvbuf, size, pc, closedByPeer, told, refused>>

\* It closes in order, maybe within a message, or its connection breaks and the kernel drops what it
\* holds.
PeerEnds(how) ==
    /\ ended = "no" /\ ended' = how
    /\ kernel' = IF how = "rst" THEN <<>> ELSE kernel
    /\ UNCHANGED <<peer, sent, mask, status, recvbuf, size, pc, closedByPeer, told, refused>>

-----------------------------------------------------------------------------
(* on_net_event() *)

\* dispatch_msg_to_app() of a notification; it may find the queue full.
Dispatches(item) == \/ told' = Append(told, item) /\ UNCHANGED refused
                    \/ refused' = refused \cup {0} /\ UNCHANGED told

\* newlink_event of an accepted link.
NewLink ==
    /\ pc = "wait" /\ status = "new"
    /\ status' = "established"
    /\ IF "new" \in mask THEN Dispatches(Notice("new")) ELSE UNCHANGED <<told, refused>>
    /\ UNCHANGED <<peer, sent, kernel, ended, mask, recvbuf, size, pc, closedByPeer>>

DataArrives == pc = "wait" /\ status = "established" /\ (kernel # <<>> \/ ended # "no")

\* Where recv() finds its buffer full and extends it ...
Grown[n \in Nat] == IF n < Expand THEN n * 2 ELSE n + Expand

\* ... as often as it takes for used bytes to leave some room.
SizeFor(used) ==
    LET f[n \in 1 .. size + 2 * (used + Expand)] == IF n > used THEN n ELSE f[Grown[n]]
    IN  f[size]

\* recv() until EAGAIN or the end of the connection, which closes the link;
\* on_net_event() remembers who closed it.
Recv ==
    /\ DataArrives /\ ended # "rst"
    /\ recvbuf' = recvbuf \o kernel /\ kernel' = <<>>
    /\ size' = SizeFor(Len(recvbuf'))
    /\ status' = IF ended = "fin" THEN "closed" ELSE status
    /\ closedByPeer' = (ended = "fin")
    /\ pc' = "cut"
    /\ UNCHANGED <<peer, sent, ended, mask, told, refused>>

\* recv() fails, or its full buffer cannot be extended (the rest is not read):
\* the link is closed, and the application is not told.
RecvFails ==
    /\ DataArrives
    /\ \/ ended = "rst" /\ UNCHANGED <<recvbuf, kernel>>
       \/ LET n == size - Len(recvbuf)
          IN  /\ n <= Len(kernel)
              /\ recvbuf' = recvbuf \o SubSeq(kernel, 1, n)
              /\ kernel' = From(kernel, n)
    /\ status' = "closed" /\ pc' = "over"
    /\ UNCHANGED <<peer, sent, ended, mask, size, closedByPeer, told, refused>>

\* A loop that stops after one message.
CutOneMessage ==
    LET n == MsgpackSize(recvbuf)
    IN  /\ pc = "cut" /\ n > 0 /\ n <= Len(recvbuf)
        /\ \/ told' = Append(told, Data(SubSeq(recvbuf, 1, n))) /\ UNCHANGED refused
           \/ refused' = refused \cup {recvbuf[1].msg} /\ UNCHANGED told
        /\ recvbuf' = From(recvbuf, n)
        /\ pc' = "wait"
        /\ UNCHANGED <<peer, sent, kernel, ended, mask, status, size, closedByPeer>>

\* A loop that keeps a message the queue has no room for.
CutRetries ==
    LET n == MsgpackSize(recvbuf)
    IN  /\ pc = "cut" /\ n > 0 /\ n <= Len(recvbuf)
        /\ told' = Append(told, Data(SubSeq(recvbuf, 1, n)))
        /\ recvbuf' \in {recvbuf, From(recvbuf, n)}
        /\ UNCHANGED <<peer, sent, kernel, ended, mask, status, size, pc, closedByPeer, refused>>

\* A whole message: dispatch_msg_to_app() and pop_recv_buffer(), the message
\* being lost when the queue is full.
CutMessage ==
    LET n == MsgpackSize(recvbuf)
    IN  /\ pc = "cut" /\ n > 0 /\ n <= Len(recvbuf)
        /\ \/ told' = Append(told, Data(SubSeq(recvbuf, 1, n))) /\ UNCHANGED refused
           \/ refused' = refused \cup {recvbuf[1].msg} /\ UNCHANGED told
        /\ recvbuf' = From(recvbuf, n)
        /\ UNCHANGED <<peer, sent, kernel, ended, mask, status, size, pc, closedByPeer>>

\* "has bad msgpack, close it"
CutBad ==
    /\ pc = "cut" /\ MsgpackSize(recvbuf) = Bad
    /\ status' = "closed" /\ pc' = "over"
    /\ UNCHANGED <<peer, sent, kernel, ended, mask, recvbuf, size, closedByPeer, told, refused>>

\* A loop that does not come to the notice while part of a message is left.
CutDoneOnEmpty ==
    /\ pc = "cut" /\ MsgpackSize(recvbuf) # Bad
    /\ MsgpackSize(recvbuf) > Len(recvbuf) \/ recvbuf = <<>>
    /\ IF closedByPeer /\ recvbuf = <<>> /\ "closed" \in mask
       THEN Dispatches(Notice("closed")) ELSE UNCHANGED <<told, refused>>
    /\ pc' = IF closedByPeer THEN "over" ELSE "wait"
    /\ UNCHANGED <<peer, sent, kernel, ended, mask, status, recvbuf, size, closedByPeer>>

\* No whole message is left: "link closed, notify appthread", if it is.
CutDone ==
    /\ pc = "cut" /\ MsgpackSize(recvbuf) # Bad
    /\ MsgpackSize(recvbuf) > Len(recvbuf) \/ recvbuf = <<>>
    /\ IF closedByPeer /\ "closed" \in mask THEN Dispatches(Notice("closed")) ELSE UNCHANGED <<told, refused>>
    /\ pc' = IF closedByPeer THEN "over" ELSE "wait"
    /\ UNCHANGED <<peer, sent, kernel, ended, mask, status, recvbuf, size, closedByPeer>>

\* The application's request, a failed EPOLLOUT, an idle link, a reload; or
\* EPOLLERR and EPOLLHUP, of which on_net_event() tells nobody.
Shutdown ==
    /\ pc = "wait" /\ status # "new"
    /\ status' = "closed" /\ pc' = "over"
    /\ UNCHANGED <<peer, sent, kernel, ended, mask, recvbuf, size, closedByPeer, told, refused>>

Peer == \/ \E len \in Lens, bad \in BOOLEAN : \E n \in 1 .. len : PeerSends(len, bad, n)
        \/ \E len \in Lens : \E n \in 1 .. len : PeerGoesOn(n)
        \/ \E how \in {"fin", "rst"} : PeerEnds(how)

Event == NewLink \/ Recv \/ RecvFails \/ CutMessage \/ CutBad \/ CutDone

Next == Peer \/ Event \/ Shutdown

Spec == Init /\ [][Next]_vars

\* The main loop keeps handling EPOLLIN; nothing makes the peer do anything.
FairSpec == Spec /\ WF_vars(Event)

-----------------------------------------------------------------------------
(* Properties *)

\* Every variable stays within the values the code can give it; the buffer
\* holds no more than its size.
TypeOK ==
    /\ peer \in Seq(Messages) /\ sent \in Nat /\ kernel \in Seq(Bytes) /\ ended \in {"no", "fin", "rst"}
    /\ mask \subseteq {"new", "closed"} /\ status \in {"new", "established", "closed"}
    /\ recvbuf \in Seq(Bytes) /\ size \in Nat \ {0} /\ Len(recvbuf) <= size
    /\ pc \in {"wait", "cut", "over"} /\ closedByPeer \in BOOLEAN
    /\ told \in Seq(Items) /\ refused \subseteq 0 .. MaxMsgs

\* recv() is never called with a full buffer: it would read nothing and the
\* link would be reported readable for ever.
RoomToRecv == pc = "wait" /\ status = "established" => Len(recvbuf) < size

\* The messages told to the application are those of the peer, whole, each
\* once, in order; only ones its queue refused are missing.
DataAt     == {i \in 1 .. Len(told) : told[i].kind = "data"}
IdAt(i)    == told[i].data[1].msg
Handled(m) == m \in refused \/ \E i \in DataAt : IdAt(i) = m
MessagesWhole == \A i \in DataAt :
    /\ told[i].data = Message(IdAt(i), peer[IdAt(i)].len)
    /\ \A j \in DataAt : i < j => IdAt(i) < IdAt(j)
    /\ \A m \in 1 .. IdAt(i) : Handled(m)

\* recv() and the loop that cuts its buffer lose, tear and repeat nothing, and
\* leave room for the bytes still to come.
RecvInv == TypeOK /\ RoomToRecv /\ MessagesWhole

\* The application hears of a connection first, of its end last, and of its end
\* only when every whole message before it has been told or refused.
EndsLast == \A i \in 1 .. Len(told) :
    /\ told[i].kind = "new" => i = 1
    /\ told[i].kind = "closed" => i = Len(told) /\ MsgpackSize(recvbuf) \notin 1 .. Len(recvbuf)

\* A message that has arrived whole is told or refused, unless an earlier one is
\* bad, the link is closed on this side, or the peer breaks the connection.
Arrived(m) == m < Len(peer) \/ (m = Len(peer) /\ sent = peer[m].len)
MessageHandled == \A m \in 1 .. MaxMsgs :
    Arrived(m) ~> Handled(m) \/ (pc = "over" /\ (closedByPeer => MsgpackSize(recvbuf) = Bad))

\* "link closed, notify appthread": when the peer has closed in order and the
\* notice is allowed, the application is told unless its queue is full, or a bad
\* message lies before the end.
CloseIsTold ==
    pc = "over" /\ closedByPeer /\ "closed" \in mask =>
        \/ 0 \in refused \/ MsgpackSize(recvbuf) = Bad
        \/ told # <<>> /\ Last(told).kind = "closed"

\* The end of a connection is told after all there is to tell, and it is told.
EndIsTold == EndsLast /\ CloseIsTold
=============================================================================
