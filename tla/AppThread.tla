----------------------------- MODULE AppThread -----------------------------
(***************************************************************************)
(* The main thread and one application thread, from start to join.  They   *)
(* talk through two ring queues, in_ (main to app) and out_ (app to main), *)
(* each of which is here the FIFO of whole messages that RingQueue is      *)
(* shown to implement.  A message is its number and its length, header     *)
(* msgpack_context_t included.                                             *)
(*                                                                         *)
(* Left out: the branch of _app_thread_main for a new[] that returns NULL  *)
(* (operator new throws), and the statistics.                              *)
(***************************************************************************)
EXTENDS Integers, Sequences, SequencesExt

CONSTANTS QueueLen,     \* bytes a queue holds (app_queue_len - 1)
          BlockHdr,     \* sizeof(ring_queue_t::ring_block_t)
          CtxLen,       \* sizeof(msgpack_context_t)
          BufLen,       \* initial msg_buf_size, 1024 in the code
          MsgLens,      \* lengths of whole messages
          MaxMsgs       \* bound: messages put into the two queues in all

ASSUME ATAssumption ==
    /\ QueueLen \in Nat /\ BlockHdr \in Nat \ {0} /\ CtxLen \in Nat \ {0}
    /\ BufLen \in Nat /\ MaxMsgs \in Nat
    /\ MsgLens \subseteq {n \in Nat : n >= CtxLen}

VARIABLES inq, outq,    \* in_, out_
          made,         \* history: messages put into either queue so far
          status,       \* th_status_
          freed,        \* in_ and out_ have been deleted
          apc, aclen, bufsize, amsg,    \* _app_thread_main
          mpc, mclen, mbuf, mmsg        \* calypso_main_t::main

avars == <<apc, aclen, bufsize, amsg>>
mvars == <<mpc, mclen, mbuf, mmsg>>
threadVars == <<inq, outq, made, status, freed, apc, aclen, bufsize, amsg,
               mpc, mclen, mbuf, mmsg>>

NoMessage == [id |-> 0, len |-> 0]

MaxOf(a, b) == IF a > b THEN a ELSE b

UsedLen(q) == FoldSeq(LAMBDA m, n : n + m.len + BlockHdr, 0, q)

HasRoom(q, len) == UsedLen(q) + BlockHdr + len <= QueueLen

\* get_consume_len()
ConsumeLen(q) == IF q = <<>> THEN 0 ELSE Head(q).len

Dead == apc = "aborted" \/ mpc = "aborted"     \* abort() ends the process

ThreadsInit ==
    /\ inq = <<>> /\ outq = <<>> /\ made = 0
    /\ status = "running" /\ freed = FALSE
    /\ apc = "loop" /\ aclen = 0 /\ bufsize = BufLen /\ amsg = NoMessage
    /\ mpc = "wait" /\ mclen = 0 /\ mbuf = BufLen /\ mmsg = NoMessage

-----------------------------------------------------------------------------
(* The application thread *)

\* The handler, or handle_tick_, sends at most one message: a full queue makes
\* calypso_send_msgpack_by_ctx() fail and the message is lost.
AppSends ==
    \/ UNCHANGED <<outq, made>>
    \/ \E len \in MsgLens :
          /\ made < MaxMsgs /\ HasRoom(outq, len)
          /\ made' = made + 1
          /\ outq' = Append(outq, [id |-> made', len |-> len])

\* while (th_status_ != app_stop): tick, or leave.
AppTick ==
    /\ apc = "loop" /\ status # "stop"
    /\ AppSends
    /\ apc' = "peek"
    /\ UNCHANGED <<inq, status, freed, aclen, bufsize, amsg, mvars>>

AppExit ==
    /\ apc = "loop" /\ status = "stop"
    /\ apc' = "exited"
    /\ UNCHANGED <<inq, outq, made, status, freed, aclen, bufsize, amsg, mvars>>

\* get_consume_len(), and a larger buffer if it needs one.
AppPeek ==
    /\ apc = "peek"
    /\ aclen' = ConsumeLen(inq)
    /\ bufsize' = MaxOf(bufsize, ConsumeLen(inq))
    /\ apc' = "consume"
    /\ UNCHANGED <<inq, outq, made, status, freed, amsg, mvars>>

\* An empty queue that does not end the inner loop.
AppDrainedRetries ==
    /\ apc = "consume" /\ ConsumeLen(inq) = 0
    /\ apc' = "peek"
    /\ UNCHANGED <<inq, outq, made, status, freed, aclen, bufsize, amsg, mvars>>

\* An empty queue that ends the thread.
AppDrainedLeaves ==
    /\ apc = "consume" /\ ConsumeLen(inq) = 0
    /\ apc' = "exited"
    /\ UNCHANGED <<inq, outq, made, status, freed, aclen, bufsize, amsg, mvars>>

\* consume() returns 0: no more messages, sleep and start over.
AppDrained ==
    /\ apc = "consume" /\ ConsumeLen(inq) = 0
    /\ apc' = "loop"
    /\ UNCHANGED <<inq, outq, made, status, freed, aclen, bufsize, amsg, mvars>>

\* consume() returns -1, the buffer being too small: abort().
AppAbort ==
    /\ apc = "consume" /\ ConsumeLen(inq) > bufsize
    /\ apc' = "aborted"
    /\ UNCHANGED <<inq, outq, made, status, freed, aclen, bufsize, amsg, mvars>>

AppConsume ==
    /\ apc = "consume" /\ ConsumeLen(inq) \in 1 .. bufsize
    /\ amsg' = Head(inq) /\ inq' = Tail(inq)
    /\ apc' = "handle"
    /\ UNCHANGED <<outq, made, status, freed, aclen, bufsize, mvars>>

\* handle_msgpack_(..., clen - sizeof(msgctx))
AppHandle ==
    /\ apc = "handle"
    /\ AppSends
    /\ apc' = "peek" /\ amsg' = NoMessage
    /\ UNCHANGED <<inq, status, freed, aclen, bufsize, mvars>>

App == AppTick \/ AppExit \/ AppPeek \/ AppDrained \/ AppAbort \/ AppConsume \/ AppHandle

-----------------------------------------------------------------------------
(* The main thread *)

\* network_.wait(): dispatch_msg_to_app() for any number of events; a full
\* queue makes it return -1, and the event is lost.
Dispatch(len) ==
    /\ mpc = "wait" /\ made < MaxMsgs /\ HasRoom(inq, len)
    /\ made' = made + 1
    /\ inq' = Append(inq, [id |-> made', len |-> len])
    /\ UNCHANGED <<outq, status, freed, avars, mvars>>

WaitDone ==
    /\ mpc = "wait"
    /\ mpc' = "drain"
    /\ UNCHANGED <<inq, outq, made, status, freed, avars, mclen, mbuf, mmsg>>

\* The buffer cannot be made large enough: skip_consume(), and go on.
MainSkip ==
    /\ mpc = "drain" /\ ConsumeLen(outq) > mbuf
    /\ mclen' = ConsumeLen(outq)
    /\ outq' = Tail(outq)
    /\ UNCHANGED <<inq, made, status, freed, avars, mpc, mbuf, mmsg>>

\* A process_appthread_msg() without the break on an empty queue.
MainPeekNoBreak ==
    /\ mpc = "drain"
    /\ mclen' = ConsumeLen(outq)
    /\ mbuf' = MaxOf(mbuf, ConsumeLen(outq))
    /\ \/ mpc' = "consume"
       \/ mclen' = 0 /\ mpc' = "next"
    /\ UNCHANGED <<inq, outq, made, status, freed, avars, mmsg>>

\* process_appthread_msg(): get_consume_len(), done when it is 0.
MainPeek ==
    /\ mpc = "drain"
    /\ mclen' = ConsumeLen(outq)
    /\ mbuf' = MaxOf(mbuf, ConsumeLen(outq))
    /\ mpc' = IF ConsumeLen(outq) > 0 THEN "consume" ELSE "next"
    /\ UNCHANGED <<inq, outq, made, status, freed, avars, mmsg>>

\* consume(), and sending mclen - sizeof(msgctx) bytes of what it copied.
MainConsume ==
    /\ mpc = "consume"
    /\ IF outq = <<>> THEN UNCHANGED <<outq, mmsg>>
       ELSE outq' = Tail(outq) /\ mmsg' = Head(outq)
    /\ mpc' = "send"
    /\ UNCHANGED <<inq, made, status, freed, avars, mclen, mbuf>>

MainSend ==
    /\ mpc = "send"
    /\ mpc' = "drain"
    /\ UNCHANGED <<inq, outq, made, status, freed, avars, mclen, mbuf, mmsg>>

\* while (!need_stop())
MainLoop ==
    /\ mpc = "next"
    /\ mpc' = "wait"
    /\ UNCHANGED <<inq, outq, made, status, freed, avars, mclen, mbuf, mmsg>>

StopWithoutStatus ==
    /\ mpc = "next"
    /\ mpc' = "join"
    /\ UNCHANGED <<inq, outq, made, status, freed, avars, mclen, mbuf, mmsg>>

\* need_stop(), then stop_appthread() up to pthread_join().
Stop ==
    /\ mpc = "next"
    /\ status' = "stop" /\ mpc' = "join"
    /\ UNCHANGED <<inq, outq, made, freed, avars, mclen, mbuf, mmsg>>

\* pthread_join() returned: the queues and what is left in them go.
FreeQueues ==
    /\ mpc = "join" /\ apc = "exited"
    /\ freed' = TRUE /\ inq' = <<>> /\ outq' = <<>> /\ mpc' = "done"
    /\ UNCHANGED <<made, status, avars, mclen, mbuf, mmsg>>

Main == \/ \E len \in MsgLens : Dispatch(len)
        \/ WaitDone \/ MainSkip \/ MainPeek \/ MainConsume \/ MainSend \/ MainLoop
        \/ Stop \/ FreeQueues

ThreadsNext == ~Dead /\ (App \/ Main)

ThreadsSpec == ThreadsInit /\ [][ThreadsNext]_threadVars

\* Both threads keep running; wait() returns (its epoll_wait has a timeout),
\* and nothing says that events or a stop signal ever come.
FairThreadsSpec ==
    /\ ThreadsSpec
    /\ WF_threadVars(~Dead /\ App)
    /\ WF_threadVars(~Dead /\ (WaitDone \/ MainPeek \/ MainConsume \/ MainSend \/ FreeQueues))

-----------------------------------------------------------------------------
(* Properties *)

Message == [id : 1 .. MaxMsgs, len : MsgLens]

\* Every variable stays within the values the code can give it.
ThreadsTypeOK ==
    /\ inq \in Seq(Message) /\ outq \in Seq(Message) /\ made \in 0 .. MaxMsgs
    /\ status \in {"running", "stop"} /\ freed \in BOOLEAN
    /\ apc \in {"loop", "peek", "consume", "handle", "exited", "aborted"}
    /\ aclen \in Nat /\ bufsize \in Nat
    /\ amsg \in Message \cup {NoMessage} /\ mmsg \in Message \cup {NoMessage}
    /\ mpc \in {"wait", "drain", "consume", "send", "next", "join", "done"}
    /\ mclen \in Nat /\ mbuf \in Nat

\* What process_appthread_msg() sends is the message it consumed, whole: the
\* length it read before consume() is that message's.
MainSendsWholeMessage == mpc = "send" => mmsg.len = mclen /\ mclen <= mbuf

\* The application thread never touches a queue stop_appthread() has deleted.
NoUseAfterFree == freed => apc = "exited"

\* The two threads and the queues between them: the look before a consume holds
\* in process_appthread_msg(), and the join comes before the queues are deleted.
AppInv == ThreadsTypeOK /\ MainSendsWholeMessage /\ NoUseAfterFree

\* "mem structure [msgctx][data..]": the handler is given the length of the
\* message that was consumed.
HandlerGetsWholeMessage == apc = "handle" => aclen = amsg.len

\* A message that is dispatched is taken by the application unless the thread
\* is told to stop (or the process dies).
InQueue(i) == \E k \in 1 .. Len(inq) : inq[k].id = i
DispatchedIsTaken ==
    \A i \in 1 .. MaxMsgs : InQueue(i) ~> ~InQueue(i) \/ status = "stop" \/ Dead

\* pthread_join() returns: a thread told to stop leaves its loops.
JoinReturns == mpc = "join" ~> mpc = "done" \/ Dead
=============================================================================
