------------------------------ MODULE Calypso ------------------------------
(***************************************************************************)
(* calypso_main_t between the network and the application.  A message to   *)
(* the application carries a msgpack_context_t: the index and descriptor   *)
(* its link has at that moment.  The application may keep it for as long   *)
(* as it likes and answer with it, once or often; by then both the index   *)
(* and the descriptor may serve another connection.                        *)
(*                                                                         *)
(* The specification follows one context, chosen anywhere in a run, while  *)
(* the network goes on and the application sends on and closes any link.   *)
(***************************************************************************)
EXTENDS Network

CONSTANT Followed   \* bound: the links of which a context may be followed

VARIABLE ctx        \* the context followed, or NoCtx

cvars == <<vars, ctx>>

NoCtx == [link |-> Nil, fd |-> Nil, life |-> "none", ahead |-> {}]

\* life of the connection the context came with: live; ended, and the link not
\* opened since; reopened; recycled, its slot has been in the free list since.
\* ahead: the slots that were free when this one became free, and have not been
\* given out or given back since.
Contexts == [link : Links \cup {Nil}, fd : Fds \cup {Nil},
             life : {"none", "live", "ended", "reopened", "recycled"},
             ahead : SUBSET Links]

CalypsoInit == Init /\ ctx = NoCtx

-----------------------------------------------------------------------------
(* What a step of the network means for the context *)

Before(s, i, j) ==
    \E k, l \in 1 .. Len(s) : k < l /\ s[k] = i /\ s[l] = j

\* What becomes of c.  anew: the step closed its link and opened it again, maybe
\* with the descriptor it had.  A context is followed until its slot has been
\* given out again: from then on it says nothing any more, and another may be.
Aged(c, anew) ==
    LET i    == c.link
        over == anew \/ c.life = "ended" \/ sock'.fd[i] # c.fd
    IN  CASE c = NoCtx -> c
          [] c.life = "recycled" /\ i \notin Free -> NoCtx
          [] c.life = "recycled" /\ i \in Free ->
                [c EXCEPT !.ahead = {k \in @ :
                    /\ InList(lists', lfree, k)
                    /\ ~(Before(lists[lfree], k, i) /\ Before(lists'[lfree], i, k))}]
          [] c.life # "recycled" /\ InList(lists', lfree, i) ->
                [c EXCEPT !.life = "recycled", !.ahead = Free \ {i}]
          [] c.life \in {"live", "ended"} /\ over /\ ~InList(lists', lfree, i) ->
                [c EXCEPT !.life = IF sock'.fd[i] = Nil THEN "ended" ELSE "reopened"]
          [] OTHER -> c

\* net_event_handler(): a message may go to the application, with the link's
\* index and the descriptor it has before recv() may close it.
Tells(i, fd) ==
    \/ ctx' = Aged(ctx, FALSE)
    \/ /\ ctx = NoCtx /\ i \in Followed
       /\ ctx' = Aged([link |-> i, fd |-> fd, life |-> "live", ahead |-> {}], FALSE)

TellsNewConnection(e) ==
    LET c == Head(lists[lfree])
    IN  Accept(e) /\ Tells(c, sock'.fd[c])

TellsDataAfterClose(e) ==
    /\ \/ EventConnected(e, TRUE) \/ EventCloses(e)
       \/ \E sent \in {"untouched", "some", "all"} : EventData(e, TRUE, sent)
    /\ Tells(Target(e), sock'.fd[Target(e)])

\* Data, the end of the connection, or both: in the latter case the link is shut
\* down before the application can look at the message.
TellsData(e) ==
    /\ \/ EventConnected(e, TRUE) \/ EventCloses(e)
       \/ \E sent \in {"untouched", "some", "all"} : EventData(e, TRUE, sent)
    /\ Tells(Target(e), e.fd)

TellsNothing(e) ==
    /\ \/ AcceptFails(e) \/ EventConnected(e, FALSE)
       \/ \E sent \in {"untouched", "some", "all"} : EventData(e, FALSE, sent)
    /\ ctx' = Aged(ctx, FALSE)

\* recover() of the link closes it and opens it again.
Reopens == /\ RecoverFails \/ RecoverSucceeds
           /\ ctx' = Aged(ctx, cursor = ctx.link)

\* The rest of the main loop tells the application nothing.
Silent ==
    /\ \/ \E dt \in {0, 1} : Refresh(dt) \/ RefreshLoadsBad(dt)
       \/ Reload \/ StartRecover \/ RecoverRecycles \/ RecoverTooSoon
       \/ StartCheck \/ CheckLink
       \/ \E batch \in SUBSET Ready : EpollWait(batch)
       \/ EventsDone \/ App \/ AppDone
    /\ ctx' = Aged(ctx, FALSE)

CalypsoNext ==
    \/ \E e \in fired : TellsNewConnection(e) \/ TellsData(e) \/ TellsNothing(e)
    \/ Reopens \/ Silent

CalypsoSpec == CalypsoInit /\ [][CalypsoNext]_cvars

\* send_by_context() sends: it finds the link open, with the descriptor of the
\* context.  (mpf_close_link asks for less: shutdown_link() goes by the index.)
AnswerSent ==
    /\ ctx # NoCtx
    /\ sock.status[ctx.link] # "closed"
    /\ sock.fd[ctx.link] = ctx.fd

-----------------------------------------------------------------------------
(* Properties *)

\* The context is none, or one the code could have built.
CtxTypeOK == ctx \in Contexts /\ (ctx # NoCtx => ctx.link \in Links /\ ctx.fd \in Fds)

\* send_by_context(): as long as its connection lives an answer is sent, and on a
\* link that has a send buffer, which listening links have not.
LiveIsAnswered ==
    ctx.life = "live" => AnswerSent /\ type[ctx.link] # "server"

\* "already closed, cant send": once its connection is over nothing is sent until
\* the link is opened again or its slot given to another.
OverIsRefused ==
    ctx.life = "ended" \/ (ctx # NoCtx /\ ctx.link \in Free) => ~AnswerSent

\* mpf_close_link goes by index, and index and descriptor are all that
\* send_by_context() compares.  What protects another connection is that a slot
\* is given out again only after all that were free when it became free.
ReusedAfterAllOthers ==
    ctx.life = "recycled" /\ ctx.link \notin Free => ctx.ahead = {}

\* A connection that ends without its slot becoming free is one this side makes,
\* for a link that is configured or was until a load failed: only there can an
\* answer reach the next connection of the same link.
EndedIsClients ==
    ctx.life \in {"ended", "reopened"} =>
        type[ctx.link] = "client" /\ ctx.link \in conf \cup orphans

\* What send_by_context() makes of a context while its connection lives, once it
\* is over, and when its link or its slot is in use again.
AnswersMatch == CtxTypeOK /\ LiveIsAnswered /\ OverIsRefused /\ EndedIsClients
=============================================================================
