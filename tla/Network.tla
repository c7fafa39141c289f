------------------------------ MODULE Network ------------------------------
(***************************************************************************)
(* calypso_network_t and the netlink_t objects in it, driven by the main   *)
(* loop of calypso_main_t: reload, recover(), check_idle_netlink(),        *)
(* wait(), process_appthread_msg().  One thread runs all of it, so one     *)
(* step is what happens to one link: a link visited by a walk, an event    *)
(* of a batch, a request of the application.                               *)
(*                                                                         *)
(* The lists are those of ListOps, which LinkedList is shown to implement. *)
(* The kernel is external: which sockets are open, which are in the epoll  *)
(* set and with what interest, what connect() and accept() answer.         *)
(*                                                                         *)
(* Left out: received bytes and the content of the send buffer (only       *)
(* whether it holds anything), options, addresses, the user buffers, an    *)
(* error event on a listening socket (the kernel reports none).            *)
(***************************************************************************)
EXTENDS ListOps, FiniteSets

CONSTANTS N,            \* fd_capacity: links, and bound of the descriptors
          FdBase,       \* the first descriptor the process has not in use
          MaxFired,     \* max_fired_num
          MaxRecover, MaxCheck,             \* links per recover(), check_idle
          MinRest, ConnTimeout, MaxIdle,    \* seconds
          MaxConf       \* bound: links configured at one time, or left over from
                        \* a configuration that has been forgotten

ASSUME NetAssumption ==
    /\ N \in Nat /\ FdBase \in 1 .. N /\ MaxConf \in Nat
    /\ MaxFired \in Nat \ {0} /\ MaxRecover \in Nat /\ MaxCheck \in Nat
    /\ MinRest \in Nat /\ ConnTimeout \in Nat /\ MaxIdle \in Nat

Links == 0 .. N - 1
Fds   == FdBase .. N - 1
Nil   == -1

lfree == 0  lused == 1  lerror == 2

Types    == {"client", "server", "accept"}
Statuses == {"closed", "open", "connecting", "established", "listening"}

VARIABLES lists,        \* link_list_
          type,         \* opt_.ltype_ of each link
          sock,         \* descriptors and what hangs on them, see Sockets
          idle,         \* seconds since last_active_time_, for links in use
          rest,         \* seconds since last_recover_time_
          unsent,       \* has_data_in_sendbuf(), for links in use
          conf,         \* the _link_id's of netconfig_
          orphans,      \* ghost: those a load that failed has forgotten
          pc,           \* the stage of the main loop
          cursor, left, \* walk_list(): the link to visit, how many may follow
          fired         \* fired_events_ not handled yet, with the link each had

vars == <<lists, type, sock, idle, rest, unsent, conf, orphans, pc, cursor, left, fired>>

\* What do_close(), socket() and epoll_ctl() change.
Sockets == [fd     : [Links -> Fds \cup {Nil}],
            status : [Links -> Statuses],
            fd2idx : [Fds -> Links \cup {Nil}],
            watch  : [Fds -> {"no", "in", "inout", "oneshot", "spent"}],
            open   : SUBSET Fds]        \* the kernel's open sockets

Used  == Members(lists[lused])
Free  == Members(lists[lfree])
Error == Members(lists[lerror])

Least(a, b) == IF a < b THEN a ELSE b

HeadOf(ls, l) == IF ls[l] = <<>> THEN Nil ELSE Head(ls[l])

\* nodes_[i].list_
ListOf(ls, i) == CHOOSE l \in DOMAIN ls : InList(ls, l, i)

\* nodes_[i].next_
NextOf(ls, i) ==
    LET s == ls[ListOf(ls, i)]
        k == PlaceOf(s, i)
    IN  IF k < Len(s) THEN s[k + 1] ELSE Nil

Init ==
    /\ lists = [l \in {lfree, lused, lerror} |->
                    IF l = lfree THEN [k \in 1 .. N |-> k - 1] ELSE <<>>]
    /\ type = [i \in Links |-> "client"]
    /\ sock = [fd     |-> [i \in Links |-> Nil],
               status |-> [i \in Links |-> "closed"],
               fd2idx |-> [f \in Fds |-> Nil],
               watch  |-> [f \in Fds |-> "no"],
               open   |-> {}]
    /\ idle = [i \in Links |-> 0] /\ rest = [i \in Links |-> MinRest]
    /\ unsent = [i \in Links |-> FALSE]
    /\ conf = {} /\ orphans = {} /\ pc = "opening"
    /\ cursor = Nil /\ left = 0 /\ fired = {}

-----------------------------------------------------------------------------
(* netlink_t and on_link_status_change() *)

DoCloseKeepsMap(s, i) ==
    IF s.fd[i] = Nil THEN s
    ELSE [s EXCEPT !.fd[i] = Nil, !.status[i] = "closed",
                   !.watch[s.fd[i]] = "no", !.open = @ \ {s.fd[i]}]

\* do_close(), and on_link_status_change() on nsc_closed.
DoClose(s, i) ==
    IF s.fd[i] = Nil THEN s
    ELSE [s EXCEPT !.fd[i] = Nil, !.status[i] = "closed",
                   !.fd2idx[s.fd[i]] = Nil, !.watch[s.fd[i]] = "no",
                   !.open = @ \ {s.fd[i]}]

\* The kernel gives out the lowest free descriptor; on_link_status_change()
\* refuses one that is not below N, and setup() closes it again.
NewFds(s) == {f \in Fds \ s.open : \A g \in Fds \ s.open : f <= g}

\* setup() of a new socket, fd its descriptor.
Setup(s, i, fd) == [s EXCEPT !.fd[i] = fd, !.status[i] = "open", !.open = @ \cup {fd}]

\* mod_status(st) with its epoll_ctl() succeeding.
Watched(s, i, st, interest) ==
    [s EXCEPT !.status[i] = st, !.fd2idx[s.fd[i]] = i, !.watch[s.fd[i]] = interest]

\* What setup() and configure() of a socket of type t may come to: no socket;
\* no bind(), connect() or listen(); no epoll_ctl().
Failures(s, i, t) ==
    {s} \cup {Setup(s, i, fd) : fd \in NewFds(s)}
        \cup {[Setup(s, i, fd) EXCEPT !.status[i] = st] :
                  fd \in NewFds(s),
                  st \in IF t = "server" THEN {"listening"} ELSE {"connecting", "established"}}

Successes(s, i, t) ==
    IF t = "server"
    THEN {Watched(Setup(s, i, fd), i, "listening", "in") : fd \in NewFds(s)}
    ELSE {Watched(Setup(s, i, fd), i, "connecting", "oneshot") : fd \in NewFds(s)}
         \cup {Watched(Setup(s, i, fd), i, "established", "in") : fd \in NewFds(s)}

-----------------------------------------------------------------------------
(* calypso_network_t *)

\* update_used_list()
UpdateUsedList(ls, i) == IF InList(ls, lused, i) THEN ToTail(ls, lused, i) ELSE ls

MovedToErrorWatched(ls, s, i) ==
    [ls |-> IF InList(ls, lused, i)
            THEN Moved(ToHead(ls, lused, i), lused, lerror) ELSE ls,
     s  |-> s]

\* move_link_to_error_list(): the socket stays open, out of the epoll set.
\* move_before() refuses a link that is not in the used list.
MovedToError(ls, s, i) ==
    [ls |-> IF InList(ls, lused, i)
            THEN Moved(ToHead(ls, lused, i), lused, lerror) ELSE ls,
     s  |-> IF s.fd[i] = Nil THEN s ELSE [s EXCEPT !.watch[s.fd[i]] = "no"]]

RecycledInFront(ls, i) ==
    LET l == ListOf(ls, i)
    IN  ToHead(Moved(ToHead(ls, l, i), l, lfree), lfree, i)

\* recycle_link(), of a link in any list.
Recycled(ls, i) ==
    LET l == ListOf(ls, i)
    IN  Moved(ToHead(ls, l, i), l, lfree)

Recycle(i) ==
    /\ sock' = DoClose(sock, i)
    /\ lists' = Recycled(lists, i)
    /\ rest' = [rest EXCEPT ![i] = MinRest]     \* last_recover_time_ = 0
    /\ unsent' = [unsent EXCEPT ![i] = FALSE]

ShutdownRecyclesAll(i) == Recycle(i)

\* shutdown_link()
Shutdown(i) ==
    IF type[i] = "accept" THEN Recycle(i)
    ELSE LET moved == MovedToError(lists, DoClose(sock, i), i)
         IN  /\ lists' = moved.ls /\ sock' = moved.s
             /\ unsent' = [unsent EXCEPT ![i] = FALSE]
             /\ UNCHANGED rest

\* close_link(), for a link that left the configuration.
CloseLink(i) ==
    /\ pc = "closing" /\ i \in conf
    /\ Recycle(i)
    /\ conf' = conf \ {i}
    /\ UNCHANGED <<type, idle, orphans, pc, cursor, left, fired>>

\* create_link(), for a link that is new in the configuration.
CreateLink(t) ==
    /\ pc = "opening" /\ Cardinality(conf \cup orphans) < MaxConf /\ lists[lfree] # <<>>
    /\ LET i     == Head(lists[lfree])
           taken == Moved(lists, lfree, lused)
       IN  /\ type' = [type EXCEPT ![i] = t]
           /\ conf' = conf \cup {i}
           /\ idle' = [idle EXCEPT ![i] = 0]
           /\ \/ sock' \in Successes(sock, i, t) /\ lists' = taken
              \/ \E s \in Failures(sock, i, t) :
                    LET moved == MovedToError(taken, s, i)
                    IN  lists' = moved.ls /\ sock' = moved.s
    /\ UNCHANGED <<rest, unsent, orphans, pc, cursor, left, fired>>

-----------------------------------------------------------------------------
(* recover() *)

Visit(next) == cursor' = next /\ left' = left - 1

RecoverSkipsAccepted ==
    /\ pc = "recover" /\ cursor # Nil /\ left > 0
    /\ type[cursor] = "accept"
    /\ Visit(NextOf(lists, cursor))
    /\ UNCHANGED <<lists, type, sock, idle, rest, unsent, conf, orphans, pc, fired>>

\* An accepted connection is not recovered but recycled; the walk then goes on
\* from where the link is now, the tail of the free list.
RecoverRecycles ==
    /\ pc = "recover" /\ cursor # Nil /\ left > 0
    /\ type[cursor] = "accept"
    /\ Recycle(cursor)
    /\ Visit(NextOf(lists', cursor))
    /\ UNCHANGED <<type, idle, conf, orphans, pc, fired>>

\* "prevent recovering frequently"
RecoverTooSoon ==
    /\ pc = "recover" /\ cursor # Nil /\ left > 0
    /\ type[cursor] # "accept" /\ rest[cursor] < MinRest
    /\ Visit(NextOf(lists, cursor))
    /\ UNCHANGED <<lists, type, sock, idle, rest, unsent, conf, orphans, pc, fired>>

\* The link keeps its place; a socket it got before the failure stays open.
RecoverFails ==
    /\ pc = "recover" /\ cursor # Nil /\ left > 0
    /\ type[cursor] # "accept" /\ rest[cursor] >= MinRest
    /\ sock' \in Failures(DoClose(sock, cursor), cursor, type[cursor])
    /\ rest' = [rest EXCEPT ![cursor] = 0]
    /\ unsent' = [unsent EXCEPT ![cursor] = FALSE]
    /\ Visit(NextOf(lists, cursor))
    /\ UNCHANGED <<lists, type, idle, conf, orphans, pc, fired>>

\* The swap() brings the link to the head of the error list, which move() takes.
RecoverSucceeds ==
    /\ pc = "recover" /\ cursor # Nil /\ left > 0
    /\ type[cursor] # "accept" /\ rest[cursor] >= MinRest
    /\ sock' \in Successes(DoClose(sock, cursor), cursor, type[cursor])
    /\ rest' = [rest EXCEPT ![cursor] = 0]
    /\ idle' = [idle EXCEPT ![cursor] = 0]
    /\ unsent' = [unsent EXCEPT ![cursor] = FALSE]
    /\ lists' = IF cursor \in Used THEN lists
                ELSE Moved(Swapped(lists, HeadOf(lists, lerror), cursor), lerror, lused)
    /\ Visit(NextOf(lists, cursor))
    /\ UNCHANGED <<type, conf, orphans, pc, fired>>

-----------------------------------------------------------------------------
(* check_idle_netlink() *)

ExpiredOnlyConnected(i) == idle[i] >= MaxIdle /\ sock.status[i] # "connecting"

Expired(i) == \/ sock.status[i] = "connecting" /\ idle[i] >= ConnTimeout
              \/ idle[i] >= MaxIdle

CheckLink ==
    /\ pc = "check" /\ cursor # Nil /\ left > 0
    /\ Visit(NextOf(lists, cursor))
    /\ IF type[cursor] # "server" /\ Expired(cursor)
       THEN LET moved == MovedToError(lists, sock, cursor)
            IN  /\ lists' = moved.ls /\ sock' = moved.s
                /\ idle' = [idle EXCEPT ![cursor] = 0]
                /\ unsent' = [unsent EXCEPT ![cursor] = FALSE]
       ELSE UNCHANGED <<lists, sock, idle, unsent>>
    /\ UNCHANGED <<type, rest, conf, orphans, pc, fired>>

-----------------------------------------------------------------------------
(* wait() *)

Ready == {f \in Fds : sock.watch[f] \in {"in", "inout", "oneshot"}}

\* epoll_wait() with a timeout of 0; EPOLLONESHOT disables what it reports.
EpollWait(batch) ==
    /\ pc = "check" /\ (cursor = Nil \/ left = 0)
    /\ batch \subseteq Ready /\ Cardinality(batch) <= MaxFired
    /\ fired' = {[fd |-> f, link |-> sock.fd2idx[f]] : f \in batch}
    /\ sock' = [sock EXCEPT !.watch = [f \in Fds |->
                    IF f \in batch /\ @[f] = "oneshot" THEN "spent" ELSE @[f]]]
    /\ pc' = "events" /\ cursor' = Nil /\ left' = 0
    /\ UNCHANGED <<lists, type, idle, rest, unsent, conf, orphans>>

\* An event finds its link by descriptor.  Where get_link() returned NULL the
\* event would be dropped; FiredCurrent says it never does.
Handles(e) == pc = "events" /\ e \in fired /\ fired' = fired \ {e}
Target(e)  == sock.fd2idx[e.fd]

\* EPOLLERR or EPOLLHUP, or a handler that fails or closes the link: the
\* connection is over, whatever the order in which it is found out.
EventCloses(e) ==
    /\ Handles(e) /\ Target(e) # Nil
    /\ type[Target(e)] # "server"
    /\ Shutdown(Target(e))
    /\ UNCHANGED <<type, idle, conf, orphans, pc, cursor, left>>

\* A handshake that does not move the link out of connecting.
EventConnectedStays(e, in) ==
    LET i == Target(e)
    IN  /\ Handles(e) /\ i # Nil
        /\ sock.status[i] = "connecting"
        /\ lists' = UpdateUsedList(lists, i)
        /\ UNCHANGED <<type, sock, idle, rest, unsent, conf, orphans, pc, cursor, left>>

\* The handshake is over: set_established(), EPOLL_CTL_MOD; with EPOLLIN data
\* has been received as well.  Data waiting in the send buffer arms EPOLLOUT.
EventConnected(e, in) ==
    LET i == Target(e)
    IN  /\ Handles(e) /\ i # Nil
        /\ sock.status[i] = "connecting"
        /\ sock' = [sock EXCEPT !.status[i] = "established",
                                !.watch[e.fd] = IF unsent[i] THEN "inout" ELSE "in"]
        /\ idle' = IF in THEN [idle EXCEPT ![i] = 0] ELSE idle
        /\ lists' = UpdateUsedList(lists, i)
        /\ UNCHANGED <<type, rest, unsent, conf, orphans, pc, cursor, left>>

\* Data received, data sent, or both.  sent says what became of the send
\* buffer: not "untouched" only with EPOLLOUT armed and something in it.
EventData(e, in, sent) ==
    LET i == Target(e)
    IN  /\ Handles(e) /\ i # Nil
        /\ sock.status[i] = "established"
        /\ in \/ sock.watch[e.fd] = "inout"
        /\ sent # "untouched" => sock.watch[e.fd] = "inout" /\ unsent[i]
        /\ ~in /\ unsent[i] => sent # "untouched"
        /\ unsent' = [unsent EXCEPT ![i] = @ /\ sent # "all"]
        /\ sock' = [sock EXCEPT !.watch[e.fd] =
                        IF sent = "all" THEN "in" ELSE IF unsent[i] THEN "inout" ELSE @]
        /\ idle' = IF in \/ sent # "untouched" THEN [idle EXCEPT ![i] = 0] ELSE idle
        /\ lists' = UpdateUsedList(lists, i)
        /\ UNCHANGED <<type, rest, conf, orphans, pc, cursor, left>>

\* accept_link() fails: no free link, or accept() or setup() of the new one;
\* in the latter case the link has been to the used list and back.
AcceptFails(e) ==
    LET i == Target(e)
        ls == UpdateUsedList(lists, i)
    IN  /\ Handles(e) /\ i # Nil
        /\ sock.status[i] = "listening"
        /\ \/ lists' = ls /\ lists[lfree] = <<>> /\ UNCHANGED <<type, rest>>
           \/ /\ lists[lfree] # <<>>
              /\ lists' = Moved(ls, lfree, lfree)
              /\ rest' = [rest EXCEPT ![Head(lists[lfree])] = MinRest]
              /\ type' \in {type, [type EXCEPT ![Head(lists[lfree])] = "accept"]}
        /\ UNCHANGED <<sock, idle, unsent, conf, orphans, pc, cursor, left>>

Accept(e) ==
    LET i == Target(e)
        c == Head(lists[lfree])
    IN  /\ Handles(e) /\ i # Nil
        /\ sock.status[i] = "listening" /\ lists[lfree] # <<>>
        /\ lists' = Moved(UpdateUsedList(lists, i), lfree, lused)
        /\ type' = [type EXCEPT ![c] = "accept"]
        /\ \E fd \in NewFds(sock) :
              sock' = Watched(Setup(sock, c, fd), c, "established", "in")
        /\ idle' = [idle EXCEPT ![c] = 0]
        /\ UNCHANGED <<rest, unsent, conf, orphans, pc, cursor, left>>

-----------------------------------------------------------------------------
(* process_appthread_msg() *)

\* mpf_close_link: the index comes from a message sent while the link may have
\* been in other hands.
AppCloses(i) ==
    /\ pc = "app"
    /\ Shutdown(i)
    /\ UNCHANGED <<type, idle, conf, orphans, pc, cursor, left, fired>>

\* send_by_context(), send_by_group(): what the kernel does not take stays in
\* the send buffer.  EPOLLOUT is not armed here.
AppSends(i) ==
    /\ pc = "app"
    /\ type[i] # "server" /\ sock.status[i] \in {"connecting", "established"}
    /\ IF i \in Used
       THEN /\ \E b \in BOOLEAN : unsent' = [unsent EXCEPT ![i] = b]
            /\ idle' = [idle EXCEPT ![i] = 0]
       ELSE UNCHANGED <<unsent, idle>>
    /\ UNCHANGED <<lists, type, sock, rest, conf, orphans, pc, cursor, left, fired>>

-----------------------------------------------------------------------------
(* The main loop *)

\* refresh_nowtime() at the top: a second may have passed.  idle and
\* unsent are kept for used links only, since nothing reads them of others, and
\* idle not for listening ones, which never expire.
TimePasses(dt) ==
    /\ pc = "top"
    /\ idle' = [i \in Links |-> IF i \in Used /\ type[i] # "server"
                               THEN Least(idle[i] + dt, MaxIdle) ELSE 0]
    /\ rest' = [i \in Links |-> Least(rest[i] + dt, MinRest)]
    /\ UNCHANGED <<lists, type, sock, unsent, cursor, left, fired>>

\* need_reload() and a file that load() finds good, or neither of them; a file
\* that is not there changes nothing.
Refresh(dt) ==
    /\ TimePasses(dt)
    /\ pc' \in {"closing", "opened"}
    /\ UNCHANGED <<conf, orphans>>

\* need_reload() and a bad file: load() has cleared conf_ when it fails, and
\* reload_config() returns.  The links stay, and no reload will close them.
RefreshLoadsBad(dt) ==
    /\ TimePasses(dt)
    /\ pc' = "opened"
    /\ conf' = {} /\ orphans' = orphans \cup conf

\* walk_diff() closes what is gone before it opens what is new.
AllClosed ==
    /\ pc = "closing" /\ pc' = "opening"
    /\ UNCHANGED <<lists, type, sock, idle, rest, unsent, conf, orphans, cursor, left, fired>>

StartRecoverUsed ==
    /\ pc \in {"opening", "opened"} /\ pc' = "recover"
    /\ cursor' = HeadOf(lists, lused) /\ left' = MaxRecover
    /\ UNCHANGED <<lists, type, sock, idle, rest, unsent, conf, orphans, fired>>

StartRecover ==
    /\ pc \in {"opening", "opened"} /\ pc' = "recover"
    /\ cursor' = HeadOf(lists, lerror) /\ left' = MaxRecover
    /\ UNCHANGED <<lists, type, sock, idle, rest, unsent, conf, orphans, fired>>

StartCheck ==
    /\ pc = "recover" /\ (cursor = Nil \/ left = 0) /\ pc' = "check"
    /\ cursor' = HeadOf(lists, lused) /\ left' = MaxCheck
    /\ UNCHANGED <<lists, type, sock, idle, rest, unsent, conf, orphans, fired>>

EventsDone ==
    /\ pc = "events" /\ fired = {} /\ pc' = "app"
    /\ UNCHANGED <<lists, type, sock, idle, rest, unsent, conf, orphans, cursor, left, fired>>

AppDone ==
    /\ pc = "app" /\ pc' = "top"
    /\ UNCHANGED <<lists, type, sock, idle, rest, unsent, conf, orphans, cursor, left, fired>>

Reload == \/ \E i \in conf : CloseLink(i)
          \/ AllClosed
          \/ \E t \in {"client", "server"} : CreateLink(t)

Recover == \/ RecoverRecycles \/ RecoverTooSoon \/ RecoverFails \/ RecoverSucceeds

Event(e) == \/ EventCloses(e) \/ AcceptFails(e) \/ Accept(e)
            \/ \E in \in BOOLEAN :
                  \/ EventConnected(e, in)
                  \/ \E sent \in {"untouched", "some", "all"} : EventData(e, in, sent)

App == \E i \in Links : AppCloses(i) \/ AppSends(i)

Next == \/ \E dt \in {0, 1} : Refresh(dt) \/ RefreshLoadsBad(dt)
        \/ Reload \/ StartRecover \/ Recover \/ StartCheck \/ CheckLink
        \/ \E batch \in SUBSET Ready : EpollWait(batch)
        \/ \E e \in fired : Event(e)
        \/ EventsDone \/ App \/ AppDone

Spec == Init /\ [][Next]_vars

\* The main loop keeps turning, the application's messages of one turn come to
\* an end, and time goes by.
FairSpec ==
    /\ Spec
    /\ WF_vars(Next) /\ WF_vars(AppDone) /\ SF_vars(Refresh(1) \/ RefreshLoadsBad(1))

-----------------------------------------------------------------------------
(* Properties *)

\* Every variable stays within the values the code can give it.
TypeOK ==
    /\ lists \in [{lfree, lused, lerror} -> Seq(Links)]
    /\ type \in [Links -> Types] /\ sock \in Sockets
    /\ idle \in [Links -> 0 .. MaxIdle] /\ rest \in [Links -> 0 .. MinRest]
    /\ unsent \in [Links -> BOOLEAN] /\ conf \subseteq Links /\ orphans \subseteq Links
    /\ pc \in {"closing", "opening", "opened", "recover", "check", "events", "app", "top"}
    /\ cursor \in Links \cup {Nil} /\ left \in Nat
    /\ fired \subseteq [fd : Fds, link : Links]

\* No descriptor is held by two links, and none is open that no link holds.
NoFdLeak ==
    /\ sock.open = {sock.fd[i] : i \in Links} \ {Nil}
    /\ \A i, j \in Links : sock.fd[i] # Nil /\ sock.fd[i] = sock.fd[j] => i = j

\* fd2idx_ names only the link that holds the descriptor now.
MapIsCurrent == \A f \in Fds : sock.fd2idx[f] # Nil => sock.fd[sock.fd2idx[f]] = f

\* Links, descriptors and fd2idx_ agree, whichever system call failed before.
DescriptorsAgree == TypeOK /\ NoFdLeak /\ MapIsCurrent

\* What a link in each status waits for; "spent" only until its event is handled.
Interest == [connecting  |-> {"oneshot", "spent"},
             established |-> {"in", "inout"},
             listening   |-> {"in"}]

\* A link in the used list has a socket at work, which the map knows, and which
\* the epoll set watches for what its status waits for; so its events reach it.
UsedIsServed == \A i \in Used :
    /\ sock.status[i] \in {"connecting", "established", "listening"}
    /\ sock.fd2idx[sock.fd[i]] = i
    /\ sock.watch[sock.fd[i]] \in Interest[sock.status[i]]

\* Only links of the used list are in the epoll set: an idle link waiting to be
\* recovered receives nothing (wait() could not handle it).
OnlyUsedWatched == \A f \in Fds : sock.watch[f] # "no" => sock.fd2idx[f] \in Used

\* The used list and the epoll set are one: no link is in one of them only.
UsedAreWatched == UsedIsServed /\ OnlyUsedWatched

\* A link that connects is told how that ends: the one-shot event is still
\* armed, or it is in the batch being handled.
ConnectingArmed == \A i \in Used :
    sock.status[i] = "connecting" =>
        \/ sock.watch[sock.fd[i]] = "oneshot"
        \/ [fd |-> sock.fd[i], link |-> i] \in fired

\* However the events before it went, an event of the batch finds the link its
\* descriptor belonged to when epoll_wait() returned, still in the used list.
FiredCurrent == \A e \in fired : sock.fd2idx[e.fd] = e.link /\ e.link \in Used

\* No event is lost for a link that waits for it, and none reaches another one.
EventsReachLinks == ConnectingArmed /\ FiredCurrent

\* A configured link is never recycled behind the configuration's back, and a
\* link that is not free is configured, accepted, or left over from a
\* configuration that a load that failed has forgotten: such a link keeps its
\* slot for good, and no later configuration is given it.
SlotsAccounted ==
    /\ (conf \cup orphans) \cap Free = {} /\ conf \cap orphans = {}
    /\ \A i \in conf \cup orphans : type[i] # "accept"
    /\ \A i \in Used \cup Error : type[i] = "accept" \/ i \in conf \cup orphans
    /\ \A i \in Free : sock.status[i] = "closed"

\* recover() leaves the links that work alone.
HealthyUntouchedStep ==
    pc = "recover" => \A i \in Used :
        InList(lists', lused, i) /\ sock'.fd[i] = sock.fd[i] /\ sock'.status[i] = sock.status[i]
HealthyUntouched == [][HealthyUntouchedStep]_vars

Connecting(i) == i \in Used /\ sock.status[i] = "connecting"

\* check_idle_netlink() that visits every link: a connection attempt comes to an
\* end, answered, given up or closed, unless the application sends on it for
\* ever, since send() of the link starts its idle time again.
ConnectEnds == MaxCheck >= N => \A i \in Links :
    []<>~Connecting(i) \/ []<><<AppSends(i) /\ Connecting(i)>>_vars

\* "retry error connection", by a recover() that visits every link: no link stays
\* in the error list for ever without being tried once its rest is over.
ErrorRetried == MaxRecover >= N /\ MinRest > 0 => \A i \in Links :
    []<>~(i \in Error /\ rest[i] = MinRest)

\* The slot of a connection that idled out comes back, where recover() visits
\* every link.
IdleReclaimed == MaxRecover >= N => \A i \in Links :
    []<>~(i \in Error /\ type[i] = "accept")
=============================================================================
