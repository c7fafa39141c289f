---------------------------- MODULE CalypsoProofs ----------------------------
(***************************************************************************)
(* Theorems about calypso_network_t, and about a context the application   *)
(* keeps while the network goes on, for any number of links, of            *)
(* descriptors and of events in a batch, and any time-outs.                *)
(*                                                                         *)
(* The first part is about the network alone.  What a step does to the     *)
(* lists and to the sockets is stated for any lists ls and any sockets s,  *)
(* so that the steps that combine the same operations share the lemmas     *)
(* about them.  The second part is about what send_by_context() makes of a *)
(* context while its connection lives, once it is over, and when its link  *)
(* or its slot serves another connection.                                  *)
(***************************************************************************)
EXTENDS Calypso, ListOpsProofs

LinkLists == {lfree, lused, lerror}

UsedIn(ls) == Members(ls[lused])
FreeIn(ls) == Members(ls[lfree])

\* Each link is in one place of one list.
ListsOK(ls) ==
    /\ ListsOf(ls, LinkLists, Links)
    /\ \A i \in Links : \E l \in LinkLists : i \in Members(ls[l])

\* Links, descriptors and fd2idx_ agree; exactly the links with a descriptor are
\* not closed.
SocketsOK(s) ==
    /\ s \in Sockets
    /\ s.open = {s.fd[i] : i \in Links} \ {Nil}
    /\ \A i, j \in Links : s.fd[i] # Nil /\ s.fd[i] = s.fd[j] => i = j
    /\ \A f \in Fds : s.fd2idx[f] # Nil => s.fd[s.fd2idx[f]] = f
    /\ \A i \in Links : s.status[i] = "closed" <=> s.fd[i] = Nil

\* wait() can serve link i.
Served(s, i) ==
    /\ s.fd[i] # Nil
    /\ s.status[i] \in {"connecting", "established", "listening"}
    /\ s.fd2idx[s.fd[i]] = i
    /\ s.watch[s.fd[i]] # "no"
    /\ s.watch[s.fd[i]] \in Interest[s.status[i]]

\* The lists and the epoll set agree, but maybe for link i, which is being moved.
AgreeBut(ls, s, i) ==
    /\ \A j \in UsedIn(ls) \ {i} : Served(s, j)
    /\ \A f \in Fds : s.watch[f] # "no" => s.fd2idx[f] \in UsedIn(ls)
    /\ \A j \in FreeIn(ls) : s.status[j] = "closed"

Agree(ls, s) == AgreeBut(ls, s, Nil)

\* A link that connects is told how that ends; an event finds its link.
Reach(ls, s, F) ==
    /\ \A i \in UsedIn(ls) : s.status[i] = "connecting" =>
            s.watch[s.fd[i]] = "oneshot" \/ [fd |-> s.fd[i], link |-> i] \in F
    /\ \A e \in F : s.fd2idx[e.fd] = e.link /\ e.link \in UsedIn(ls)

\* No link of cf is free, and every link that is not free is of cf or accepted;
\* cf are the links that are configured or were until a load failed.
Accounted(ls, ty, cf) ==
    /\ cf \cap FreeIn(ls) = {}
    /\ \A i \in cf : ty[i] # "accept"
    /\ \A i \in Links \ FreeIn(ls) : ty[i] = "accept" \/ i \in cf

\* Of the links in use the servers listen, and only they.
Roles(ls, ty, s) == \A i \in UsedIn(ls) : ty[i] = "server" <=> s.status[i] = "listening"

\* A walk stands on a link of the list it walks.
WalkOK(ls, p, c) ==
    c # Nil => \/ p = "recover" /\ c \in Members(ls[lerror])
               \/ p = "check" /\ c \in UsedIn(ls)

\* Events are pending only while wait() handles them.
FiredOK == fired # {} => pc = "events"

\* Lists, sockets, roles and configuration go together.
Core ==
    /\ ListsOK(lists) /\ SocketsOK(sock) /\ Agree(lists, sock)
    /\ Reach(lists, sock, fired)
    /\ Accounted(lists, type, conf \cup orphans) /\ Roles(lists, type, sock)
    /\ type \in [Links -> Types]
    /\ conf \subseteq Links /\ orphans \subseteq Links /\ conf \cap orphans = {}
    /\ fired \subseteq [fd : Fds, link : Links]

\* The main loop, and what the links keep that their use does not depend on.
Loop ==
    /\ WalkOK(lists, pc, cursor) /\ FiredOK
    /\ idle \in [Links -> 0 .. MaxIdle] /\ rest \in [Links -> 0 .. MinRest]
    /\ unsent \in [Links -> BOOLEAN]
    /\ pc \in {"closing", "opening", "opened", "recover", "check", "events", "app", "top"}
    /\ cursor \in Links \cup {Nil} /\ left \in Nat

\* The inductive invariant.
NetInv == Core /\ Loop

\* s and t differ in link i, or in descriptors nobody has in s, only.
SameBut(s, t, i) ==
    \A j \in Links \ {i} :
        /\ t.fd[j] = s.fd[j] /\ t.status[j] = s.status[j]
        /\ s.fd[j] # Nil => /\ t.fd2idx[s.fd[j]] = s.fd2idx[s.fd[j]]
                            /\ t.watch[s.fd[j]] = s.watch[s.fd[j]]

-----------------------------------------------------------------------------
(* The sockets *)

\* No index and no descriptor is -1.
LEMMA NilIsNone == Nil \notin Links /\ Nil \notin Fds /\ Links \subseteq Int /\ Fds \subseteq Nat
BY NetAssumption DEF Nil, Links, Fds

\* What a field of the sockets holds.
LEMMA SocketFields ==
    ASSUME NEW s \in Sockets
    PROVE  /\ s.fd \in [Links -> Fds \cup {Nil}]
           /\ s.status \in [Links -> Statuses]
           /\ s.fd2idx \in [Fds -> Links \cup {Nil}]
           /\ s.watch \in [Fds -> {"no", "in", "inout", "oneshot", "spent"}]
           /\ s.open \in SUBSET Fds
           /\ s = [fd |-> s.fd, status |-> s.status, fd2idx |-> s.fd2idx,
                   watch |-> s.watch, open |-> s.open]
BY DEF Sockets

\* Sockets remain sockets when a status is set.
LEMMA SetStatus ==
    ASSUME NEW s \in Sockets, NEW i \in Links, NEW st \in Statuses
    PROVE  [s EXCEPT !.status[i] = st] \in Sockets
BY DEF Sockets

\* A descriptor that is not open belongs to no link, and nothing hangs on it.
LEMMA NotOpen ==
    ASSUME NEW s, SocketsOK(s), NEW f \in Fds \ s.open
    PROVE  /\ \A i \in Links : s.fd[i] # f
           /\ s.fd2idx[f] = Nil
<1>1. \A i \in Links : s.fd[i] # f BY NilIsNone DEF SocketsOK
<1>2. s.fd2idx[f] \in Links \cup {Nil} BY SocketFields DEF SocketsOK
<1> QED BY <1>1, <1>2 DEF SocketsOK

\* do_close() with on_link_status_change().
LEMMA DoCloseEffect ==
    ASSUME NEW s, SocketsOK(s), NEW i \in Links
    PROVE  LET t == DoClose(s, i)
           IN  /\ SocketsOK(t) /\ SameBut(s, t, i)
               /\ t.fd[i] = Nil /\ t.status[i] = "closed"
               /\ \A f \in Fds : f # s.fd[i] =>
                      t.fd2idx[f] = s.fd2idx[f] /\ t.watch[f] = s.watch[f]
               /\ s.fd[i] # Nil => t.watch[s.fd[i]] = "no"
<1> DEFINE t == DoClose(s, i)
<1>0. s \in Sockets BY DEF SocketsOK
<1>1. CASE s.fd[i] = Nil
      BY <1>1 DEF DoClose, SameBut, SocketsOK
<1>2. CASE s.fd[i] # Nil
  <2>1. s.fd[i] \in Fds BY <1>0, <1>2, SocketFields
  <2>2. t = [fd     |-> [s.fd EXCEPT ![i] = Nil],
             status |-> [s.status EXCEPT ![i] = "closed"],
             fd2idx |-> [s.fd2idx EXCEPT ![s.fd[i]] = Nil],
             watch  |-> [s.watch EXCEPT ![s.fd[i]] = "no"],
             open   |-> s.open \ {s.fd[i]}]
        BY <1>0, <1>2 DEF DoClose, Sockets
  <2>3. t \in Sockets
        BY <1>0, <2>1, <2>2, SocketFields DEF Sockets, Statuses
  <2> HIDE DEF t
  <2>4. /\ t.fd[i] = Nil /\ t.status[i] = "closed"
        /\ \A j \in Links \ {i} : t.fd[j] = s.fd[j] /\ t.status[j] = s.status[j]
        /\ \A f \in Fds \ {s.fd[i]} : t.fd2idx[f] = s.fd2idx[f] /\ t.watch[f] = s.watch[f]
        /\ t.fd2idx[s.fd[i]] = Nil /\ t.watch[s.fd[i]] = "no"
        /\ t.open = s.open \ {s.fd[i]}
        BY <1>0, <2>1, <2>2, SocketFields
  <2>5. \A j \in Links \ {i} : s.fd[j] # s.fd[i] BY <1>2 DEF SocketsOK
  <2>6. \A j \in Links : s.fd[j] \in Fds \cup {Nil} BY <1>0, SocketFields
  <2>7. SameBut(s, t, i) BY <2>4, <2>5, <2>6 DEF SameBut
  <2>8. t.open = {t.fd[j] : j \in Links} \ {Nil}
        BY <2>4, <2>5 DEF SocketsOK
  <2>9. \A f \in Fds : s.fd2idx[f] # Nil => s.fd2idx[f] \in Links
        BY <1>0, SocketFields
  <2>10. \A f \in Fds : t.fd2idx[f] # Nil => t.fd[t.fd2idx[f]] = f
        BY <2>4, <2>9 DEF SocketsOK
  <2>11. SocketsOK(t) BY <2>3, <2>4, <2>8, <2>10 DEF SocketsOK
  <2> QED BY <2>4, <2>7, <2>11 DEF t
<1> QED BY <1>1, <1>2

\* setup() of a new socket for a closed link.
LEMMA SetupEffect ==
    ASSUME NEW s, SocketsOK(s), NEW i \in Links, s.fd[i] = Nil, NEW fd \in NewFds(s)
    PROVE  LET t == Setup(s, i, fd)
           IN  /\ SocketsOK(t) /\ SameBut(s, t, i)
               /\ t.fd[i] = fd /\ fd \in Fds \ s.open
               /\ t.fd2idx = s.fd2idx /\ t.watch = s.watch
<1> DEFINE t == Setup(s, i, fd)
<1>0. s \in Sockets BY DEF SocketsOK
<1>1. fd \in Fds \ s.open BY DEF NewFds
<1>2. /\ t.fd = [s.fd EXCEPT ![i] = fd]
      /\ t.status = [s.status EXCEPT ![i] = "open"]
      /\ t.fd2idx = s.fd2idx /\ t.watch = s.watch
      /\ t.open = s.open \cup {fd}
      BY <1>0 DEF Setup, Sockets
<1>3. t \in Sockets BY <1>0, <1>1 DEF Setup, Sockets, Statuses
<1> HIDE DEF t
<1>4. /\ t.fd[i] = fd /\ t.status[i] = "open"
      /\ \A j \in Links \ {i} : t.fd[j] = s.fd[j] /\ t.status[j] = s.status[j]
      BY <1>0, <1>2, SocketFields
<1>5. fd # Nil /\ \A j \in Links : s.fd[j] # fd BY <1>1, NotOpen, NilIsNone
<1>6. SameBut(s, t, i) BY <1>2, <1>4 DEF SameBut
<1>7. t.open = {t.fd[j] : j \in Links} \ {Nil} BY <1>2, <1>4, <1>5 DEF SocketsOK
<1>8. \A f \in Fds : s.fd2idx[f] # Nil => s.fd2idx[f] \in Links
      BY <1>0, SocketFields
<1>9. \A f \in Fds : t.fd2idx[f] # Nil => t.fd[t.fd2idx[f]] = f
      BY <1>2, <1>4, <1>8, NilIsNone DEF SocketsOK
<1>10. SocketsOK(t) BY <1>3, <1>4, <1>5, <1>7, <1>9 DEF SocketsOK
<1> QED BY <1>1, <1>2, <1>4, <1>6, <1>10 DEF t

\* mod_status() of an open link.
LEMMA SetStatusEffect ==
    ASSUME NEW s, SocketsOK(s), NEW i \in Links, s.fd[i] # Nil,
           NEW st \in Statuses \ {"closed"}
    PROVE  LET t == [s EXCEPT !.status[i] = st]
           IN  /\ SocketsOK(t) /\ SameBut(s, t, i)
               /\ t.fd = s.fd /\ t.status[i] = st
               /\ t.fd2idx = s.fd2idx /\ t.watch = s.watch
<1> DEFINE t == [s EXCEPT !.status[i] = st]
<1>0. s \in Sockets BY DEF SocketsOK
<1>1. t \in Sockets BY <1>0, SetStatus
<1>2. /\ t.fd = s.fd /\ t.fd2idx = s.fd2idx /\ t.watch = s.watch /\ t.open = s.open
      /\ t.status = [s.status EXCEPT ![i] = st]
      BY <1>0 DEF Sockets
<1> HIDE DEF t
<1>3. t.status[i] = st /\ \A j \in Links \ {i} : t.status[j] = s.status[j]
      BY <1>0, <1>2, SocketFields
<1>4. SameBut(s, t, i) BY <1>2, <1>3 DEF SameBut
<1>5. SocketsOK(t) BY <1>1, <1>2, <1>3 DEF SocketsOK
<1> QED BY <1>2, <1>3, <1>4, <1>5 DEF t

\* mod_status() with its epoll_ctl().
LEMMA WatchedEffect ==
    ASSUME NEW s, SocketsOK(s), NEW i \in Links, s.fd[i] # Nil,
           NEW st \in Statuses \ {"closed"}, NEW w \in {"in", "inout", "oneshot", "spent"}
    PROVE  LET t == Watched(s, i, st, w)
           IN  /\ SocketsOK(t) /\ SameBut(s, t, i)
               /\ t.fd = s.fd /\ t.status[i] = st
               /\ t.fd2idx[s.fd[i]] = i /\ t.watch[s.fd[i]] = w
               /\ \A f \in Fds \ {s.fd[i]} : t.fd2idx[f] = s.fd2idx[f] /\ t.watch[f] = s.watch[f]
<1> DEFINE t == Watched(s, i, st, w)
<1>0. s \in Sockets BY DEF SocketsOK
<1>1. s.fd[i] \in Fds BY <1>0, SocketFields
<1>2. t \in Sockets BY <1>0, <1>1 DEF Watched, Sockets
<1>3. /\ t.fd = s.fd /\ t.open = s.open
      /\ t.status = [s.status EXCEPT ![i] = st]
      /\ t.fd2idx = [s.fd2idx EXCEPT ![s.fd[i]] = i]
      /\ t.watch = [s.watch EXCEPT ![s.fd[i]] = w]
      BY <1>0 DEF Watched, Sockets
<1> HIDE DEF t
<1>4. /\ t.status[i] = st /\ \A j \in Links \ {i} : t.status[j] = s.status[j]
      /\ t.fd2idx[s.fd[i]] = i /\ t.watch[s.fd[i]] = w
      /\ \A f \in Fds \ {s.fd[i]} : t.fd2idx[f] = s.fd2idx[f] /\ t.watch[f] = s.watch[f]
      BY <1>0, <1>1, <1>3, SocketFields
<1>5. \A j \in Links : s.fd[j] \in Fds \cup {Nil} BY <1>0, SocketFields
<1>6. \A j \in Links \ {i} : s.fd[j] # s.fd[i] BY DEF SocketsOK
<1>7. SameBut(s, t, i) BY <1>3, <1>4, <1>5, <1>6 DEF SameBut
<1>8. \A f \in Fds : t.fd2idx[f] # Nil => t.fd[t.fd2idx[f]] = f
      BY <1>3, <1>4 DEF SocketsOK
<1>9. SocketsOK(t) BY <1>2, <1>3, <1>4, <1>8 DEF SocketsOK
<1> QED BY <1>3, <1>4, <1>7, <1>9 DEF t

\* Whatever configure() fails at, nothing is known or watched of the socket.
LEMMA FailuresEffect ==
    ASSUME NEW s, SocketsOK(s), NEW i \in Links, s.fd[i] = Nil, NEW ty \in Types,
           NEW t \in Failures(s, i, ty)
    PROVE  /\ SocketsOK(t) /\ SameBut(s, t, i)
           /\ t.fd2idx = s.fd2idx /\ t.watch = s.watch
<1>1. CASE t = s BY <1>1 DEF SameBut
<1>2. ASSUME NEW fd \in NewFds(s), t = Setup(s, i, fd)
      PROVE  /\ SocketsOK(t) /\ SameBut(s, t, i)
             /\ t.fd2idx = s.fd2idx /\ t.watch = s.watch
      BY <1>2, SetupEffect
<1>3. ASSUME NEW fd \in NewFds(s), NEW st \in {"listening", "connecting", "established"},
             t = [Setup(s, i, fd) EXCEPT !.status[i] = st]
      PROVE  /\ SocketsOK(t) /\ SameBut(s, t, i)
             /\ t.fd2idx = s.fd2idx /\ t.watch = s.watch
  <2> DEFINE u == Setup(s, i, fd)
  <2>1. /\ SocketsOK(u) /\ SameBut(s, u, i) /\ u.fd[i] = fd /\ fd \in Fds
        /\ u.fd2idx = s.fd2idx /\ u.watch = s.watch
        BY SetupEffect
  <2> HIDE DEF u
  <2>2. u.fd[i] # Nil /\ st \in Statuses \ {"closed"} BY <2>1, NilIsNone DEF Statuses
  <2>3. t = [u EXCEPT !.status[i] = st] BY <1>3 DEF u
  <2>4. /\ SocketsOK(t) /\ SameBut(u, t, i) /\ t.fd2idx = u.fd2idx /\ t.watch = u.watch
        BY <2>1, <2>2, <2>3, SetStatusEffect
  <2> QED BY <2>1, <2>4 DEF SameBut
<1> QED BY <1>1, <1>2, <1>3 DEF Failures

\* After configure() the socket is at work, known and watched.
LEMMA SuccessesEffect ==
    ASSUME NEW s, SocketsOK(s), NEW i \in Links, s.fd[i] = Nil, NEW ty \in Types,
           NEW t \in Successes(s, i, ty)
    PROVE  /\ SocketsOK(t) /\ SameBut(s, t, i) /\ Served(t, i)
           /\ t.fd[i] \in Fds \ s.open
           /\ t.status[i] = "listening" <=> ty = "server"
           /\ t.status[i] = "connecting" => t.watch[t.fd[i]] = "oneshot"
           /\ \A f \in Fds \ {t.fd[i]} : t.fd2idx[f] = s.fd2idx[f] /\ t.watch[f] = s.watch[f]
<1>1. PICK fd \in NewFds(s), st \in {"listening", "connecting", "established"},
           w \in {"in", "oneshot"} :
        /\ t = Watched(Setup(s, i, fd), i, st, w)
        /\ st = "listening" <=> ty = "server"
        /\ st = "connecting" => w = "oneshot"
        /\ w \in Interest[st]
      BY DEF Successes, Interest
<1> DEFINE u == Setup(s, i, fd)
<1>2. /\ SocketsOK(u) /\ SameBut(s, u, i) /\ u.fd[i] = fd /\ fd \in Fds \ s.open
      /\ u.fd2idx = s.fd2idx /\ u.watch = s.watch
      BY SetupEffect
<1> HIDE DEF u
<1>3. u.fd[i] # Nil /\ st \in Statuses \ {"closed"} BY <1>2, NilIsNone DEF Statuses
<1>4. t = Watched(u, i, st, w) BY <1>1 DEF u
<1>5. /\ SocketsOK(t) /\ SameBut(u, t, i)
      /\ t.fd = u.fd /\ t.status[i] = st
      /\ t.fd2idx[u.fd[i]] = i /\ t.watch[u.fd[i]] = w
      /\ \A f \in Fds \ {u.fd[i]} : t.fd2idx[f] = u.fd2idx[f] /\ t.watch[f] = u.watch[f]
      BY <1>2, <1>3, <1>4, WatchedEffect
<1>6. SameBut(s, t, i) BY <1>2, <1>5 DEF SameBut
<1>7. Served(t, i) BY <1>1, <1>3, <1>5 DEF Served
<1> QED BY <1>1, <1>2, <1>5, <1>6, <1>7

-----------------------------------------------------------------------------
(* The lists *)

\* What list a link is in.
LEMMA ListOfLink ==
    ASSUME NEW ls, ListsOK(ls), NEW i \in Links
    PROVE  ListOf(ls, i) \in LinkLists /\ i \in Members(ls[ListOf(ls, i)])
<1>1. DOMAIN ls = LinkLists BY DEF ListsOK, ListsOf
<1>2. \E l \in DOMAIN ls : InList(ls, l, i) BY <1>1 DEF ListsOK, InList
<1> QED BY <1>1, <1>2 DEF InList, ListOf

\* A link in one list is in no other.
LEMMA OneList ==
    ASSUME NEW ls, ListsOK(ls)
    PROVE  /\ \A l \in LinkLists : ls[l] \in Seq(Links) /\ Members(ls[l]) \subseteq Links
           /\ \A l, m \in LinkLists : l # m => Members(ls[l]) \cap Members(ls[m]) = {}
           /\ \A i \in Links : i \in Members(ls[lfree]) \/ i \in Members(ls[lused])
                                  \/ i \in Members(ls[lerror])
           /\ lfree \in LinkLists /\ lused \in LinkLists /\ lerror \in LinkLists
           /\ lfree # lused /\ lused # lerror /\ lfree # lerror
<1>1. \A l \in LinkLists : ls[l] \in Seq(Links) BY DEF ListsOK, ListsOf
<1>2. \A l \in LinkLists : Members(ls[l]) \subseteq Links BY <1>1, MembersEmpty
<1> QED BY <1>1, <1>2 DEF ListsOK, ListsOf, LinkLists, lfree, lused, lerror

\* move() between the lists of the network.
LEMMA MovedOK ==
    ASSUME NEW ls, ListsOK(ls), NEW src \in LinkLists, NEW dst \in LinkLists, ls[src] # <<>>
    PROVE  LET new == Moved(ls, src, dst)
               i   == Head(ls[src])
           IN  /\ ListsOK(new) /\ i \in Members(ls[src]) /\ i \in Links
               /\ MovedTo(ls, new, LinkLists, i, dst)
               /\ new[dst][Len(new[dst])] = i
<1> DEFINE new == Moved(ls, src, dst)
           i   == Head(ls[src])
<1>1. ListsOf(ls, LinkLists, Links) BY DEF ListsOK
<1>2. /\ ListsOf(new, LinkLists, Links)
      /\ i \in Members(ls[src]) /\ i \in Links
      /\ MovedTo(ls, new, LinkLists, i, dst)
      /\ new[dst][Len(new[dst])] = i
      BY <1>1, MovedLists
<1> HIDE DEF new, i
<1>3. \A j \in Links : \E l \in LinkLists : j \in Members(new[l])
  <2> TAKE j \in Links
  <2>1. PICK l \in LinkLists : j \in Members(ls[l]) BY DEF ListsOK
  <2>2. CASE j = i BY <1>2, <2>2 DEF MovedTo
  <2>3. CASE j # i BY <1>2, <2>1, <2>3 DEF MovedTo
  <2> QED BY <2>2, <2>3
<1> QED BY <1>2, <1>3 DEF ListsOK, new, i

\* A link brought to the head of its list, and moved from there.
LEMMA TakenOut ==
    ASSUME NEW ls, ListsOK(ls), NEW l \in LinkLists, NEW dst \in LinkLists,
           NEW i \in Members(ls[l])
    PROVE  LET new == Moved(ToHead(ls, l, i), l, dst)
           IN  /\ ListsOK(new)
               /\ MovedTo(ls, new, LinkLists, i, dst)
               /\ new[dst][Len(new[dst])] = i
<1> DEFINE ahead == ToHead(ls, l, i)
<1>1. ListsOf(ls, LinkLists, Links) BY DEF ListsOK
<1>2. /\ ListsOf(ahead, LinkLists, Links)
      /\ SameMembers(ls, ahead, LinkLists)
      /\ ahead[l] # <<>> /\ Head(ahead[l]) = i
      BY <1>1, ToHeadLists
<1> HIDE DEF ahead
<1>3. ListsOK(ahead) BY <1>2 DEF ListsOK, SameMembers
<1>4. LET new == Moved(ahead, l, dst)
      IN  /\ ListsOK(new)
          /\ MovedTo(ahead, new, LinkLists, i, dst)
          /\ new[dst][Len(new[dst])] = i
      BY <1>2, <1>3, MovedOK
<1> QED BY <1>2, <1>4 DEF ahead, MovedTo, SameMembers

\* recycle_link(): the link is the last to be given out again.
LEMMA RecycledOK ==
    ASSUME NEW ls, ListsOK(ls), NEW i \in Links
    PROVE  LET new == Recycled(ls, i)
           IN  /\ ListsOK(new)
               /\ MovedTo(ls, new, LinkLists, i, lfree)
               /\ new[lfree][Len(new[lfree])] = i
<1> DEFINE l == ListOf(ls, i)
<1>1. l \in LinkLists /\ i \in Members(ls[l]) BY ListOfLink
<1>2. Recycled(ls, i) = Moved(ToHead(ls, l, i), l, lfree) BY DEF Recycled
<1> HIDE DEF l
<1>3. lfree \in LinkLists BY DEF LinkLists
<1> QED BY <1>1, <1>2, <1>3, TakenOut

\* update_used_list() puts links of the used list in another order.
LEMMA UpdatedOK ==
    ASSUME NEW ls, ListsOK(ls), NEW i \in Links
    PROVE  LET new == UpdateUsedList(ls, i)
           IN  /\ ListsOK(new)
               /\ SameMembers(ls, new, LinkLists)
               /\ new[lfree] = ls[lfree] /\ new[lerror] = ls[lerror]
<1>0. lfree # lused /\ lerror # lused /\ LinkLists = {lfree, lused, lerror}
      BY DEF LinkLists, lfree, lused, lerror
<1>1. CASE ~InList(ls, lused, i) BY <1>1 DEF UpdateUsedList, SameMembers
<1>2. CASE InList(ls, lused, i)
  <2>1. ListsOf(ls, LinkLists, Links) BY DEF ListsOK
  <2>2. i \in Members(ls[lused]) BY <1>2 DEF InList
  <2> DEFINE new == ToTail(ls, lused, i)
  <2>3. /\ ListsOf(new, LinkLists, Links)
        /\ SameMembers(ls, new, LinkLists)
        /\ \A m \in LinkLists : m # lused => new[m] = ls[m]
        BY <1>0, <2>1, <2>2, ToTailLists
  <2> HIDE DEF new
  <2>4. ListsOK(new) BY <2>3 DEF ListsOK, SameMembers
  <2>5. UpdateUsedList(ls, i) = new BY <1>2 DEF UpdateUsedList, new
  <2> QED BY <1>0, <2>3, <2>4, <2>5
<1> QED BY <1>1, <1>2

\* The next link of a list is another one of the same list; the last has none.
LEMMA NextOfLink ==
    ASSUME NEW ls, ListsOK(ls), NEW m \in LinkLists, NEW i \in Members(ls[m])
    PROVE  /\ NextOf(ls, i) \in (Members(ls[m]) \ {i}) \cup {Nil}
           /\ ls[m][Len(ls[m])] = i => NextOf(ls, i) = Nil
<1>1. ls[m] \in Seq(Links) /\ Distinct(ls[m]) BY DEF ListsOK, ListsOf
<1>2. i \in Links BY OneList
<1> DEFINE l == ListOf(ls, i)
           k == PlaceOf(ls[m], i)
<1>3. l \in LinkLists /\ i \in Members(ls[l]) BY <1>2, ListOfLink
<1>4. l = m BY <1>3, OneList
<1>5. NextOf(ls, i) = IF k < Len(ls[m]) THEN ls[m][k + 1] ELSE Nil
      BY <1>4 DEF NextOf
<1>6. k \in 1 .. Len(ls[m]) /\ ls[m][k] = i BY <1>1, PlaceOfMember
<1> HIDE DEF l, k
<1>7. Len(ls[m]) \in Nat BY <1>1, LenProperties
<1>8. CASE k < Len(ls[m])
  <2>1. k + 1 \in 1 .. Len(ls[m]) /\ k + 1 # k BY <1>6, <1>7, <1>8
  <2>2. ls[m][k + 1] \in Members(ls[m]) BY <2>1 DEF Members
  <2>3. ls[m][k + 1] # i BY <1>1, <1>6, <2>1 DEF Distinct
  <2>4. ls[m][Len(ls[m])] # i
    <3>1. Len(ls[m]) \in 1 .. Len(ls[m]) /\ Len(ls[m]) # k BY <1>6, <1>7, <1>8
    <3> QED BY <1>1, <1>6, <3>1 DEF Distinct
  <2> QED BY <1>5, <1>8, <2>2, <2>3, <2>4
<1>9. CASE ~(k < Len(ls[m])) BY <1>5, <1>9
<1> QED BY <1>8, <1>9

\* get_head() of a list.
LEMMA HeadOfList ==
    ASSUME NEW ls, ListsOK(ls), NEW l \in LinkLists
    PROVE  /\ HeadOf(ls, l) \in Members(ls[l]) \cup {Nil}
           /\ ls[l] # <<>> => HeadOf(ls, l) = Head(ls[l]) /\ Head(ls[l]) \in Members(ls[l])
<1>1. ls[l] \in Seq(Links) /\ Distinct(ls[l]) BY DEF ListsOK, ListsOf
<1>2. ls[l] # <<>> => Head(ls[l]) \in Members(ls[l]) BY <1>1, TailOf
<1> QED BY <1>2 DEF HeadOf

-----------------------------------------------------------------------------
(* Lists and sockets together *)

\* A link that is served has the descriptor, and only it.
LEMMA ServedFrame ==
    ASSUME NEW s, SocketsOK(s), NEW t, NEW i, SameBut(s, t, i),
           NEW j \in Links \ {i}, Served(s, j)
    PROVE  Served(t, j)
BY DEF Served, SameBut

\* recycle_link(): do_close(), and the link goes to the free list.
LEMMA RecycleAgree ==
    ASSUME NEW ls, ListsOK(ls), NEW s, SocketsOK(s), Agree(ls, s), NEW i \in Links
    PROVE  Agree(Recycled(ls, i), DoClose(s, i))
<1> DEFINE new == Recycled(ls, i)
           t   == DoClose(s, i)
<1>1. /\ ListsOK(new) /\ UsedIn(new) = UsedIn(ls) \ {i} /\ FreeIn(new) = FreeIn(ls) \cup {i}
  <2>1. ListsOK(new) /\ MovedTo(ls, new, LinkLists, i, lfree) BY RecycledOK
  <2>2. lused \in LinkLists \ {lfree} BY OneList
  <2> QED BY <2>1, <2>2 DEF UsedIn, FreeIn, MovedTo
<1>2. /\ SameBut(s, t, i) /\ t.status[i] = "closed"
      /\ \A f \in Fds : f # s.fd[i] => t.fd2idx[f] = s.fd2idx[f] /\ t.watch[f] = s.watch[f]
      /\ s.fd[i] # Nil => t.watch[s.fd[i]] = "no"
      BY DoCloseEffect
<1> HIDE DEF new, t
<1>3. UsedIn(ls) \subseteq Links /\ FreeIn(ls) \subseteq Links BY OneList DEF UsedIn, FreeIn
<1>4. \A j \in UsedIn(new) : Served(t, j)
      BY <1>1, <1>2, <1>3, ServedFrame, NilIsNone DEF Agree, AgreeBut
<1>5. ASSUME NEW f \in Fds, t.watch[f] # "no" PROVE t.fd2idx[f] \in UsedIn(new)
  <2>1. f # s.fd[i] BY <1>2, <1>5, NilIsNone
  <2>2. s.watch[f] # "no" /\ t.fd2idx[f] = s.fd2idx[f] BY <1>2, <1>5, <2>1
  <2>3. s.fd2idx[f] \in UsedIn(ls) BY <2>2 DEF Agree, AgreeBut
  <2>4. s.fd[s.fd2idx[f]] = f BY <1>3, <2>3, NilIsNone DEF SocketsOK
  <2> QED BY <1>1, <2>1, <2>2, <2>3, <2>4
<1>6. \A j \in FreeIn(new) : t.status[j] = "closed"
      BY <1>1, <1>2, <1>3 DEF Agree, AgreeBut, SameBut
<1> QED BY <1>4, <1>5, <1>6 DEF Agree, AgreeBut, new, t

\* do_close() of link i leaves all others as they agree.
LEMMA CloseAgree ==
    ASSUME NEW ls, ListsOK(ls), NEW s, SocketsOK(s), Agree(ls, s), NEW i \in Links
    PROVE  AgreeBut(ls, DoClose(s, i), i)
<1> DEFINE t == DoClose(s, i)
<1>1. /\ SameBut(s, t, i) /\ t.status[i] = "closed"
      /\ \A f \in Fds : f # s.fd[i] => t.fd2idx[f] = s.fd2idx[f] /\ t.watch[f] = s.watch[f]
      /\ s.fd[i] # Nil => t.watch[s.fd[i]] = "no"
      BY DoCloseEffect
<1> HIDE DEF t
<1>2. UsedIn(ls) \subseteq Links /\ FreeIn(ls) \subseteq Links BY OneList DEF UsedIn, FreeIn
<1>3. \A j \in UsedIn(ls) \ {i} : Served(t, j)
      BY <1>1, <1>2, ServedFrame, NilIsNone DEF Agree, AgreeBut
<1>4. \A f \in Fds : t.watch[f] # "no" => t.fd2idx[f] \in UsedIn(ls)
      BY <1>1, NilIsNone DEF Agree, AgreeBut
<1>5. \A j \in FreeIn(ls) : t.status[j] = "closed"
      BY <1>1, <1>2 DEF Agree, AgreeBut, SameBut
<1> QED BY <1>3, <1>4, <1>5 DEF AgreeBut, t

\* A socket out of the epoll set is otherwise as it was.
LEMMA UnwatchedEffect ==
    ASSUME NEW s, SocketsOK(s), NEW f \in Fds
    PROVE  LET t == [s EXCEPT !.watch[f] = "no"]
           IN  /\ SocketsOK(t)
               /\ t.fd = s.fd /\ t.status = s.status /\ t.fd2idx = s.fd2idx
               /\ t.watch[f] = "no" /\ \A g \in Fds \ {f} : t.watch[g] = s.watch[g]
<1> DEFINE t == [s EXCEPT !.watch[f] = "no"]
<1>0. s \in Sockets BY DEF SocketsOK
<1>1. t \in Sockets BY <1>0 DEF Sockets
<1>2. /\ t.fd = s.fd /\ t.fd2idx = s.fd2idx /\ t.status = s.status /\ t.open = s.open
      /\ t.watch = [s.watch EXCEPT ![f] = "no"]
      BY <1>0 DEF Sockets
<1> HIDE DEF t
<1>3. t.watch[f] = "no" /\ \A g \in Fds \ {f} : t.watch[g] = s.watch[g]
      BY <1>0, <1>2, SocketFields
<1>4. SocketsOK(t) BY <1>1, <1>2 DEF SocketsOK
<1> QED BY <1>2, <1>3, <1>4 DEF t

\* move_link_to_error_list(): whatever was amiss with link i no longer matters.
LEMMA MovedToErrorOK ==
    ASSUME NEW ls, ListsOK(ls), NEW s, SocketsOK(s), NEW i \in Links, AgreeBut(ls, s, i),
           i \in FreeIn(ls) => s.fd[i] = Nil
    PROVE  LET m == MovedToError(ls, s, i)
           IN  /\ ListsOK(m.ls) /\ SocketsOK(m.s) /\ Agree(m.ls, m.s) /\ SameBut(s, m.s, i)
               /\ m.s.fd = s.fd /\ m.s.status = s.status /\ m.s.fd2idx = s.fd2idx
               /\ UsedIn(m.ls) = UsedIn(ls) \ {i} /\ FreeIn(m.ls) = FreeIn(ls)
               /\ Members(ls[lerror]) \subseteq Members(m.ls[lerror])
<1> DEFINE m == MovedToError(ls, s, i)
<1>1. /\ ListsOK(m.ls)
      /\ UsedIn(m.ls) = UsedIn(ls) \ {i} /\ FreeIn(m.ls) = FreeIn(ls)
      /\ Members(ls[lerror]) \subseteq Members(m.ls[lerror])
  <2>1. CASE ~InList(ls, lused, i) BY <2>1 DEF MovedToError, InList, UsedIn, FreeIn
  <2>2. CASE InList(ls, lused, i)
    <3> DEFINE new == Moved(ToHead(ls, lused, i), lused, lerror)
    <3>0. i \in Members(ls[lused]) /\ lused \in LinkLists /\ lerror \in LinkLists
          BY <2>2, OneList DEF InList
    <3>1. ListsOK(new) /\ MovedTo(ls, new, LinkLists, i, lerror)
          BY <3>0, TakenOut
    <3>2. m.ls = new BY <2>2 DEF MovedToError
    <3> HIDE DEF new, m
    <3>3. /\ lused \in LinkLists \ {lerror} /\ lfree \in LinkLists \ {lerror}
          /\ i \notin Members(ls[lfree])
          BY <3>0, OneList
    <3> QED BY <3>1, <3>2, <3>3 DEF MovedTo, UsedIn, FreeIn
  <2> QED BY <2>1, <2>2
<1>2. s.fd[i] \in Fds \cup {Nil} BY SocketFields DEF SocketsOK
<1>3. /\ SocketsOK(m.s)
      /\ m.s.fd = s.fd /\ m.s.status = s.status /\ m.s.fd2idx = s.fd2idx
      /\ s.fd[i] # Nil => m.s.watch[s.fd[i]] = "no"
      /\ \A g \in Fds \ {s.fd[i]} : m.s.watch[g] = s.watch[g]
  <2>1. CASE s.fd[i] = Nil BY <2>1 DEF MovedToError
  <2>2. CASE s.fd[i] # Nil
    <3> DEFINE t == [s EXCEPT !.watch[s.fd[i]] = "no"]
    <3>1. m.s = t BY <2>2 DEF MovedToError
    <3>2. /\ SocketsOK(t)
          /\ t.fd = s.fd /\ t.status = s.status /\ t.fd2idx = s.fd2idx
          /\ t.watch[s.fd[i]] = "no" /\ \A g \in Fds \ {s.fd[i]} : t.watch[g] = s.watch[g]
          BY <1>2, <2>2, UnwatchedEffect
    <3> QED BY <3>1, <3>2
  <2> QED BY <2>1, <2>2
<1> HIDE DEF m
<1>4. SameBut(s, m.s, i)
  <2>1. \A j \in Links : s.fd[j] \in Fds \cup {Nil} BY SocketFields DEF SocketsOK
  <2>2. \A j \in Links \ {i} : s.fd[j] # Nil => s.fd[j] # s.fd[i] BY DEF SocketsOK
  <2> QED BY <1>3, <2>1, <2>2 DEF SameBut
<1>5. Agree(m.ls, m.s)
  <2>1. UsedIn(ls) \subseteq Links BY OneList DEF UsedIn
  <2>2. \A j \in UsedIn(m.ls) : Served(m.s, j)
        BY <1>1, <1>4, <2>1, ServedFrame DEF AgreeBut
  <2>3. ASSUME NEW f \in Fds, m.s.watch[f] # "no" PROVE m.s.fd2idx[f] \in UsedIn(m.ls)
    <3>1. f # s.fd[i] BY <1>3, <2>3, NilIsNone
    <3>2. s.watch[f] # "no" /\ s.fd2idx[f] \in UsedIn(ls) BY <1>3, <2>3, <3>1 DEF AgreeBut
    <3>3. s.fd[s.fd2idx[f]] = f BY <2>1, <3>2, NilIsNone DEF SocketsOK
    <3> QED BY <1>1, <1>3, <3>1, <3>2, <3>3
  <2>4. \A j \in FreeIn(m.ls) : m.s.status[j] = "closed" BY <1>1, <1>3 DEF AgreeBut
  <2> QED BY <2>2, <2>3, <2>4 DEF Agree, AgreeBut
<1> QED BY <1>1, <1>3, <1>4, <1>5 DEF m

\* A step at link i takes no event from another link.
LEMMA ReachFrame ==
    ASSUME NEW ls, ListsOK(ls), NEW s, SocketsOK(s), Agree(ls, s),
           NEW F \in SUBSET [fd : Fds, link : Links], Reach(ls, s, F),
           NEW new, NEW t, NEW G \in SUBSET F, NEW i, SameBut(s, t, i),
           UsedIn(new) \ {i} = UsedIn(ls) \ {i},
           \A e \in G : e.link # i,
           \A e \in F \ G : e.link = i \/ s.status[e.link] # "connecting",
           i \in UsedIn(new) => t.status[i] # "connecting" \/ t.watch[t.fd[i]] = "oneshot"
    PROVE  Reach(new, t, G)
<1>1. UsedIn(ls) \subseteq Links BY OneList DEF UsedIn
<1>2. ASSUME NEW j \in UsedIn(new), t.status[j] = "connecting"
      PROVE  t.watch[t.fd[j]] = "oneshot" \/ [fd |-> t.fd[j], link |-> j] \in G
  <2>1. CASE j = i BY <1>2, <2>1
  <2>2. CASE j # i
    <3>1. j \in UsedIn(ls) \ {i} /\ j \in Links \ {i} BY <1>1, <2>2
    <3>2. t.fd[j] = s.fd[j] /\ s.status[j] = "connecting" BY <1>2, <3>1 DEF SameBut
    <3>3. Served(s, j) BY <3>1, <1>1, NilIsNone DEF Agree, AgreeBut
    <3>4. t.watch[s.fd[j]] = s.watch[s.fd[j]] BY <3>1, <3>3 DEF SameBut, Served
    <3>5. s.watch[s.fd[j]] = "oneshot" \/ [fd |-> s.fd[j], link |-> j] \in F
          BY <3>1, <3>2 DEF Reach
    <3>6. [fd |-> s.fd[j], link |-> j] \in F => [fd |-> s.fd[j], link |-> j] \in G
          BY <2>2, <3>2
    <3> QED BY <3>2, <3>4, <3>5, <3>6
  <2> QED BY <2>1, <2>2
<1>3. ASSUME NEW e \in G PROVE t.fd2idx[e.fd] = e.link /\ e.link \in UsedIn(new)
  <2>1. e \in F /\ e.link # i BY <1>3
  <2>2. s.fd2idx[e.fd] = e.link /\ e.link \in UsedIn(ls) BY <2>1 DEF Reach
  <2>3. e.link \in Links \ {i} /\ e.link # Nil /\ e.fd \in Fds BY <1>1, <2>1, <2>2, NilIsNone
  <2>4. s.fd[e.link] = e.fd BY <2>2, <2>3 DEF SocketsOK
  <2>5. t.fd2idx[s.fd[e.link]] = s.fd2idx[s.fd[e.link]]
        BY <2>3, <2>4, NilIsNone DEF SameBut
  <2> QED BY <2>1, <2>2, <2>4, <2>5
<1> QED BY <1>2, <1>3 DEF Reach

\* The roles of the links, but for the one a step is at, follow those before.
LEMMA RolesFrame ==
    ASSUME NEW ls, ListsOK(ls), NEW s, NEW ty, Roles(ls, ty, s),
           NEW new, NEW t, NEW uy, NEW i, SameBut(s, t, i),
           UsedIn(new) \ {i} = UsedIn(ls) \ {i},
           \A j \in Links \ {i} : uy[j] = ty[j],
           i \in UsedIn(new) => (uy[i] = "server" <=> t.status[i] = "listening")
    PROVE  Roles(new, uy, t)
<1>1. UsedIn(ls) \subseteq Links BY OneList DEF UsedIn
<1> QED BY <1>1 DEF Roles, SameBut

\* A step at link i keeps what goes together, if it does so for link i.
LEMMA CoreStep ==
    ASSUME Core, NEW i \in Links,
           ListsOK(lists'), SocketsOK(sock'), Agree(lists', sock'), SameBut(sock, sock', i),
           UsedIn(lists') \ {i} = UsedIn(lists) \ {i},
           FreeIn(lists') \ {i} = FreeIn(lists) \ {i},
           type' \in [Links -> Types], \A j \in Links \ {i} : type'[j] = type[j],
           conf' \ {i} = conf \ {i}, orphans' = orphans,
           i \in conf' => i \in conf \/ i \notin orphans,
           fired' \subseteq fired, \A e \in fired' : e.link # i,
           \A e \in fired \ fired' : e.link = i \/ sock.status[e.link] # "connecting",
           i \in UsedIn(lists') =>
               /\ type'[i] = "server" <=> sock'.status[i] = "listening"
               /\ sock'.status[i] # "connecting" \/ sock'.watch[sock'.fd[i]] = "oneshot",
           i \in conf' \cup orphans' => i \notin FreeIn(lists') /\ type'[i] # "accept",
           i \in FreeIn(lists') \/ type'[i] = "accept" \/ i \in conf' \cup orphans'
    PROVE  Core'
<1>1. Reach(lists', sock', fired') BY ReachFrame DEF Core
<1>2. Roles(lists', type', sock') BY RolesFrame DEF Core
<1>3. conf' \subseteq Links /\ orphans' \subseteq Links /\ conf' \cap orphans' = {}
      BY DEF Core
<1>4. Accounted(lists', type', conf' \cup orphans')
  <2>1. Accounted(lists, type, conf \cup orphans) BY DEF Core
  <2>2. \A j \in conf' \cup orphans' : j \notin FreeIn(lists') /\ type'[j] # "accept"
        BY <1>3, <2>1 DEF Accounted
  <2>3. \A j \in Links \ FreeIn(lists') : type'[j] = "accept" \/ j \in conf' \cup orphans'
        BY <2>1 DEF Accounted
  <2> QED BY <2>2, <2>3 DEF Accounted
<1> QED BY <1>1, <1>2, <1>3, <1>4 DEF Core

\* What goes together depends on nothing else.
LEMMA CoreSame ==
    ASSUME Core, UNCHANGED <<lists, type, sock, conf, orphans, fired>>
    PROVE  Core'
BY DEF Core, Accounted, Roles, Reach, Agree, AgreeBut, SocketsOK, ListsOK, ListsOf, Served,
       UsedIn, FreeIn

\* The link a walk stands on, and the one it goes to.
LEMMA WalkFacts ==
    ASSUME NetInv, cursor # Nil
    PROVE  /\ cursor \in Links
           /\ pc = "recover" => /\ cursor \in Members(lists[lerror])
                                /\ cursor \notin UsedIn(lists) \cup FreeIn(lists)
                                /\ NextOf(lists, cursor) \in (Members(lists[lerror]) \ {cursor}) \cup {Nil}
           /\ pc = "check" => /\ cursor \in UsedIn(lists)
                              /\ NextOf(lists, cursor) \in (UsedIn(lists) \ {cursor}) \cup {Nil}
           /\ pc \in {"recover", "check"}
           /\ NextOf(lists, cursor) \in Links \cup {Nil}
<1>1. ListsOK(lists) /\ WalkOK(lists, pc, cursor) /\ cursor \in Links
      BY DEF NetInv, Core, Loop
<1>2. lused \in LinkLists /\ lerror \in LinkLists BY OneList, <1>1
<1>3. CASE pc = "recover" /\ cursor \in Members(lists[lerror])
  <2>1. NextOf(lists, cursor) \in (Members(lists[lerror]) \ {cursor}) \cup {Nil}
        BY <1>1, <1>2, <1>3, NextOfLink
  <2>2. Members(lists[lerror]) \subseteq Links BY <1>1, OneList
  <2>3. cursor \notin UsedIn(lists) \cup FreeIn(lists)
        BY <1>1, <1>3, OneList DEF UsedIn, FreeIn
  <2> QED BY <1>1, <1>3, <2>1, <2>2, <2>3
<1>4. CASE pc = "check" /\ cursor \in UsedIn(lists)
  <2>1. NextOf(lists, cursor) \in (UsedIn(lists) \ {cursor}) \cup {Nil}
        BY <1>1, <1>2, <1>4, NextOfLink DEF UsedIn
  <2>2. UsedIn(lists) \subseteq Links BY <1>1, OneList DEF UsedIn
  <2> QED BY <1>1, <1>4, <2>1, <2>2
<1> QED BY <1>1, <1>3, <1>4 DEF WalkOK

\* Outside wait() no event is pending.
LEMMA NoneFired ==
    ASSUME NetInv, pc # "events"
    PROVE  fired = {}
BY DEF NetInv, Loop, FiredOK

\* recycle_link() as a step.
LEMMA RecycleEffect ==
    ASSUME NetInv, NEW i \in Links, Recycle(i)
    PROVE  /\ ListsOK(lists') /\ SocketsOK(sock') /\ Agree(lists', sock')
           /\ SameBut(sock, sock', i)
           /\ UsedIn(lists') = UsedIn(lists) \ {i} /\ FreeIn(lists') = FreeIn(lists) \cup {i}
           /\ lists'[lfree][Len(lists'[lfree])] = i
           /\ rest' \in [Links -> 0 .. MinRest] /\ unsent' \in [Links -> BOOLEAN]
<1>1. ListsOK(lists) /\ SocketsOK(sock) /\ Agree(lists, sock) BY DEF NetInv, Core
<1>2. lists' = Recycled(lists, i) /\ sock' = DoClose(sock, i) BY DEF Recycle
<1>3. /\ ListsOK(lists') /\ MovedTo(lists, lists', LinkLists, i, lfree)
      /\ lists'[lfree][Len(lists'[lfree])] = i
      BY <1>1, <1>2, RecycledOK
<1>4. UsedIn(lists') = UsedIn(lists) \ {i} /\ FreeIn(lists') = FreeIn(lists) \cup {i}
  <2>1. lused \in LinkLists \ {lfree} BY <1>1, OneList
  <2> QED BY <1>3, <2>1 DEF UsedIn, FreeIn, MovedTo
<1>5. SocketsOK(sock') /\ SameBut(sock, sock', i) BY <1>1, <1>2, DoCloseEffect
<1>6. Agree(lists', sock') BY <1>1, <1>2, RecycleAgree
<1>7. rest' \in [Links -> 0 .. MinRest] /\ unsent' \in [Links -> BOOLEAN]
      BY NetAssumption DEF NetInv, Loop, Recycle
<1> QED BY <1>3, <1>4, <1>5, <1>6, <1>7

\* shutdown_link() as a step.
LEMMA ShutdownEffect ==
    ASSUME NetInv, NEW i \in Links, Shutdown(i)
    PROVE  /\ ListsOK(lists') /\ SocketsOK(sock') /\ Agree(lists', sock')
           /\ SameBut(sock, sock', i)
           /\ UsedIn(lists') = UsedIn(lists) \ {i}
           /\ FreeIn(lists') = FreeIn(lists) \cup (IF type[i] = "accept" THEN {i} ELSE {})
           /\ type[i] = "accept" => lists'[lfree][Len(lists'[lfree])] = i
           /\ rest' \in [Links -> 0 .. MinRest] /\ unsent' \in [Links -> BOOLEAN]
<1>1. CASE type[i] = "accept" BY <1>1, RecycleEffect DEF Shutdown
<1>2. CASE type[i] # "accept"
  <2> DEFINE t == DoClose(sock, i)
             m == MovedToError(lists, t, i)
  <2>1. ListsOK(lists) /\ SocketsOK(sock) /\ Agree(lists, sock) BY DEF NetInv, Core
  <2>2. SocketsOK(t) /\ SameBut(sock, t, i) /\ t.fd[i] = Nil BY <2>1, DoCloseEffect
  <2>3. AgreeBut(lists, t, i) BY <2>1, CloseAgree
  <2> HIDE DEF t
  <2>4. /\ ListsOK(m.ls) /\ SocketsOK(m.s) /\ Agree(m.ls, m.s) /\ SameBut(t, m.s, i)
        /\ UsedIn(m.ls) = UsedIn(lists) \ {i} /\ FreeIn(m.ls) = FreeIn(lists)
        BY <2>1, <2>2, <2>3, MovedToErrorOK
  <2>5. SameBut(sock, m.s, i) BY <2>2, <2>4 DEF SameBut
  <2>6. lists' = m.ls /\ sock' = m.s BY <1>2 DEF Shutdown, t
  <2>7. rest' \in [Links -> 0 .. MinRest] /\ unsent' \in [Links -> BOOLEAN]
        BY <1>2 DEF Shutdown, NetInv, Loop
  <2> QED BY <1>2, <2>4, <2>5, <2>6, <2>7
<1> QED BY <1>1, <1>2

\* A link's idle time or rest starts again.
LEMMA IdleReset ==
    ASSUME NEW i
    PROVE  /\ idle \in [Links -> 0 .. MaxIdle] => [idle EXCEPT ![i] = 0] \in [Links -> 0 .. MaxIdle]
           /\ rest \in [Links -> 0 .. MinRest] => [rest EXCEPT ![i] = 0] \in [Links -> 0 .. MinRest]
<1>1. 0 \in 0 .. MaxIdle /\ 0 \in 0 .. MinRest BY NetAssumption
<1> QED BY <1>1

-----------------------------------------------------------------------------
(* The steps: reload *)

\* close_link() of a link that left the configuration.
LEMMA CloseLinkOK ==
    ASSUME NetInv, NEW i \in Links, CloseLink(i)
    PROVE  NetInv'
<1>1. Recycle(i) /\ pc = "closing" /\ pc' = "closing" /\ UNCHANGED <<type, idle, cursor, left, fired>>
      /\ conf' = conf \ {i} /\ i \in conf /\ orphans' = orphans
      BY DEF CloseLink
<1>2. /\ ListsOK(lists') /\ SocketsOK(sock') /\ Agree(lists', sock')
      /\ SameBut(sock, sock', i)
      /\ UsedIn(lists') = UsedIn(lists) \ {i} /\ FreeIn(lists') = FreeIn(lists) \cup {i}
      /\ rest' \in [Links -> 0 .. MinRest] /\ unsent' \in [Links -> BOOLEAN]
      BY <1>1, RecycleEffect
<1>3. fired = {} BY <1>1, NoneFired
<1>4. Core'
  <2>1. Core /\ type \in [Links -> Types] /\ conf \subseteq Links /\ i \notin orphans
        BY <1>1 DEF NetInv, Core
  <2> QED BY <1>1, <1>2, <1>3, <2>1, CoreStep
<1>5. cursor = Nil BY <1>1 DEF NetInv, Loop, WalkOK
<1>6. Loop' BY <1>1, <1>2, <1>3, <1>5 DEF NetInv, Loop, WalkOK, FiredOK
<1> QED BY <1>4, <1>6 DEF NetInv

\* create_link(), whether its socket comes up or not.
LEMMA CreateLinkOK ==
    ASSUME NetInv, NEW t \in {"client", "server"}, CreateLink(t)
    PROVE  /\ NetInv' /\ SameBut(sock, sock', Head(lists[lfree]))
           /\ FreeIn(lists') = FreeIn(lists) \ {Head(lists[lfree])}
           /\ Head(lists[lfree]) \in FreeIn(lists)
<1> DEFINE i     == Head(lists[lfree])
           taken == Moved(lists, lfree, lused)
<1>1. /\ pc = "opening" /\ pc' = "opening" /\ lists[lfree] # <<>>
      /\ UNCHANGED <<rest, unsent, orphans, cursor, left, fired>>
      /\ type' = [type EXCEPT ![i] = t] /\ conf' = conf \cup {i}
      /\ idle' = [idle EXCEPT ![i] = 0]
      BY DEF CreateLink
<1>2. \/ sock' \in Successes(sock, i, t) /\ lists' = taken
      \/ \E s \in Failures(sock, i, t) :
            /\ lists' = MovedToError(taken, s, i).ls
            /\ sock' = MovedToError(taken, s, i).s
      BY DEF CreateLink
<1>3. ListsOK(lists) /\ SocketsOK(sock) /\ Agree(lists, sock) /\ Core
      BY DEF NetInv, Core
<1>4. /\ ListsOK(taken) /\ i \in FreeIn(lists) /\ i \in Links
      /\ UsedIn(taken) = UsedIn(lists) \cup {i} /\ FreeIn(taken) = FreeIn(lists) \ {i}
  <2>1. /\ lfree \in LinkLists \ {lused} /\ lused \in LinkLists BY <1>3, OneList
  <2>2. /\ ListsOK(taken) /\ i \in Members(lists[lfree]) /\ i \in Links
        /\ MovedTo(lists, taken, LinkLists, i, lused)
        BY <1>1, <1>3, <2>1, MovedOK
  <2> QED BY <2>1, <2>2 DEF MovedTo, UsedIn, FreeIn
<1>5. sock.fd[i] = Nil /\ t \in Types /\ t # "accept"
      BY <1>3, <1>4 DEF Agree, AgreeBut, SocketsOK, Types
<1> HIDE DEF i, taken
<1>6. \A s : SameBut(sock, s, i) => /\ \A j \in UsedIn(taken) \ {i} : Served(s, j)
                                    /\ \A j \in FreeIn(taken) : s.status[j] = "closed"
  <2> TAKE s
  <2> HAVE SameBut(sock, s, i)
  <2>1. UsedIn(lists) \subseteq Links /\ FreeIn(lists) \subseteq Links
        BY <1>3, OneList DEF UsedIn, FreeIn
  <2>2. \A j \in UsedIn(taken) \ {i} : Served(s, j)
        BY <1>3, <1>4, <2>1, ServedFrame, NilIsNone DEF Agree, AgreeBut
  <2>3. \A j \in FreeIn(taken) : s.status[j] = "closed"
        BY <1>3, <1>4, <2>1 DEF Agree, AgreeBut, SameBut
  <2> QED BY <2>2, <2>3
<1>7. /\ ListsOK(lists') /\ SocketsOK(sock') /\ Agree(lists', sock') /\ SameBut(sock, sock', i)
      /\ UsedIn(lists') \ {i} = UsedIn(lists) /\ FreeIn(lists') = FreeIn(lists) \ {i}
      /\ i \in UsedIn(lists') =>
             /\ t = "server" <=> sock'.status[i] = "listening"
             /\ sock'.status[i] # "connecting" \/ sock'.watch[sock'.fd[i]] = "oneshot"
  <2>0. i \notin UsedIn(lists) BY <1>3, <1>4, OneList DEF UsedIn, FreeIn
  <2>1. CASE sock' \in Successes(sock, i, t) /\ lists' = taken
    <3>1. /\ SocketsOK(sock') /\ SameBut(sock, sock', i) /\ Served(sock', i)
          /\ sock'.status[i] = "listening" <=> t = "server"
          /\ sock'.status[i] = "connecting" => sock'.watch[sock'.fd[i]] = "oneshot"
          /\ \A f \in Fds \ {sock'.fd[i]} :
                sock'.fd2idx[f] = sock.fd2idx[f] /\ sock'.watch[f] = sock.watch[f]
          BY <1>3, <1>4, <1>5, <2>1, SuccessesEffect
    <3>2. \A f \in Fds : sock'.watch[f] # "no" => sock'.fd2idx[f] \in UsedIn(taken)
          BY <1>3, <1>4, <3>1 DEF Agree, AgreeBut, Served
    <3>3. Agree(taken, sock') BY <1>6, <3>1, <3>2 DEF Agree, AgreeBut
    <3> QED BY <1>4, <2>0, <2>1, <3>1, <3>3
  <2>2. ASSUME NEW s \in Failures(sock, i, t),
               lists' = MovedToError(taken, s, i).ls,
               sock' = MovedToError(taken, s, i).s
        PROVE  /\ ListsOK(lists') /\ SocketsOK(sock') /\ Agree(lists', sock')
               /\ SameBut(sock, sock', i) /\ i \notin UsedIn(lists')
               /\ UsedIn(lists') \ {i} = UsedIn(lists) /\ FreeIn(lists') = FreeIn(lists) \ {i}
    <3>1. /\ SocketsOK(s) /\ SameBut(sock, s, i)
          /\ s.fd2idx = sock.fd2idx /\ s.watch = sock.watch
          BY <1>3, <1>4, <1>5, FailuresEffect
    <3>2. \A f \in Fds : s.watch[f] # "no" => s.fd2idx[f] \in UsedIn(taken)
          BY <1>3, <1>4, <3>1 DEF Agree, AgreeBut
    <3>3. AgreeBut(taken, s, i) BY <1>6, <3>1, <3>2 DEF AgreeBut
    <3>4. /\ ListsOK(lists') /\ SocketsOK(sock') /\ Agree(lists', sock') /\ SameBut(s, sock', i)
          /\ UsedIn(lists') = UsedIn(taken) \ {i} /\ FreeIn(lists') = FreeIn(taken)
          BY <1>4, <2>2, <3>1, <3>3, MovedToErrorOK
    <3>5. SameBut(sock, sock', i) BY <3>1, <3>4 DEF SameBut
    <3> QED BY <1>4, <2>0, <3>4, <3>5
  <2> QED BY <1>2, <2>1, <2>2 DEF i, taken
<1>8. fired = {} /\ cursor = Nil BY <1>1, NoneFired DEF NetInv, Loop, WalkOK
<1>9. Core'
  <2>1. /\ type' \in [Links -> Types] /\ type'[i] = t
        /\ \A j \in Links \ {i} : type'[j] = type[j]
        BY <1>1, <1>3, <1>4, <1>5 DEF Core, i
  <2>2. conf' \ {i} = conf \ {i} /\ i \in conf' /\ orphans' = orphans BY <1>1 DEF i
  <2>3. i \notin orphans BY <1>3, <1>4 DEF Core, Accounted
  <2> QED BY <1>1, <1>3, <1>4, <1>5, <1>7, <1>8, <2>1, <2>2, <2>3, CoreStep
<1>10. Loop'
  <2>1. idle' \in [Links -> 0 .. MaxIdle] BY <1>1, IdleReset DEF NetInv, Loop, i
  <2> QED BY <1>1, <1>8, <2>1 DEF NetInv, Loop, WalkOK, FiredOK
<1> QED BY <1>4, <1>7, <1>9, <1>10 DEF NetInv, i

-----------------------------------------------------------------------------
(* The steps: recover() and check_idle_netlink() *)

\* recover() of an accepted connection: the link ends the free list, and with
\* it the walk.
LEMMA RecoverRecyclesOK ==
    ASSUME NetInv, RecoverRecycles
    PROVE  NetInv' /\ SameBut(sock, sock', cursor) /\ UsedIn(lists) \subseteq UsedIn(lists')
<1>1. /\ pc = "recover" /\ pc' = "recover" /\ cursor # Nil /\ left > 0 /\ left' = left - 1
      /\ type[cursor] = "accept" /\ Recycle(cursor) /\ cursor' = NextOf(lists', cursor)
      /\ UNCHANGED <<type, idle, conf, orphans, fired>>
      BY DEF RecoverRecycles, Visit
<1>2. cursor \in Links /\ cursor \notin UsedIn(lists) \cup FreeIn(lists)
      BY <1>1, WalkFacts
<1>3. /\ ListsOK(lists') /\ SocketsOK(sock') /\ Agree(lists', sock')
      /\ SameBut(sock, sock', cursor)
      /\ UsedIn(lists') = UsedIn(lists) \ {cursor} /\ FreeIn(lists') = FreeIn(lists) \cup {cursor}
      /\ lists'[lfree][Len(lists'[lfree])] = cursor
      /\ rest' \in [Links -> 0 .. MinRest] /\ unsent' \in [Links -> BOOLEAN]
      BY <1>1, <1>2, RecycleEffect
<1>4. fired = {} /\ Core BY <1>1, NoneFired DEF NetInv
<1>5. cursor' = Nil
  <2>1. cursor \in Members(lists'[lfree]) /\ lfree \in LinkLists
        BY <1>3, OneList DEF FreeIn
  <2> QED BY <1>1, <1>3, <2>1, NextOfLink
<1>6. Core'
  <2>1. type \in [Links -> Types] /\ conf \subseteq Links /\ cursor \notin conf \cup orphans
        BY <1>1, <1>4 DEF Core, Accounted
  <2> QED BY <1>1, <1>2, <1>3, <1>4, <2>1, CoreStep
<1>7. Loop' BY <1>1, <1>3, <1>4, <1>5 DEF NetInv, Loop, WalkOK, FiredOK
<1> QED BY <1>2, <1>3, <1>6, <1>7 DEF NetInv

\* recover() passes over a link that was tried lately.
LEMMA RecoverTooSoonOK ==
    ASSUME NetInv, RecoverTooSoon
    PROVE  NetInv' /\ UNCHANGED <<lists, sock>>
<1>1. /\ pc = "recover" /\ pc' = "recover" /\ cursor # Nil /\ left > 0 /\ left' = left - 1
      /\ cursor' = NextOf(lists, cursor)
      /\ UNCHANGED <<lists, type, sock, idle, rest, unsent, conf, orphans, fired>>
      BY DEF RecoverTooSoon, Visit
<1>2. /\ cursor' \in Members(lists[lerror]) \cup {Nil}
      /\ cursor' \in Links \cup {Nil}
      BY <1>1, WalkFacts
<1>3. Core' BY <1>1, CoreSame DEF NetInv
<1>4. Loop' BY <1>1, <1>2 DEF NetInv, Loop, WalkOK, FiredOK
<1> QED BY <1>1, <1>3, <1>4 DEF NetInv

\* recover() closes the link; what it opens fails.
LEMMA RecoverFailsOK ==
    ASSUME NetInv, RecoverFails
    PROVE  NetInv' /\ SameBut(sock, sock', cursor) /\ lists' = lists
<1>1. /\ pc = "recover" /\ pc' = "recover" /\ cursor # Nil /\ left > 0 /\ left' = left - 1
      /\ cursor' = NextOf(lists, cursor)
      /\ sock' \in Failures(DoClose(sock, cursor), cursor, type[cursor])
      /\ rest' = [rest EXCEPT ![cursor] = 0] /\ unsent' = [unsent EXCEPT ![cursor] = FALSE]
      /\ UNCHANGED <<lists, type, idle, conf, orphans, fired>>
      BY DEF RecoverFails, Visit
<1>2. /\ cursor \in Links /\ cursor \notin UsedIn(lists) \cup FreeIn(lists)
      /\ cursor' \in Members(lists[lerror]) \cup {Nil}
      /\ cursor' \in Links \cup {Nil}
      BY <1>1, WalkFacts
<1>3. fired = {} /\ Core BY <1>1, NoneFired DEF NetInv
<1>4. /\ ListsOK(lists) /\ SocketsOK(sock) /\ Agree(lists, sock)
      /\ type \in [Links -> Types] /\ conf \subseteq Links
      BY <1>3 DEF Core
<1> DEFINE t == DoClose(sock, cursor)
<1>5. SocketsOK(t) /\ SameBut(sock, t, cursor) /\ t.fd[cursor] = Nil
      BY <1>2, <1>4, DoCloseEffect
<1>6. AgreeBut(lists, t, cursor) BY <1>2, <1>4, CloseAgree
<1>7. sock' \in Failures(t, cursor, type[cursor]) BY <1>1
<1> HIDE DEF t
<1>8. /\ SocketsOK(sock') /\ SameBut(t, sock', cursor)
      /\ sock'.fd2idx = t.fd2idx /\ sock'.watch = t.watch
      BY <1>2, <1>4, <1>5, <1>7, FailuresEffect
<1>9. SameBut(sock, sock', cursor) BY <1>5, <1>8 DEF SameBut
<1>10. Agree(lists, sock')
  <2>1. UsedIn(lists) \subseteq Links /\ FreeIn(lists) \subseteq Links
        BY <1>4, OneList DEF UsedIn, FreeIn
  <2>2. \A j \in UsedIn(lists) : Served(sock', j)
        BY <1>2, <1>5, <1>6, <1>8, <2>1, ServedFrame DEF AgreeBut
  <2>3. \A j \in FreeIn(lists) : sock'.status[j] = "closed"
        BY <1>2, <1>6, <1>8, <2>1 DEF AgreeBut, SameBut
  <2> QED BY <1>6, <1>8, <2>2, <2>3 DEF Agree, AgreeBut
<1>11. Core'
  <2>1. /\ cursor \in conf \cup orphans => type[cursor] # "accept"
        /\ type[cursor] = "accept" \/ cursor \in conf \cup orphans
        BY <1>2, <1>3 DEF Core, Accounted
  <2> QED BY <1>1, <1>2, <1>3, <1>4, <1>8, <1>9, <1>10, <2>1, CoreStep
<1>12. Loop'
  <2>1. rest' \in [Links -> 0 .. MinRest] /\ unsent' \in [Links -> BOOLEAN]
        BY <1>1, IdleReset DEF NetInv, Loop
  <2> QED BY <1>1, <1>2, <1>3, <2>1 DEF NetInv, Loop, WalkOK, FiredOK
<1> QED BY <1>1, <1>9, <1>11, <1>12 DEF NetInv

\* swap() and move() take a link of the error list to the used list.
LEMMA RecoveredLists ==
    ASSUME NEW ls, ListsOK(ls), NEW i \in Members(ls[lerror])
    PROVE  LET new == Moved(Swapped(ls, HeadOf(ls, lerror), i), lerror, lused)
           IN  /\ ListsOK(new)
               /\ UsedIn(new) = UsedIn(ls) \cup {i} /\ FreeIn(new) = FreeIn(ls)
               /\ Members(new[lerror]) = Members(ls[lerror]) \ {i}
<1> DEFINE h   == HeadOf(ls, lerror)
           swp == Swapped(ls, h, i)
           new == Moved(swp, lerror, lused)
<1>1. ListsOf(ls, LinkLists, Links) BY DEF ListsOK
<1>2. lerror \in LinkLists \ {lused} /\ lfree \in LinkLists \ {lused} /\ lused \in LinkLists
      BY OneList
<1>3. h \in Members(ls[lerror]) /\ Head(ls[lerror]) = h
  <2>1. ls[lerror] # <<>>
    <3>1. ls[lerror] \in Seq(Links) BY <1>2, OneList
    <3> QED BY <3>1, MembersEmpty
  <2> QED BY <1>2, <2>1, HeadOfList
<1> HIDE DEF h
<1>4. /\ ListsOf(swp, LinkLists, Links)
      /\ SameMembers(ls, swp, LinkLists)
      /\ swp[lerror] # <<>> /\ Head(swp[lerror]) = i
      BY <1>1, <1>2, <1>3, SwappedLists
<1> HIDE DEF swp
<1>5. ListsOK(swp) BY <1>4 DEF ListsOK, SameMembers
<1>6. ListsOK(new) /\ MovedTo(swp, new, LinkLists, i, lused)
      BY <1>2, <1>4, <1>5, MovedOK
<1> HIDE DEF new
<1>7. /\ UsedIn(new) = UsedIn(ls) \cup {i} /\ FreeIn(new) = FreeIn(ls) \ {i}
      /\ Members(new[lerror]) = Members(ls[lerror]) \ {i}
      BY <1>2, <1>4, <1>6 DEF MovedTo, SameMembers, UsedIn, FreeIn
<1>8. i \notin FreeIn(ls) BY OneList DEF FreeIn
<1> QED BY <1>6, <1>7, <1>8 DEF new, swp, h

\* recover() closes the link, and what it opens works.
LEMMA RecoverSucceedsOK ==
    ASSUME NetInv, RecoverSucceeds
    PROVE  /\ NetInv' /\ SameBut(sock, sock', cursor)
           /\ UsedIn(lists) \subseteq UsedIn(lists') /\ FreeIn(lists') = FreeIn(lists)
<1>1. /\ pc = "recover" /\ pc' = "recover" /\ cursor # Nil /\ left > 0 /\ left' = left - 1
      /\ cursor' = NextOf(lists, cursor) /\ type[cursor] # "accept"
      /\ sock' \in Successes(DoClose(sock, cursor), cursor, type[cursor])
      /\ rest' = [rest EXCEPT ![cursor] = 0] /\ unsent' = [unsent EXCEPT ![cursor] = FALSE]
      /\ idle' = [idle EXCEPT ![cursor] = 0]
      /\ UNCHANGED <<type, conf, orphans, fired>>
      BY DEF RecoverSucceeds, Visit
<1>2. /\ cursor \in Links /\ cursor \notin UsedIn(lists) \cup FreeIn(lists)
      /\ cursor \in Members(lists[lerror])
      /\ cursor' \in (Members(lists[lerror]) \ {cursor}) \cup {Nil}
      /\ cursor' \in Links \cup {Nil}
      BY <1>1, WalkFacts
<1>3. fired = {} /\ Core BY <1>1, NoneFired DEF NetInv
<1>4. /\ ListsOK(lists) /\ SocketsOK(sock) /\ Agree(lists, sock)
      /\ type \in [Links -> Types] /\ conf \subseteq Links
      BY <1>3 DEF Core
<1>5. /\ ListsOK(lists')
      /\ UsedIn(lists') = UsedIn(lists) \cup {cursor} /\ FreeIn(lists') = FreeIn(lists)
      /\ Members(lists'[lerror]) = Members(lists[lerror]) \ {cursor}
  <2>1. lists' = Moved(Swapped(lists, HeadOf(lists, lerror), cursor), lerror, lused)
        BY <1>2 DEF RecoverSucceeds, Used, UsedIn
  <2> QED BY <1>2, <1>4, <2>1, RecoveredLists
<1> DEFINE t == DoClose(sock, cursor)
<1>6. SocketsOK(t) /\ SameBut(sock, t, cursor) /\ t.fd[cursor] = Nil
      BY <1>2, <1>4, DoCloseEffect
<1>7. AgreeBut(lists, t, cursor) BY <1>2, <1>4, CloseAgree
<1>8. sock' \in Successes(t, cursor, type[cursor]) BY <1>1
<1> HIDE DEF t
<1>9. /\ SocketsOK(sock') /\ SameBut(t, sock', cursor) /\ Served(sock', cursor)
      /\ sock'.status[cursor] = "listening" <=> type[cursor] = "server"
      /\ sock'.status[cursor] = "connecting" => sock'.watch[sock'.fd[cursor]] = "oneshot"
      /\ \A f \in Fds \ {sock'.fd[cursor]} :
            sock'.fd2idx[f] = t.fd2idx[f] /\ sock'.watch[f] = t.watch[f]
      BY <1>2, <1>4, <1>6, <1>8, SuccessesEffect
<1>10. SameBut(sock, sock', cursor) BY <1>6, <1>9 DEF SameBut
<1>11. Agree(lists', sock')
  <2>1. UsedIn(lists) \subseteq Links /\ FreeIn(lists) \subseteq Links
        BY <1>4, OneList DEF UsedIn, FreeIn
  <2>2. \A j \in UsedIn(lists') : Served(sock', j)
        BY <1>2, <1>5, <1>6, <1>7, <1>9, <2>1, ServedFrame DEF AgreeBut
  <2>3. \A j \in FreeIn(lists') : sock'.status[j] = "closed"
        BY <1>2, <1>5, <1>7, <1>9, <2>1 DEF AgreeBut, SameBut
  <2>4. \A f \in Fds : sock'.watch[f] # "no" => sock'.fd2idx[f] \in UsedIn(lists')
        BY <1>5, <1>7, <1>9 DEF AgreeBut, Served
  <2> QED BY <2>2, <2>3, <2>4 DEF Agree, AgreeBut
<1>12. Core'
  <2>1. /\ cursor \in conf \cup orphans => type[cursor] # "accept"
        /\ type[cursor] = "accept" \/ cursor \in conf \cup orphans
        BY <1>2, <1>3 DEF Core, Accounted
  <2> QED BY <1>1, <1>2, <1>3, <1>4, <1>5, <1>9, <1>10, <1>11, <2>1, CoreStep
<1>13. Loop'
  <2>1. /\ rest' \in [Links -> 0 .. MinRest] /\ unsent' \in [Links -> BOOLEAN]
        /\ idle' \in [Links -> 0 .. MaxIdle]
        BY <1>1, IdleReset DEF NetInv, Loop
  <2>2. WalkOK(lists', pc', cursor') BY <1>1, <1>2, <1>5 DEF WalkOK
  <2> QED BY <1>1, <1>2, <1>3, <2>1, <2>2 DEF NetInv, Loop, FiredOK
<1> QED BY <1>5, <1>10, <1>12, <1>13 DEF NetInv

\* check_idle_netlink() takes an idle link out of use, and goes on.
LEMMA CheckLinkOK ==
    ASSUME NetInv, CheckLink
    PROVE  NetInv' /\ FreeIn(lists') = FreeIn(lists) /\ sock'.fd = sock.fd
<1>1. /\ pc = "check" /\ pc' = "check" /\ cursor # Nil /\ left > 0 /\ left' = left - 1
      /\ cursor' = NextOf(lists, cursor)
      /\ UNCHANGED <<type, rest, conf, orphans, fired>>
      BY DEF CheckLink, Visit
<1>2. /\ cursor \in Links /\ cursor \in UsedIn(lists)
      /\ cursor' \in (UsedIn(lists) \ {cursor}) \cup {Nil}
      /\ cursor' \in Links \cup {Nil}
      BY <1>1, WalkFacts
<1>3. fired = {} /\ Core BY <1>1, NoneFired DEF NetInv
<1>4. CASE UNCHANGED <<lists, sock, idle, unsent>>
  <2>1. Core' BY <1>1, <1>3, <1>4, CoreSame
  <2>2. Loop' BY <1>1, <1>2, <1>3, <1>4 DEF NetInv, Loop, WalkOK, FiredOK, UsedIn
  <2> QED BY <1>4, <2>1, <2>2 DEF NetInv
<1>5. CASE /\ lists' = MovedToError(lists, sock, cursor).ls
           /\ sock' = MovedToError(lists, sock, cursor).s
           /\ idle' = [idle EXCEPT ![cursor] = 0]
           /\ unsent' = [unsent EXCEPT ![cursor] = FALSE]
  <2>1. /\ ListsOK(lists) /\ SocketsOK(sock) /\ Agree(lists, sock)
        /\ type \in [Links -> Types] /\ conf \subseteq Links
        BY <1>3 DEF Core
  <2>2. cursor \notin FreeIn(lists) BY <1>2, <2>1, OneList DEF UsedIn, FreeIn
  <2>3. /\ ListsOK(lists') /\ SocketsOK(sock') /\ Agree(lists', sock')
        /\ SameBut(sock, sock', cursor)
        /\ UsedIn(lists') = UsedIn(lists) \ {cursor} /\ FreeIn(lists') = FreeIn(lists)
        /\ sock'.fd = sock.fd
    <3>1. UsedIn(lists) \subseteq Links BY <2>1, OneList DEF UsedIn
    <3>2. AgreeBut(lists, sock, cursor) BY <2>1, <3>1, NilIsNone DEF Agree, AgreeBut
    <3> QED BY <1>2, <1>5, <2>1, <2>2, <3>2, MovedToErrorOK
  <2>4. /\ cursor \in conf \cup orphans => type[cursor] # "accept"
        /\ type[cursor] = "accept" \/ cursor \in conf \cup orphans
        BY <1>2, <1>3, <2>2 DEF Core, Accounted
  <2>5. Core' BY <1>1, <1>2, <1>3, <2>1, <2>2, <2>3, <2>4, CoreStep
  <2>6. unsent' \in [Links -> BOOLEAN] /\ idle' \in [Links -> 0 .. MaxIdle]
        BY <1>5, IdleReset DEF NetInv, Loop
  <2>7. WalkOK(lists', pc', cursor') BY <1>1, <1>2, <2>3 DEF WalkOK
  <2>8. Loop' BY <1>1, <1>2, <1>3, <2>6, <2>7 DEF NetInv, Loop, FiredOK
  <2> QED BY <2>3, <2>5, <2>8 DEF NetInv
<1> QED BY <1>4, <1>5 DEF CheckLink

-----------------------------------------------------------------------------
(* The steps: wait() *)

\* Every event of the batch goes to its link: one in use, with a descriptor, and
\* no other event of the batch goes there.
LEMMA EventFacts ==
    ASSUME NetInv, NEW e \in fired
    PROVE  /\ Target(e) = e.link /\ Target(e) \in UsedIn(lists) /\ Target(e) \in Links
           /\ Target(e) \notin FreeIn(lists)
           /\ e.fd \in Fds /\ sock.fd[Target(e)] = e.fd /\ sock.fd2idx[e.fd] = Target(e)
           /\ \A d \in fired \ {e} : d.link # Target(e)
           /\ pc = "events" /\ cursor = Nil
<1>1. /\ ListsOK(lists) /\ SocketsOK(sock) /\ Reach(lists, sock, fired)
      /\ fired \subseteq [fd : Fds, link : Links]
      BY DEF NetInv, Core
<1>2. \A d \in fired : /\ sock.fd2idx[d.fd] = d.link /\ d.link \in UsedIn(lists)
                       /\ d.fd \in Fds /\ d.link \in Links
                       /\ d = [fd |-> d.fd, link |-> d.link]
      BY <1>1 DEF Reach
<1>3. ASSUME NEW d \in fired PROVE sock.fd[d.link] = d.fd
  <2>1. \A f \in Fds : sock.fd2idx[f] # Nil => sock.fd[sock.fd2idx[f]] = f
        BY <1>1 DEF SocketsOK
  <2>2. sock.fd2idx[d.fd] = d.link /\ d.fd \in Fds /\ d.link # Nil BY <1>2, NilIsNone
  <2> QED BY <2>1, <2>2
<1>4. e.link \notin FreeIn(lists) BY <1>1, <1>2, OneList DEF UsedIn, FreeIn
<1>5. pc = "events" /\ cursor = Nil BY DEF NetInv, Loop, WalkOK, FiredOK
<1> QED BY <1>2, <1>3, <1>4, <1>5 DEF Target

\* An event handled without touching the main loop.
LEMMA EventLoop ==
    ASSUME NetInv, NEW e \in fired, fired' = fired \ {e}, UNCHANGED <<pc, cursor, left>>,
           idle' \in [Links -> 0 .. MaxIdle], rest' \in [Links -> 0 .. MinRest],
           unsent' \in [Links -> BOOLEAN]
    PROVE  Loop'
<1>1. pc = "events" /\ cursor = Nil BY EventFacts
<1> QED BY <1>1 DEF NetInv, Loop, WalkOK, FiredOK

\* A connection that is over is closed, and its slot freed or kept for recover().
LEMMA EventClosesOK ==
    ASSUME NetInv, NEW e \in fired, EventCloses(e)
    PROVE  NetInv'
<1> DEFINE i == Target(e)
<1>1. /\ fired' = fired \ {e} /\ type[i] # "server" /\ Shutdown(i)
      /\ UNCHANGED <<type, idle, conf, orphans, pc, cursor, left>>
      BY DEF EventCloses, Handles
<1>2. /\ i = e.link /\ i \in UsedIn(lists) /\ i \in Links /\ i \notin FreeIn(lists)
      /\ \A d \in fired \ {e} : d.link # i
      BY EventFacts
<1>3. Core /\ type \in [Links -> Types] /\ conf \subseteq Links BY DEF NetInv, Core
<1> HIDE DEF i
<1>4. /\ ListsOK(lists') /\ SocketsOK(sock') /\ Agree(lists', sock')
      /\ SameBut(sock, sock', i)
      /\ UsedIn(lists') = UsedIn(lists) \ {i}
      /\ FreeIn(lists') = FreeIn(lists) \cup (IF type[i] = "accept" THEN {i} ELSE {})
      /\ rest' \in [Links -> 0 .. MinRest] /\ unsent' \in [Links -> BOOLEAN]
      BY <1>1, <1>2, ShutdownEffect
<1>5. /\ i \in conf \cup orphans => type[i] # "accept"
      /\ type[i] = "accept" \/ i \in conf \cup orphans
      BY <1>2, <1>3 DEF Core, Accounted
<1>6. Core'
  <2>1. /\ FreeIn(lists') \ {i} = FreeIn(lists) \ {i} /\ UsedIn(lists') \ {i} = UsedIn(lists) \ {i}
        /\ i \notin UsedIn(lists')
        /\ i \in conf' \cup orphans' => i \notin FreeIn(lists') /\ type'[i] # "accept"
        /\ type'[i] = "accept" \/ i \in conf' \cup orphans'
        BY <1>1, <1>2, <1>4, <1>5
  <2>2. /\ fired' \subseteq fired /\ \A d \in fired' : d.link # i
        /\ \A d \in fired \ fired' : d.link = i
        BY <1>1, <1>2
  <2> QED BY <1>1, <1>2, <1>3, <1>4, <2>1, <2>2, CoreStep
<1>7. Loop'
  <2>1. idle' \in [Links -> 0 .. MaxIdle] BY <1>1 DEF NetInv, Loop
  <2> QED BY <1>1, <1>4, <2>1, EventLoop
<1> QED BY <1>6, <1>7 DEF NetInv

\* A handler that leaves the link where it is and the connection at work: the
\* status moves on, the interest is what the send buffer asks for.
LEMMA EventKeeps ==
    ASSUME NetInv, NEW e \in fired, fired' = fired \ {e},
           lists' = UpdateUsedList(lists, Target(e)),
           sock.status[Target(e)] \in {"connecting", "established"},
           NEW w \in {"in", "inout"},
           sock' = [sock EXCEPT !.status[Target(e)] = "established", !.watch[e.fd] = w],
           UNCHANGED <<type, conf, orphans>>
    PROVE  Core' /\ FreeIn(lists') = FreeIn(lists) /\ sock'.fd = sock.fd
<1> DEFINE i == Target(e)
<1>1. /\ i = e.link /\ i \in UsedIn(lists) /\ i \in Links /\ i \notin FreeIn(lists)
      /\ e.fd \in Fds /\ sock.fd[i] = e.fd /\ sock.fd2idx[e.fd] = i
      /\ \A d \in fired \ {e} : d.link # i
      BY EventFacts
<1>2. /\ Core /\ type \in [Links -> Types] /\ conf \subseteq Links
      /\ ListsOK(lists) /\ SocketsOK(sock) /\ Agree(lists, sock) /\ sock \in Sockets
      /\ Roles(lists, type, sock)
      BY DEF NetInv, Core, SocketsOK
<1>3. lists' = UpdateUsedList(lists, i) BY DEF i
<1>4. sock' = Watched(sock, i, "established", w)
  <2>1. sock.fd2idx = [sock.fd2idx EXCEPT ![e.fd] = i] BY <1>1, <1>2, SocketFields
  <2> QED BY <1>1, <1>2, <2>1, SocketFields DEF Watched, i
<1>5. sock.status[i] \in {"connecting", "established"} BY DEF i
<1> HIDE DEF i
<1>6. /\ ListsOK(lists') /\ UsedIn(lists') = UsedIn(lists) /\ FreeIn(lists') = FreeIn(lists)
  <2>1. /\ ListsOK(lists') /\ SameMembers(lists, lists', LinkLists) BY <1>1, <1>2, <1>3, UpdatedOK
  <2>2. lused \in LinkLists /\ lfree \in LinkLists BY <1>2, OneList
  <2> QED BY <2>1, <2>2 DEF SameMembers, UsedIn, FreeIn
<1>7. /\ SocketsOK(sock') /\ SameBut(sock, sock', i)
      /\ sock'.fd = sock.fd /\ sock'.status[i] = "established"
      /\ sock'.fd2idx[e.fd] = i /\ sock'.watch[e.fd] = w
      /\ \A f \in Fds \ {e.fd} : sock'.fd2idx[f] = sock.fd2idx[f] /\ sock'.watch[f] = sock.watch[f]
  <2>1. sock.fd[i] # Nil /\ "established" \in Statuses \ {"closed"}
        BY <1>1, NilIsNone DEF Statuses
  <2>2. w \in {"in", "inout", "oneshot", "spent"} OBVIOUS
  <2>3. LET t == Watched(sock, i, "established", w)
        IN  /\ SocketsOK(t) /\ SameBut(sock, t, i)
            /\ t.fd = sock.fd /\ t.status[i] = "established"
            /\ t.fd2idx[sock.fd[i]] = i /\ t.watch[sock.fd[i]] = w
            /\ \A f \in Fds \ {sock.fd[i]} : t.fd2idx[f] = sock.fd2idx[f] /\ t.watch[f] = sock.watch[f]
        BY <1>1, <1>2, <2>1, <2>2, WatchedEffect
  <2> QED BY <1>1, <1>4, <2>3
<1>8. Agree(lists', sock')
  <2>1. UsedIn(lists) \subseteq Links /\ FreeIn(lists) \subseteq Links
        BY <1>2, OneList DEF UsedIn, FreeIn
  <2>2. Served(sock', i)
    <3>1. w # "no" /\ w \in Interest["established"] BY DEF Interest
    <3> QED BY <1>1, <1>7, <3>1, NilIsNone DEF Served
  <2>3. \A j \in UsedIn(lists') : Served(sock', j)
        BY <1>2, <1>6, <1>7, <2>1, <2>2, ServedFrame, NilIsNone DEF Agree, AgreeBut
  <2>4. \A f \in Fds : sock'.watch[f] # "no" => sock'.fd2idx[f] \in UsedIn(lists')
        BY <1>1, <1>2, <1>6, <1>7 DEF Agree, AgreeBut
  <2>5. \A j \in FreeIn(lists') : sock'.status[j] = "closed"
        BY <1>1, <1>2, <1>6, <1>7, <2>1 DEF Agree, AgreeBut, SameBut
  <2> QED BY <2>3, <2>4, <2>5 DEF Agree, AgreeBut
<1>9. type[i] # "server" BY <1>1, <1>2, <1>5 DEF Roles
<1>10. /\ i \in conf \cup orphans => type[i] # "accept"
       /\ type[i] = "accept" \/ i \in conf \cup orphans
       BY <1>1, <1>2 DEF Core, Accounted
<1>11. /\ fired' \subseteq fired /\ \A d \in fired' : d.link # i
       /\ \A d \in fired \ fired' : d.link = i
       BY <1>1
<1> QED BY <1>1, <1>2, <1>6, <1>7, <1>8, <1>9, <1>10, <1>11, CoreStep

\* The handshake is over.
LEMMA EventConnectedOK ==
    ASSUME NetInv, NEW e \in fired, NEW in \in BOOLEAN, EventConnected(e, in)
    PROVE  NetInv' /\ FreeIn(lists') = FreeIn(lists) /\ sock'.fd = sock.fd
<1> DEFINE w == IF unsent[Target(e)] THEN "inout" ELSE "in"
<1>1. /\ fired' = fired \ {e} /\ lists' = UpdateUsedList(lists, Target(e))
      /\ sock.status[Target(e)] \in {"connecting", "established"}
      /\ sock' = [sock EXCEPT !.status[Target(e)] = "established", !.watch[e.fd] = w]
      /\ idle' = IF in THEN [idle EXCEPT ![Target(e)] = 0] ELSE idle
      /\ UNCHANGED <<type, rest, unsent, conf, orphans, pc, cursor, left>>
      BY DEF EventConnected, Handles
<1>2. w \in {"in", "inout"} OBVIOUS
<1> HIDE DEF w
<1>3. Core' /\ FreeIn(lists') = FreeIn(lists) /\ sock'.fd = sock.fd
      BY <1>1, <1>2, EventKeeps
<1>4. Loop'
  <2>1. /\ idle' \in [Links -> 0 .. MaxIdle] /\ rest' \in [Links -> 0 .. MinRest]
        /\ unsent' \in [Links -> BOOLEAN]
        BY <1>1, IdleReset DEF NetInv, Loop
  <2> QED BY <1>1, <2>1, EventLoop
<1> QED BY <1>3, <1>4 DEF NetInv

\* Data received or sent.
LEMMA EventDataOK ==
    ASSUME NetInv, NEW e \in fired, NEW in \in BOOLEAN, NEW sent \in {"untouched", "some", "all"},
           EventData(e, in, sent)
    PROVE  NetInv' /\ FreeIn(lists') = FreeIn(lists) /\ sock'.fd = sock.fd
<1> DEFINE i == Target(e)
           w == IF sent = "all" THEN "in" ELSE IF unsent[i] THEN "inout" ELSE sock.watch[e.fd]
<1>1. /\ fired' = fired \ {e} /\ lists' = UpdateUsedList(lists, i)
      /\ sock.status[i] = "established"
      /\ sock' = [sock EXCEPT !.watch[e.fd] = w]
      /\ unsent' = [unsent EXCEPT ![i] = @ /\ sent # "all"]
      /\ idle' = IF in \/ sent # "untouched" THEN [idle EXCEPT ![i] = 0] ELSE idle
      /\ UNCHANGED <<type, rest, conf, orphans, pc, cursor, left>>
      BY DEF EventData, Handles
<1>2. /\ i \in UsedIn(lists) /\ i \in Links /\ e.fd \in Fds /\ sock.fd[i] = e.fd
      BY EventFacts
<1>3. SocketsOK(sock) /\ Agree(lists, sock) /\ sock \in Sockets
      BY DEF NetInv, Core, SocketsOK
<1>4. w \in {"in", "inout"}
  <2>1. sock.watch[e.fd] \in {"in", "inout"}
    <3>1. Served(sock, i) BY <1>2, <1>3, NilIsNone DEF Agree, AgreeBut
    <3> QED BY <1>1, <1>2, <3>1 DEF Served, Interest
  <2> QED BY <2>1
<1> HIDE DEF w
<1>5. sock' = [sock EXCEPT !.status[i] = "established", !.watch[e.fd] = w]
  <2>1. [sock.status EXCEPT ![i] = "established"] = sock.status
        BY <1>1, <1>2, <1>3, SocketFields
  <2> QED BY <1>1, <1>3, <2>1 DEF Sockets
<1>6. Core' /\ FreeIn(lists') = FreeIn(lists) /\ sock'.fd = sock.fd
      BY <1>1, <1>4, <1>5, EventKeeps
<1>7. Loop'
  <2>1. idle \in [Links -> 0 .. MaxIdle] /\ rest \in [Links -> 0 .. MinRest]
        /\ unsent \in [Links -> BOOLEAN]
        BY DEF NetInv, Loop
  <2>2. idle' \in [Links -> 0 .. MaxIdle] BY <1>1, <2>1, IdleReset
  <2>3. unsent' \in [Links -> BOOLEAN] BY <1>1, <2>1
  <2> QED BY <1>1, <2>1, <2>2, <2>3, EventLoop
<1> QED BY <1>6, <1>7 DEF NetInv

\* accept_link() takes a free link to the used list, or back to the free one.
LEMMA AcceptLists ==
    ASSUME NetInv, NEW i \in Links, NEW dst \in {lfree, lused}, lists[lfree] # <<>>
    PROVE  LET ls  == UpdateUsedList(lists, i)
               new == Moved(ls, lfree, dst)
               c   == Head(lists[lfree])
           IN  /\ ListsOK(new) /\ c \in FreeIn(lists) /\ c \in Links /\ c \notin UsedIn(lists)
               /\ UsedIn(new) = IF dst = lused THEN UsedIn(lists) \cup {c} ELSE UsedIn(lists)
               /\ FreeIn(new) = IF dst = lused THEN FreeIn(lists) \ {c} ELSE FreeIn(lists)
<1> DEFINE ls  == UpdateUsedList(lists, i)
           new == Moved(ls, lfree, dst)
           c   == Head(lists[lfree])
<1>1. ListsOK(lists) BY DEF NetInv, Core
<1>2. /\ lused \in LinkLists /\ lfree \in LinkLists /\ lused # lfree /\ dst \in LinkLists
      BY <1>1, OneList
<1>3. /\ ListsOK(ls) /\ SameMembers(lists, ls, LinkLists) /\ ls[lfree] = lists[lfree]
      BY <1>1, UpdatedOK
<1> HIDE DEF ls
<1>4. /\ ListsOK(new) /\ c \in Members(ls[lfree]) /\ c \in Links
      /\ MovedTo(ls, new, LinkLists, c, dst)
      BY <1>2, <1>3, MovedOK
<1> HIDE DEF new, c
<1>5. c \in FreeIn(lists) /\ c \notin UsedIn(lists)
      BY <1>1, <1>3, <1>4, OneList DEF UsedIn, FreeIn
<1>6. UsedIn(ls) = UsedIn(lists) /\ FreeIn(ls) = FreeIn(lists)
      BY <1>2, <1>3 DEF SameMembers, UsedIn, FreeIn
<1>7. /\ Members(new[dst]) = Members(ls[dst]) \cup {c}
      /\ \A l \in LinkLists \ {dst} : Members(new[l]) = Members(ls[l]) \ {c}
      BY <1>4 DEF MovedTo
<1>8. CASE dst = lused
  <2>1. lfree \in LinkLists \ {dst} BY <1>2, <1>8
  <2>2. UsedIn(new) = UsedIn(ls) \cup {c} BY <1>7, <1>8 DEF UsedIn
  <2>3. FreeIn(new) = FreeIn(ls) \ {c} BY <1>7, <2>1 DEF FreeIn
  <2> QED BY <1>4, <1>5, <1>6, <1>8, <2>2, <2>3 DEF new, c, ls
<1>9. CASE dst = lfree
  <2>1. lused \in LinkLists \ {dst} BY <1>2, <1>9
  <2>2. UsedIn(new) = UsedIn(ls) \ {c} BY <1>7, <2>1 DEF UsedIn
  <2>3. FreeIn(new) = FreeIn(ls) \cup {c} BY <1>7, <1>9 DEF FreeIn
  <2>4. dst # lused /\ UsedIn(new) = UsedIn(lists) /\ FreeIn(new) = FreeIn(lists)
        BY <1>2, <1>5, <1>6, <1>9, <2>2, <2>3
  <2> QED BY <1>4, <1>5, <2>4 DEF new, c, ls
<1> QED BY <1>8, <1>9

\* accept_link() fails: the free link it may have taken is free again.
LEMMA AcceptFailsOK ==
    ASSUME NetInv, NEW e \in fired, AcceptFails(e)
    PROVE  /\ NetInv' /\ FreeIn(lists') = FreeIn(lists)
           /\ \A j \in Links \ FreeIn(lists) : type'[j] = type[j]
<1> DEFINE i  == Target(e)
           ls == UpdateUsedList(lists, i)
           c  == Head(lists[lfree])
<1>1. /\ fired' = fired \ {e} /\ sock.status[i] = "listening"
      /\ UNCHANGED <<sock, idle, unsent, conf, orphans, pc, cursor, left>>
      BY DEF AcceptFails, Handles
<1>2. \/ lists' = ls /\ UNCHANGED <<type, rest>>
      \/ /\ lists[lfree] # <<>> /\ lists' = Moved(ls, lfree, lfree)
         /\ rest' = [rest EXCEPT ![c] = MinRest]
         /\ type' \in {type, [type EXCEPT ![c] = "accept"]}
      BY DEF AcceptFails
<1>3. /\ i = e.link /\ i \in UsedIn(lists) /\ i \in Links /\ i \notin FreeIn(lists)
      /\ \A d \in fired \ {e} : d.link # i
      BY EventFacts
<1>4. /\ Core /\ type \in [Links -> Types] /\ conf \cup orphans \subseteq Links
      /\ ListsOK(lists) /\ SocketsOK(sock) /\ Agree(lists, sock)
      /\ fired \subseteq [fd : Fds, link : Links] /\ Reach(lists, sock, fired)
      /\ Roles(lists, type, sock) /\ Accounted(lists, type, conf \cup orphans)
      BY DEF NetInv, Core
<1>5. /\ ListsOK(lists') /\ UsedIn(lists') = UsedIn(lists) /\ FreeIn(lists') = FreeIn(lists)
      /\ type' \in [Links -> Types] /\ rest' \in [Links -> 0 .. MinRest]
      /\ \A j \in Links : j \in FreeIn(lists) \/ type'[j] = type[j]
  <2>0. rest \in [Links -> 0 .. MinRest] BY DEF NetInv, Loop
  <2>1. CASE lists' = ls /\ UNCHANGED <<type, rest>>
    <3>1. /\ ListsOK(lists') /\ SameMembers(lists, lists', LinkLists)
          BY <1>3, <1>4, <2>1, UpdatedOK
    <3>2. lused \in LinkLists /\ lfree \in LinkLists BY <1>4, OneList
    <3>3. UsedIn(lists') = UsedIn(lists) /\ FreeIn(lists') = FreeIn(lists)
          BY <3>1, <3>2 DEF SameMembers, UsedIn, FreeIn
    <3> QED BY <1>4, <2>0, <2>1, <3>1, <3>3
  <2>2. CASE /\ lists[lfree] # <<>> /\ lists' = Moved(ls, lfree, lfree)
             /\ rest' = [rest EXCEPT ![c] = MinRest]
             /\ type' \in {type, [type EXCEPT ![c] = "accept"]}
    <3>1. /\ ListsOK(lists') /\ c \in FreeIn(lists) /\ c \in Links
          /\ UsedIn(lists') = UsedIn(lists) /\ FreeIn(lists') = FreeIn(lists)
      <4>1. lfree \in {lfree, lused} /\ lfree # lused BY <1>4, OneList
      <4> QED BY <1>3, <2>2, <4>1, AcceptLists
    <3> HIDE DEF c
    <3>2. type' \in [Links -> Types] /\ \A j \in Links : j = c \/ type'[j] = type[j]
          BY <1>4, <2>2 DEF Types
    <3>3. rest' \in [Links -> 0 .. MinRest]
      <4>1. MinRest \in 0 .. MinRest BY NetAssumption
      <4> QED BY <2>0, <2>2, <4>1
    <3> QED BY <3>1, <3>2, <3>3
  <2> QED BY <1>2, <2>1, <2>2
<1> HIDE DEF i, ls, c
<1>6. Agree(lists', sock') BY <1>1, <1>4, <1>5 DEF Agree, AgreeBut
<1>7. Reach(lists', sock', fired')
  <2>1. SameBut(sock, sock', Nil) BY <1>1 DEF SameBut
  <2>2. /\ fired' \subseteq fired /\ \A d \in fired' : d.link # Nil
        /\ \A d \in fired \ fired' : sock.status[d.link] # "connecting"
        BY <1>1, <1>3, <1>4, NilIsNone
  <2>3. Nil \notin UsedIn(lists')
        BY <1>5, OneList, NilIsNone DEF UsedIn
  <2> QED BY <1>4, <1>5, <2>1, <2>2, <2>3, ReachFrame
<1>8. Roles(lists', type', sock') /\ Accounted(lists', type', conf' \cup orphans')
  <2>1. UsedIn(lists) \subseteq Links /\ UsedIn(lists) \cap FreeIn(lists) = {}
        BY <1>4, OneList DEF UsedIn, FreeIn
  <2>2. Roles(lists', type', sock') BY <1>1, <1>4, <1>5, <2>1 DEF Roles
  <2>3. Accounted(lists', type', conf' \cup orphans') BY <1>1, <1>4, <1>5 DEF Accounted
  <2> QED BY <2>2, <2>3
<1>9. Core' BY <1>1, <1>4, <1>5, <1>6, <1>7, <1>8 DEF Core
<1>10. Loop'
  <2>1. idle' \in [Links -> 0 .. MaxIdle] /\ unsent' \in [Links -> BOOLEAN]
        BY <1>1 DEF NetInv, Loop
  <2> QED BY <1>1, <1>5, <2>1, EventLoop
<1> QED BY <1>5, <1>9, <1>10 DEF NetInv

\* accept_link(): a free link serves the new connection.
LEMMA AcceptOK ==
    ASSUME NetInv, NEW e \in fired, Accept(e)
    PROVE  /\ NetInv' /\ SameBut(sock, sock', Head(lists[lfree]))
           /\ FreeIn(lists') = FreeIn(lists) \ {Head(lists[lfree])}
           /\ Head(lists[lfree]) \in FreeIn(lists) \cap UsedIn(lists')
<1> DEFINE i  == Target(e)
           c  == Head(lists[lfree])
<1>1. /\ fired' = fired \ {e} /\ sock.status[i] = "listening" /\ lists[lfree] # <<>>
      /\ lists' = Moved(UpdateUsedList(lists, i), lfree, lused)
      /\ type' = [type EXCEPT ![c] = "accept"] /\ idle' = [idle EXCEPT ![c] = 0]
      /\ UNCHANGED <<rest, unsent, conf, orphans, pc, cursor, left>>
      BY DEF Accept, Handles
<1>2. PICK fd \in NewFds(sock) : sock' = Watched(Setup(sock, c, fd), c, "established", "in")
      BY DEF Accept
<1>3. i = e.link /\ i \in UsedIn(lists) /\ i \in Links BY EventFacts
<1>4. /\ Core /\ type \in [Links -> Types] /\ conf \subseteq Links
      /\ ListsOK(lists) /\ SocketsOK(sock) /\ Agree(lists, sock)
      /\ fired \subseteq [fd : Fds, link : Links] /\ Reach(lists, sock, fired)
      /\ Accounted(lists, type, conf \cup orphans)
      BY DEF NetInv, Core
<1>5. /\ ListsOK(lists') /\ c \in FreeIn(lists) /\ c \in Links /\ c \notin UsedIn(lists)
      /\ UsedIn(lists') = UsedIn(lists) \cup {c} /\ FreeIn(lists') = FreeIn(lists) \ {c}
      BY <1>1, <1>3, AcceptLists
<1>6. type' \in [Links -> Types] /\ type'[c] = "accept" /\ \A j \in Links \ {c} : type'[j] = type[j]
      BY <1>1, <1>4, <1>5 DEF Types
<1> HIDE DEF i, c
<1>7. sock.fd[c] = Nil BY <1>4, <1>5 DEF Agree, AgreeBut, SocketsOK
<1> DEFINE u == Setup(sock, c, fd)
<1>8. /\ SocketsOK(u) /\ SameBut(sock, u, c) /\ u.fd[c] = fd /\ fd \in Fds
      /\ u.fd2idx = sock.fd2idx /\ u.watch = sock.watch
      BY <1>4, <1>5, <1>7, SetupEffect
<1>9. sock' = Watched(u, c, "established", "in") BY <1>2
<1> HIDE DEF u
<1>10. /\ SocketsOK(sock') /\ SameBut(u, sock', c)
       /\ sock'.fd = u.fd /\ sock'.status[c] = "established"
       /\ sock'.fd2idx[fd] = c /\ sock'.watch[fd] = "in"
       /\ \A f \in Fds \ {fd} : sock'.fd2idx[f] = u.fd2idx[f] /\ sock'.watch[f] = u.watch[f]
  <2>1. u.fd[c] # Nil /\ "established" \in Statuses \ {"closed"}
        /\ "in" \in {"in", "inout", "oneshot", "spent"}
        BY <1>8, NilIsNone DEF Statuses
  <2>2. LET t == Watched(u, c, "established", "in")
        IN  /\ SocketsOK(t) /\ SameBut(u, t, c)
            /\ t.fd = u.fd /\ t.status[c] = "established"
            /\ t.fd2idx[u.fd[c]] = c /\ t.watch[u.fd[c]] = "in"
            /\ \A f \in Fds \ {u.fd[c]} : t.fd2idx[f] = u.fd2idx[f] /\ t.watch[f] = u.watch[f]
        BY <1>5, <1>8, <2>1, WatchedEffect
  <2> QED BY <1>8, <1>9, <2>2
<1>11. SameBut(sock, sock', c) BY <1>8, <1>10 DEF SameBut
<1>12. Agree(lists', sock')
  <2>1. UsedIn(lists) \subseteq Links /\ FreeIn(lists) \subseteq Links
        BY <1>4, OneList DEF UsedIn, FreeIn
  <2>2. Served(sock', c) BY <1>8, <1>10, NilIsNone DEF Served, Interest
  <2>3. ASSUME NEW j \in UsedIn(lists') PROVE Served(sock', j)
    <3>1. CASE j = c BY <2>2, <3>1
    <3>2. CASE j # c
      <4>1. j \in UsedIn(lists) \ {Nil} /\ j \in Links \ {c} BY <1>5, <2>1, <3>2, NilIsNone
      <4>2. Served(sock, j) BY <1>4, <4>1 DEF Agree, AgreeBut
      <4> QED BY <1>4, <1>11, <4>1, <4>2, ServedFrame
    <3> QED BY <3>1, <3>2
  <2>4. \A f \in Fds : sock'.watch[f] # "no" => sock'.fd2idx[f] \in UsedIn(lists')
        BY <1>4, <1>5, <1>8, <1>10 DEF Agree, AgreeBut
  <2>5. \A j \in FreeIn(lists') : sock'.status[j] = "closed"
        BY <1>4, <1>5, <1>11, <2>1 DEF Agree, AgreeBut, SameBut
  <2> QED BY <2>3, <2>4, <2>5 DEF Agree, AgreeBut
<1>13. /\ fired' \subseteq fired /\ \A d \in fired' : d.link # c
       /\ \A d \in fired \ fired' : sock.status[d.link] # "connecting"
       BY <1>1, <1>3, <1>4, <1>5 DEF Reach
<1>14. c \notin conf \cup orphans BY <1>4, <1>5 DEF Accounted
<1>15. Core' BY <1>1, <1>4, <1>5, <1>6, <1>10, <1>11, <1>12, <1>13, <1>14, CoreStep
<1>16. Loop'
  <2>1. idle' \in [Links -> 0 .. MaxIdle] /\ rest' \in [Links -> 0 .. MinRest]
        /\ unsent' \in [Links -> BOOLEAN]
        BY <1>1, IdleReset DEF NetInv, Loop
  <2> QED BY <1>1, <2>1, EventLoop
<1> QED BY <1>5, <1>11, <1>15, <1>16 DEF NetInv, c

\* epoll_wait() puts only sockets of links in use in the batch, and disarms only
\* what it puts there.
LEMMA EpollWaitOK ==
    ASSUME NetInv, NEW batch \in SUBSET Ready, EpollWait(batch)
    PROVE  NetInv'
<1> DEFINE w == [f \in Fds |-> IF f \in batch /\ sock.watch[f] = "oneshot" THEN "spent"
                              ELSE sock.watch[f]]
<1>1. /\ pc = "check" /\ pc' = "events" /\ cursor' = Nil /\ left' = 0
      /\ fired' = {[fd |-> f, link |-> sock.fd2idx[f]] : f \in batch}
      /\ sock' = [sock EXCEPT !.watch = w]
      /\ UNCHANGED <<lists, type, idle, rest, unsent, conf, orphans>>
      BY DEF EpollWait
<1>2. /\ Core /\ type \in [Links -> Types] /\ conf \subseteq Links
      /\ ListsOK(lists) /\ SocketsOK(sock) /\ Agree(lists, sock) /\ sock \in Sockets
      /\ Reach(lists, sock, fired)
      /\ Roles(lists, type, sock) /\ Accounted(lists, type, conf \cup orphans) /\ fired = {}
      BY <1>1, NoneFired DEF NetInv, Core, SocketsOK
<1>3. w \in [Fds -> {"no", "in", "inout", "oneshot", "spent"}]
      BY <1>2, SocketFields
<1>4. \A f \in Fds : /\ w[f] = "no" <=> sock.watch[f] = "no"
                     /\ f \notin batch => w[f] = sock.watch[f]
                     /\ w[f] = sock.watch[f] \/ (sock.watch[f] = "oneshot" /\ w[f] = "spent")
      BY <1>2, SocketFields
<1>5. /\ sock'.fd = sock.fd /\ sock'.status = sock.status /\ sock'.fd2idx = sock.fd2idx
      /\ sock'.open = sock.open /\ sock'.watch = w /\ sock' \in Sockets
      BY <1>1, <1>2, <1>3 DEF Sockets
<1> HIDE DEF w
<1>6. SocketsOK(sock') BY <1>2, <1>5 DEF SocketsOK
<1>7. UsedIn(lists) \subseteq Links BY <1>2, OneList DEF UsedIn
<1>8. Agree(lists', sock')
  <2>1. \A j \in Links : sock.fd[j] \in Fds \cup {Nil} BY <1>2, SocketFields
  <2>2. \A j \in UsedIn(lists) \ {Nil} : Served(sock', j)
    <3> TAKE j \in UsedIn(lists) \ {Nil}
    <3>1. Served(sock, j) /\ j \in Links BY <1>2, <1>7, NilIsNone DEF Agree, AgreeBut
    <3>2. sock.fd[j] \in Fds BY <2>1, <3>1 DEF Served
    <3>3. w[sock.fd[j]] # "no" /\ w[sock.fd[j]] \in Interest[sock.status[j]]
          BY <1>4, <3>1, <3>2 DEF Served, Interest
    <3> QED BY <1>5, <3>1, <3>3 DEF Served
  <2>3. \A f \in Fds : sock'.watch[f] # "no" => sock'.fd2idx[f] \in UsedIn(lists)
        BY <1>2, <1>4, <1>5 DEF Agree, AgreeBut
  <2>4. \A j \in FreeIn(lists) : sock'.status[j] = "closed"
        BY <1>2, <1>5 DEF Agree, AgreeBut
  <2> QED BY <1>1, <2>2, <2>3, <2>4 DEF Agree, AgreeBut
<1>9. \A f \in batch : f \in Fds /\ sock.watch[f] # "no" /\ sock.fd2idx[f] \in UsedIn(lists)
  <2>1. \A f \in batch : f \in Fds /\ sock.watch[f] # "no" BY DEF Ready
  <2> QED BY <1>2, <2>1 DEF Agree, AgreeBut
<1>10. Reach(lists', sock', fired')
  <2>1. ASSUME NEW i \in UsedIn(lists), sock'.status[i] = "connecting"
        PROVE  sock'.watch[sock'.fd[i]] = "oneshot" \/ [fd |-> sock'.fd[i], link |-> i] \in fired'
    <3>1. sock.watch[sock.fd[i]] = "oneshot" BY <1>2, <1>5, <2>1 DEF Reach
    <3>2. Served(sock, i) BY <1>2, <1>7, NilIsNone DEF Agree, AgreeBut
    <3>3. sock.fd[i] \in Fds BY <1>2, <1>7, <3>2, SocketFields DEF Served
    <3>4. CASE sock.fd[i] \in batch
          BY <1>1, <1>5, <3>2, <3>4 DEF Served
    <3>5. CASE sock.fd[i] \notin batch BY <1>4, <1>5, <3>1, <3>3, <3>5
    <3> QED BY <3>4, <3>5
  <2>2. \A e \in fired' : sock'.fd2idx[e.fd] = e.link /\ e.link \in UsedIn(lists)
        BY <1>1, <1>5, <1>9
  <2> QED BY <1>1, <2>1, <2>2 DEF Reach
<1>11. Roles(lists', type', sock') BY <1>1, <1>2, <1>5 DEF Roles
<1>12. Core'
  <2>1. fired' \subseteq [fd : Fds, link : Links] BY <1>1, <1>7, <1>9
  <2> QED BY <1>1, <1>2, <1>6, <1>8, <1>10, <1>11, <2>1 DEF Core
<1>13. Loop' BY <1>1 DEF NetInv, Loop, WalkOK, FiredOK
<1> QED BY <1>12, <1>13 DEF NetInv

-----------------------------------------------------------------------------
(* The steps: the application's requests, and the main loop *)

\* mpf_close_link may name any link: in use, waiting to be recovered, or free.
LEMMA AppClosesOK ==
    ASSUME NetInv, NEW i \in Links, AppCloses(i)
    PROVE  NetInv'
<1>1. /\ pc = "app" /\ Shutdown(i) /\ UNCHANGED <<type, idle, conf, orphans, pc, cursor, left, fired>>
      BY DEF AppCloses
<1>2. /\ Core /\ type \in [Links -> Types] /\ conf \subseteq Links
      /\ Accounted(lists, type, conf \cup orphans) /\ fired = {} /\ cursor = Nil
      BY <1>1, NoneFired DEF NetInv, Core, Loop, WalkOK
<1>3. /\ ListsOK(lists') /\ SocketsOK(sock') /\ Agree(lists', sock')
      /\ SameBut(sock, sock', i)
      /\ UsedIn(lists') = UsedIn(lists) \ {i}
      /\ FreeIn(lists') = FreeIn(lists) \cup (IF type[i] = "accept" THEN {i} ELSE {})
      /\ rest' \in [Links -> 0 .. MinRest] /\ unsent' \in [Links -> BOOLEAN]
      BY <1>1, ShutdownEffect
<1>4. /\ i \in conf \cup orphans => i \notin FreeIn(lists) /\ type[i] # "accept"
      /\ i \in FreeIn(lists) \/ type[i] = "accept" \/ i \in conf \cup orphans
      BY <1>2 DEF Accounted
<1>5. /\ FreeIn(lists') \ {i} = FreeIn(lists) \ {i} /\ UsedIn(lists') \ {i} = UsedIn(lists) \ {i}
      /\ i \notin UsedIn(lists')
      /\ i \in conf' \cup orphans' => i \notin FreeIn(lists') /\ type'[i] # "accept"
      /\ i \in FreeIn(lists') \/ type'[i] = "accept" \/ i \in conf' \cup orphans'
      BY <1>1, <1>3, <1>4
<1>6. Core' BY <1>1, <1>2, <1>3, <1>5, CoreStep
<1>7. Loop' BY <1>1, <1>2, <1>3 DEF NetInv, Loop, WalkOK, FiredOK
<1> QED BY <1>6, <1>7 DEF NetInv

\* send_by_context() and send_by_group() change only what waits to be sent.
LEMMA AppSendsOK ==
    ASSUME NetInv, NEW i \in Links, AppSends(i)
    PROVE  NetInv'
<1>1. /\ UNCHANGED <<lists, type, sock, rest, conf, orphans, pc, cursor, left, fired>>
      /\ \/ \E b \in BOOLEAN : unsent' = [unsent EXCEPT ![i] = b] /\ idle' = [idle EXCEPT ![i] = 0]
         \/ UNCHANGED <<unsent, idle>>
      BY DEF AppSends
<1>2. idle' \in [Links -> 0 .. MaxIdle] /\ unsent' \in [Links -> BOOLEAN]
  <2>1. idle \in [Links -> 0 .. MaxIdle] /\ unsent \in [Links -> BOOLEAN] BY DEF NetInv, Loop
  <2>2. CASE UNCHANGED <<unsent, idle>> BY <2>1, <2>2
  <2>3. ASSUME NEW b \in BOOLEAN, unsent' = [unsent EXCEPT ![i] = b], idle' = [idle EXCEPT ![i] = 0]
        PROVE  idle' \in [Links -> 0 .. MaxIdle] /\ unsent' \in [Links -> BOOLEAN]
        BY <2>1, <2>3, IdleReset
  <2> QED BY <1>1, <2>2, <2>3
<1>3. Core' BY <1>1, CoreSame DEF NetInv
<1>4. Loop' BY <1>1, <1>2 DEF NetInv, Loop, WalkOK, FiredOK
<1> QED BY <1>3, <1>4 DEF NetInv

\* Time goes by, and a load may fail: what was configured is left over.
LEMMA RefreshOK ==
    ASSUME NetInv, NEW dt \in {0, 1}, Refresh(dt) \/ RefreshLoadsBad(dt)
    PROVE  NetInv'
<1>1. /\ pc = "top" /\ pc' \in {"closing", "opened"}
      /\ UNCHANGED <<lists, type, sock, unsent, cursor, left, fired>>
      /\ \/ UNCHANGED <<conf, orphans>>
         \/ conf' = {} /\ orphans' = orphans \cup conf
      BY DEF Refresh, RefreshLoadsBad, TimePasses
<1>2. Core'
  <2>1. CASE UNCHANGED <<conf, orphans>> BY <1>1, <2>1, CoreSame DEF NetInv
  <2>2. CASE conf' = {} /\ orphans' = orphans \cup conf
    <3>1. conf' \cup orphans' = conf \cup orphans BY <2>2
    <3>2. /\ conf' \subseteq Links /\ orphans' \subseteq Links /\ conf' \cap orphans' = {}
          BY <2>2 DEF NetInv, Core
    <3> QED BY <1>1, <3>1, <3>2
            DEF NetInv, Core, Accounted, Roles, Reach, Agree, AgreeBut, SocketsOK, ListsOK, ListsOf,
                Served, UsedIn, FreeIn
  <2> QED BY <1>1, <2>1, <2>2
<1>3. idle \in [Links -> 0 .. MaxIdle] /\ rest \in [Links -> 0 .. MinRest] BY DEF NetInv, Loop
<1>4. \A a, b \in Nat : Least(a, b) \in 0 .. b BY DEF Least
<1>5. idle' \in [Links -> 0 .. MaxIdle]
  <2>1. \A j \in Links : idle[j] + dt \in Nat BY <1>3, NetAssumption
  <2>2. 0 \in 0 .. MaxIdle /\ MaxIdle \in Nat BY NetAssumption
  <2>3. \A j \in Links : Least(idle[j] + dt, MaxIdle) \in 0 .. MaxIdle BY <1>4, <2>1, <2>2
  <2> QED BY <2>2, <2>3 DEF Refresh, RefreshLoadsBad, TimePasses
<1>6. rest' \in [Links -> 0 .. MinRest]
  <2>1. \A j \in Links : rest[j] + dt \in Nat BY <1>3, NetAssumption
  <2>2. MinRest \in Nat BY NetAssumption
  <2>3. \A j \in Links : Least(rest[j] + dt, MinRest) \in 0 .. MinRest BY <1>4, <2>1, <2>2
  <2> QED BY <2>3 DEF Refresh, RefreshLoadsBad, TimePasses
<1>7. cursor = Nil /\ fired = {} BY <1>1, NoneFired DEF NetInv, Loop, WalkOK
<1>8. Loop' BY <1>1, <1>5, <1>6, <1>7 DEF NetInv, Loop, WalkOK, FiredOK
<1> QED BY <1>2, <1>8 DEF NetInv

\* The main loop goes on to its next stage; a walk starts at the head of a list.
LEMMA LoopOK ==
    ASSUME NetInv, AllClosed \/ StartRecover \/ StartCheck \/ EventsDone \/ AppDone
    PROVE  NetInv'
<1>1. UNCHANGED <<lists, type, sock, idle, rest, unsent, conf, orphans, fired>>
      BY DEF AllClosed, StartRecover, StartCheck, EventsDone, AppDone
<1>2. Core' BY <1>1, CoreSame DEF NetInv
<1>3. ListsOK(lists) BY DEF NetInv, Core
<1>4. \A l \in LinkLists : HeadOf(lists, l) \in Members(lists[l]) \cup {Nil}
                           /\ HeadOf(lists, l) \in Links \cup {Nil}
  <2> TAKE l \in LinkLists
  <2>1. Members(lists[l]) \subseteq Links BY <1>3, OneList
  <2> QED BY <1>3, <2>1, HeadOfList
<1>5. lused \in LinkLists /\ lerror \in LinkLists BY <1>3, OneList
<1>6. MaxRecover \in Nat /\ MaxCheck \in Nat BY NetAssumption
<1>7. CASE AllClosed \/ EventsDone \/ AppDone
  <2>1. /\ pc \in {"closing", "events", "app"} /\ pc' \in {"opening", "app", "top"}
        /\ UNCHANGED <<cursor, left>> /\ (pc = "events" => fired = {})
        BY <1>7 DEF AllClosed, EventsDone, AppDone
  <2>2. cursor = Nil /\ fired = {} BY <2>1, NoneFired DEF NetInv, Loop, WalkOK
  <2> QED BY <1>1, <1>2, <2>1, <2>2 DEF NetInv, Loop, WalkOK, FiredOK
<1>8. CASE StartRecover
  <2>1. /\ pc \in {"opening", "opened"} /\ pc' = "recover"
        /\ cursor' = HeadOf(lists, lerror) /\ left' = MaxRecover
        BY <1>8 DEF StartRecover
  <2>2. fired = {} BY <2>1, NoneFired
  <2>3. cursor' \in Members(lists[lerror]) \cup {Nil} /\ cursor' \in Links \cup {Nil}
        BY <1>4, <1>5, <2>1
  <2> QED BY <1>1, <1>2, <1>6, <2>1, <2>2, <2>3 DEF NetInv, Loop, WalkOK, FiredOK
<1>9. CASE StartCheck
  <2>1. /\ pc = "recover" /\ pc' = "check"
        /\ cursor' = HeadOf(lists, lused) /\ left' = MaxCheck
        BY <1>9 DEF StartCheck
  <2>2. fired = {} BY <2>1, NoneFired
  <2>3. cursor' \in UsedIn(lists) \cup {Nil} /\ cursor' \in Links \cup {Nil}
        BY <1>4, <1>5, <2>1 DEF UsedIn
  <2> QED BY <1>1, <1>2, <1>6, <2>1, <2>2, <2>3 DEF NetInv, Loop, WalkOK, FiredOK
<1> QED BY <1>7, <1>8, <1>9

-----------------------------------------------------------------------------
(* The theorems *)

\* calypso_network_t starts with all links free and closed.
LEMMA InitOK == Init => NetInv
<1> SUFFICES ASSUME Init PROVE NetInv OBVIOUS
<1>1. N \in Nat /\ N >= 1 /\ Links \subseteq Nat BY NetAssumption DEF Links
<1> DEFINE s == [k \in 1 .. N |-> k - 1]
<1>2. s \in Seq(Links) /\ Len(s) = N
  <2>1. s \in [1 .. N -> Links] BY <1>1 DEF Links
  <2> QED BY <1>1, <2>1, LenProperties
<1>3. Distinct(s) BY <1>1, <1>2 DEF Distinct
<1>4. Members(s) = Links
  <2>1. \A i \in Links : i + 1 \in 1 .. N /\ s[i + 1] = i BY <1>1 DEF Links
  <2>2. \A k \in 1 .. N : s[k] \in Links BY <1>1 DEF Links
  <2> QED BY <1>2, <2>1, <2>2 DEF Members
<1>5. /\ lists = [l \in LinkLists |-> IF l = lfree THEN s ELSE <<>>]
      /\ lists[lfree] = s /\ lists[lused] = <<>> /\ lists[lerror] = <<>>
      BY DEF Init, LinkLists, lfree, lused, lerror
<1>6. Members(<<>>) = {} /\ Distinct(<<>>) /\ <<>> \in Seq(Links) BY DEF Members, Distinct
<1> HIDE DEF s
<1>7. ListsOK(lists)
  <2>1. lists \in [LinkLists -> Seq(Links)] BY <1>2, <1>5, <1>6
  <2>2. \A l \in LinkLists : Distinct(lists[l]) BY <1>3, <1>5, <1>6
  <2>3. \A l \in LinkLists : l # lfree => Members(lists[l]) = {} BY <1>5, <1>6
  <2>4. ListsOf(lists, LinkLists, Links) BY <2>1, <2>2, <2>3 DEF ListsOf
  <2> QED BY <1>4, <1>5, <2>4 DEF ListsOK, LinkLists
<1>8. UsedIn(lists) = {} /\ FreeIn(lists) = Links
      BY <1>4, <1>5, <1>6 DEF UsedIn, FreeIn
<1>9. /\ sock \in Sockets /\ sock.open = {}
      /\ \A i \in Links : sock.fd[i] = Nil /\ sock.status[i] = "closed"
      /\ \A f \in Fds : sock.fd2idx[f] = Nil /\ sock.watch[f] = "no"
      BY DEF Init, Sockets, Statuses
<1>10. SocketsOK(sock) BY <1>9 DEF SocketsOK
<1>11. Agree(lists, sock) BY <1>8, <1>9 DEF Agree, AgreeBut
<1>12. conf = {} /\ orphans = {} /\ fired = {} /\ cursor = Nil /\ type \in [Links -> Types] BY DEF Init, Types
<1>13. Core BY <1>7, <1>8, <1>10, <1>11, <1>12 DEF Core, Reach, Roles, Accounted
<1>14. Loop
  <2>1. 0 \in 0 .. MaxIdle /\ MinRest \in 0 .. MinRest BY NetAssumption
  <2>2. /\ idle \in [Links -> 0 .. MaxIdle] /\ rest \in [Links -> 0 .. MinRest]
        /\ unsent \in [Links -> BOOLEAN] /\ pc = "opening" /\ left = 0
        BY <2>1 DEF Init
  <2> QED BY <1>12, <2>2 DEF Loop, WalkOK, FiredOK
<1> QED BY <1>13, <1>14 DEF NetInv

\* Whatever step the main loop takes.
LEMMA NextOK == NetInv /\ [Next]_vars => NetInv'
<1> SUFFICES ASSUME NetInv, [Next]_vars PROVE NetInv' OBVIOUS
<1>0. CASE UNCHANGED vars
  <2>1. UNCHANGED <<lists, type, sock, idle, rest, unsent, conf, orphans, pc, cursor, left, fired>>
        BY <1>0 DEF vars
  <2>2. Core' BY <2>1, CoreSame DEF NetInv
  <2>3. Loop' BY <2>1 DEF NetInv, Loop, WalkOK, FiredOK
  <2> QED BY <2>2, <2>3 DEF NetInv
<1>1. ASSUME NEW dt \in {0, 1}, Refresh(dt) \/ RefreshLoadsBad(dt) PROVE NetInv'
      BY <1>1, RefreshOK
<1>2. ASSUME NEW i \in conf, CloseLink(i) PROVE NetInv'
  <2>1. i \in Links BY DEF NetInv, Core
  <2> QED BY <1>2, <2>1, CloseLinkOK
<1>3. ASSUME NEW t \in {"client", "server"}, CreateLink(t) PROVE NetInv' BY <1>3, CreateLinkOK
<1>4. CASE AllClosed \/ StartRecover \/ StartCheck \/ EventsDone \/ AppDone BY <1>4, LoopOK
<1>5. CASE RecoverRecycles BY <1>5, RecoverRecyclesOK
<1>6. CASE RecoverTooSoon BY <1>6, RecoverTooSoonOK
<1>7. CASE RecoverFails BY <1>7, RecoverFailsOK
<1>8. CASE RecoverSucceeds BY <1>8, RecoverSucceedsOK
<1>9. CASE CheckLink BY <1>9, CheckLinkOK
<1>10. ASSUME NEW batch \in SUBSET Ready, EpollWait(batch) PROVE NetInv' BY <1>10, EpollWaitOK
<1>11. ASSUME NEW e \in fired, Event(e) PROVE NetInv'
  <2>1. CASE EventCloses(e) BY <2>1, EventClosesOK
  <2>2. CASE AcceptFails(e) BY <2>2, AcceptFailsOK
  <2>3. CASE Accept(e) BY <2>3, AcceptOK
  <2>4. ASSUME NEW in \in BOOLEAN, EventConnected(e, in) PROVE NetInv'
        BY <2>4, EventConnectedOK
  <2>5. ASSUME NEW in \in BOOLEAN, NEW sent \in {"untouched", "some", "all"},
               EventData(e, in, sent)
        PROVE  NetInv'
        BY <2>5, EventDataOK
  <2> QED BY <1>11, <2>1, <2>2, <2>3, <2>4, <2>5 DEF Event
<1>12. ASSUME NEW i \in Links, AppCloses(i) \/ AppSends(i) PROVE NetInv'
       BY <1>12, AppClosesOK, AppSendsOK
<1> QED BY <1>0, <1>1, <1>2, <1>3, <1>4, <1>5, <1>6, <1>7, <1>8, <1>9, <1>10, <1>11, <1>12
        DEF Next, Reload, Recover, App

\* What the invariant says of the properties.
LEMMA NetInvImplies ==
    NetInv => DescriptorsAgree /\ UsedAreWatched /\ EventsReachLinks /\ SlotsAccounted
<1> SUFFICES ASSUME NetInv
             PROVE  DescriptorsAgree /\ UsedAreWatched /\ EventsReachLinks /\ SlotsAccounted
    OBVIOUS
<1>1. ListsOK(lists) /\ SocketsOK(sock) /\ Agree(lists, sock) /\ Reach(lists, sock, fired)
      /\ Accounted(lists, type, conf \cup orphans) /\ Core /\ Loop
      BY DEF NetInv, Core
<1>2. Used = UsedIn(lists) /\ Free = FreeIn(lists) /\ Used \subseteq Links /\ Free \subseteq Links
      /\ Error \subseteq Links
      /\ (Used \cup Error) \cap Free = {}
      BY <1>1, OneList DEF Used, Free, UsedIn, FreeIn, Error
<1>3. TypeOK
  <2>1. lists \in [{lfree, lused, lerror} -> Seq(Links)] /\ sock \in Sockets
        BY <1>1 DEF ListsOK, ListsOf, LinkLists, SocketsOK
  <2> QED BY <1>1, <2>1 DEF TypeOK, Core, Loop
<1>4. DescriptorsAgree BY <1>1, <1>3 DEF DescriptorsAgree, NoFdLeak, MapIsCurrent, SocketsOK
<1>5. UsedAreWatched
  <2>1. \A i \in Used : Served(sock, i) BY <1>1, <1>2, NilIsNone DEF Agree, AgreeBut
  <2>2. OnlyUsedWatched BY <1>1, <1>2 DEF OnlyUsedWatched, Agree, AgreeBut
  <2> QED BY <2>1, <2>2 DEF UsedAreWatched, UsedIsServed, Served
<1>6. EventsReachLinks BY <1>1, <1>2 DEF EventsReachLinks, ConnectingArmed, FiredCurrent, Reach
<1>7. SlotsAccounted
  <2>1. \A i \in Free : sock.status[i] = "closed" BY <1>1, <1>2 DEF Agree, AgreeBut
  <2>2. \A i \in Used \cup Error : type[i] = "accept" \/ i \in conf \cup orphans
        BY <1>1, <1>2 DEF Accounted
  <2>3. (conf \cup orphans) \cap Free = {} /\ \A i \in conf \cup orphans : type[i] # "accept"
        BY <1>1, <1>2 DEF Accounted
  <2>4. conf \cap orphans = {} BY <1>1 DEF Core
  <2> QED BY <2>1, <2>2, <2>3, <2>4 DEF SlotsAccounted
<1> QED BY <1>4, <1>5, <1>6, <1>7

\* The invariant holds in every run of the main loop.
THEOREM NetworkInvariance == Spec => []NetInv
<1>1. Init => NetInv BY InitOK
<1>2. NetInv /\ [Next]_vars => NetInv' BY NextOK
<1> QED BY <1>1, <1>2, PTL DEF Spec

\* Links, descriptors and fd2idx_ always agree: whichever system call failed in
\* whichever order, no descriptor leaks and none is held twice.
THEOREM DescriptorsTheorem == Spec => []DescriptorsAgree
BY NetworkInvariance, NetInvImplies, PTL

\* The used list and the epoll set are always one, and each link of it is
\* watched for what its status waits for.
THEOREM UsedTheorem == Spec => []UsedAreWatched
BY NetworkInvariance, NetInvImplies, PTL

\* No event of a batch is lost for a link that waits for it, and none reaches
\* another link, though handlers close links and accept others in between.
THEOREM EventsTheorem == Spec => []EventsReachLinks
BY NetworkInvariance, NetInvImplies, PTL

\* A link that is not free is configured, accepted, or left over from a
\* configuration a load that failed has forgotten; none of those is free, and a
\* free link is closed.
THEOREM SlotsTheorem == Spec => []SlotsAccounted
BY NetworkInvariance, NetInvImplies, PTL

\* recover() never touches a link of the used list: its walk stays on the error
\* list, also after it recycled the link it stood on.
LEMMA RecoverTouchesNone == NetInv /\ [Next]_vars => [HealthyUntouchedStep]_vars
<1> SUFFICES ASSUME NetInv, Next, pc = "recover", NEW i \in Used
             PROVE  InList(lists', lused, i) /\ sock'.fd[i] = sock.fd[i]
                    /\ sock'.status[i] = sock.status[i]
    BY DEF HealthyUntouchedStep
<1>1. ListsOK(lists) BY DEF NetInv, Core
<1>2. i \in UsedIn(lists) /\ i \in Links BY <1>1, OneList DEF Used, UsedIn
<1>3. \/ RecoverRecycles \/ RecoverTooSoon \/ RecoverFails \/ RecoverSucceeds \/ StartCheck
  <2>1. fired = {} BY NoneFired
  <2> QED BY <2>1 DEF Next, Refresh, RefreshLoadsBad, TimePasses, Reload, CloseLink, AllClosed, CreateLink, StartRecover, Recover,
             CheckLink, EpollWait, EventsDone, App, AppCloses, AppSends, AppDone
<1>4. CASE UNCHANGED <<lists, sock>>
      BY <1>2, <1>4 DEF InList, UsedIn
<1>5. CASE /\ cursor \notin UsedIn(lists) /\ SameBut(sock, sock', cursor)
           /\ UsedIn(lists) \subseteq UsedIn(lists')
      BY <1>2, <1>5 DEF InList, UsedIn, SameBut
<1>6. cursor # Nil => cursor \notin UsedIn(lists) BY WalkFacts
<1>7. CASE RecoverRecycles BY <1>5, <1>6, <1>7, RecoverRecyclesOK DEF RecoverRecycles
<1>8. CASE RecoverTooSoon BY <1>4, <1>8, RecoverTooSoonOK
<1>9. CASE RecoverFails BY <1>5, <1>6, <1>9, RecoverFailsOK DEF RecoverFails
<1>10. CASE RecoverSucceeds BY <1>5, <1>6, <1>10, RecoverSucceedsOK DEF RecoverSucceeds
<1>11. CASE StartCheck BY <1>4, <1>11 DEF StartCheck
<1> QED BY <1>3, <1>7, <1>8, <1>9, <1>10, <1>11

\* recover() leaves the links that work alone.
THEOREM RecoverTheorem == Spec => HealthyUntouched
<1>1. NetInv /\ [Next]_vars => [HealthyUntouchedStep]_vars BY RecoverTouchesNone
<1> QED BY <1>1, NetworkInvariance, PTL DEF Spec, HealthyUntouched

-----------------------------------------------------------------------------
(* The context *)

\* What context c means with the lists ls, sockets s and types ty; cf are the
\* links that are configured or were until a load failed.
Follows(c, ls, s, ty, cf) ==
    /\ c \in Contexts /\ c.link \in Links /\ c.fd \in Fds
    /\ \/ c.life = "live" /\ s.fd[c.link] = c.fd /\ ty[c.link] # "server"
       \/ c.life = "ended" /\ s.fd[c.link] = Nil /\ ty[c.link] = "client" /\ c.link \in cf
       \/ c.life = "reopened" /\ ty[c.link] = "client" /\ c.link \in cf
       \/ c.life = "recycled"
    /\ c.life # "recycled" => c.link \notin FreeIn(ls)
    /\ c.life = "recycled" =>
          IF c.link \in FreeIn(ls) THEN \A k \in c.ahead : Before(ls[lfree], k, c.link)
          ELSE c.ahead = {}

\* The inductive invariant.
CtxInv == NetInv /\ (ctx = NoCtx \/ Follows(ctx, lists, sock, type, conf \cup orphans))

\* What a step of the network may do to the descriptors, the types and the free
\* list, i the link it is at: recycle it, give it out, or neither; an accepted
\* link changes its descriptor only by being recycled.
Touches(i) ==
    /\ \A j \in Links \ {i} : sock'.fd[j] = sock.fd[j]
    /\ \A j \in Links \ FreeIn(lists) : type'[j] = type[j]
    /\ \/ FreeIn(lists') = FreeIn(lists) \cup {i} /\ lists'[lfree][Len(lists'[lfree])] = i
       \/ FreeIn(lists') = FreeIn(lists) \ {i} /\ i \in FreeIn(lists) /\ i = Head(lists[lfree])
       \/ FreeIn(lists') = FreeIn(lists) /\ (sock'.fd[i] = sock.fd[i] \/ type[i] # "accept")

-----------------------------------------------------------------------------
(* What a step of the network may do to a link *)

\* The first link of a list comes before all others, the last after them.
LEMMA BeforeInList ==
    ASSUME NEW ls, ListsOK(ls), NEW l \in LinkLists, NEW i \in Members(ls[l]),
           NEW k \in Members(ls[l])
    PROVE  /\ i = Head(ls[l]) => ~Before(ls[l], k, i)
           /\ k # i => Before(ls[l], k, i) \/ Before(ls[l], i, k)
           /\ k # i /\ ls[l][Len(ls[l])] = i => Before(ls[l], k, i)
<1> DEFINE s == ls[l]
<1>1. s \in Seq(Links) /\ Distinct(s) /\ Len(s) \in Nat
  <2>1. s \in Seq(Links) /\ Distinct(s) BY DEF ListsOK, ListsOf
  <2> QED BY <2>1, LenProperties
<1>2. PICK a \in 1 .. Len(s) : s[a] = i BY DEF Members
<1>3. PICK b \in 1 .. Len(s) : s[b] = k BY DEF Members
<1> HIDE DEF s
<1>4. ASSUME i = Head(s) PROVE ~Before(s, k, i)
  <2>1. s[1] = i BY <1>1, <1>2, <1>4
  <2>2. \A m \in 1 .. Len(s) : s[m] = i => m = 1 BY <1>1, <1>2, <2>1 DEF Distinct
  <2> QED BY <1>1, <2>2 DEF Before
<1>5. k # i => a # b BY <1>2, <1>3
<1>6. a < b => Before(s, i, k) BY <1>2, <1>3 DEF Before
<1>7. b < a => Before(s, k, i) BY <1>2, <1>3 DEF Before
<1>8. ASSUME k # i, s[Len(s)] = i PROVE b < a
  <2>1. a = Len(s) BY <1>1, <1>2, <1>8 DEF Distinct
  <2> QED BY <1>1, <1>3, <1>5, <1>8, <2>1
<1> QED BY <1>1, <1>4, <1>5, <1>6, <1>7, <1>8 DEF s

\* What SameBut() says of descriptors.
LEMMA SameFds ==
    ASSUME NEW i, SameBut(sock, sock', i)
    PROVE  \A j \in Links \ {i} : sock'.fd[j] = sock.fd[j]
BY DEF SameBut

\* Every step is at one link, and does one of three things with it.
LEMMA StepTouches == NetInv /\ [Next]_vars => \E i \in Links : Touches(i)
<1> SUFFICES ASSUME NetInv, [Next]_vars PROVE \E i \in Links : Touches(i) OBVIOUS
<1>1. /\ ListsOK(lists) /\ conf \subseteq Links /\ sock \in Sockets
      /\ FreeIn(lists) \subseteq Links /\ type \in [Links -> Types]
  <2>1. ListsOK(lists) /\ conf \subseteq Links /\ SocketsOK(sock) /\ type \in [Links -> Types]
        BY DEF NetInv, Core
  <2>2. FreeIn(lists) \subseteq Links BY <2>1, OneList DEF FreeIn
  <2> QED BY <2>1, <2>2 DEF SocketsOK
<1>2. \E i \in Links : TRUE BY NetAssumption DEF Links
<1>3. ASSUME sock'.fd = sock.fd, FreeIn(lists') = FreeIn(lists),
             \A j \in Links \ FreeIn(lists) : type'[j] = type[j]
      PROVE  \E i \in Links : Touches(i)
      BY <1>2, <1>3 DEF Touches
<1>4. ASSUME UNCHANGED <<lists, type, sock>> PROVE \E i \in Links : Touches(i)
      BY <1>3, <1>4 DEF FreeIn
<1>5. ASSUME NEW i \in Links, Recycle(i), type' = type PROVE Touches(i)
      BY <1>5, RecycleEffect, SameFds DEF Touches
<1>6. ASSUME NEW i \in Links, Shutdown(i), type' = type PROVE Touches(i)
  <2>1. /\ SameBut(sock, sock', i)
        /\ FreeIn(lists') = FreeIn(lists) \cup (IF type[i] = "accept" THEN {i} ELSE {})
        /\ type[i] = "accept" => lists'[lfree][Len(lists'[lfree])] = i
        BY <1>6, ShutdownEffect
  <2>2. CASE type[i] = "accept" BY <1>6, <2>1, <2>2, SameFds DEF Touches
  <2>3. CASE type[i] # "accept" BY <1>6, <2>1, <2>3, SameFds DEF Touches
  <2> QED BY <2>2, <2>3
<1>7. ASSUME NEW i \in Links, SameBut(sock, sock', i), FreeIn(lists') = FreeIn(lists) \ {i},
             i \in FreeIn(lists), i = Head(lists[lfree]),
             \A j \in Links \ {i} : type'[j] = type[j]
      PROVE  Touches(i)
      BY <1>7, SameFds DEF Touches
<1>8. CASE \/ UNCHANGED vars \/ AllClosed \/ StartRecover \/ StartCheck \/ EventsDone \/ AppDone
           \/ RecoverTooSoon \/ \E dt \in {0, 1} : Refresh(dt) \/ RefreshLoadsBad(dt)
           \/ \E i \in Links : AppSends(i)
  <2>1. UNCHANGED <<lists, type, sock>>
        BY <1>8 DEF vars, AllClosed, StartRecover, StartCheck, EventsDone, AppDone,
                    RecoverTooSoon, Refresh, RefreshLoadsBad, TimePasses, AppSends
  <2> QED BY <1>4, <2>1
<1>9. ASSUME NEW i \in conf, CloseLink(i) PROVE \E j \in Links : Touches(j)
  <2>1. Recycle(i) /\ type' = type /\ i \in Links BY <1>1, <1>9 DEF CloseLink
  <2> QED BY <1>5, <2>1
<1>10. ASSUME NEW t \in {"client", "server"}, CreateLink(t) PROVE \E j \in Links : Touches(j)
  <2> DEFINE i == Head(lists[lfree])
  <2>1. /\ SameBut(sock, sock', i) /\ FreeIn(lists') = FreeIn(lists) \ {i}
        /\ i \in FreeIn(lists)
        BY <1>10, CreateLinkOK
  <2>2. type' = [type EXCEPT ![i] = t] BY <1>10 DEF CreateLink
  <2> QED BY <1>1, <1>7, <2>1, <2>2
<1>11. CASE RecoverRecycles
  <2>1. Recycle(cursor) /\ type' = type /\ cursor # Nil BY <1>11 DEF RecoverRecycles
  <2>2. cursor \in Links BY <2>1, WalkFacts
  <2> QED BY <1>5, <2>1, <2>2
<1>12. CASE RecoverFails \/ RecoverSucceeds
  <2>1. type' = type /\ type[cursor] # "accept" /\ cursor # Nil
        BY <1>12 DEF RecoverFails, RecoverSucceeds
  <2>2. SameBut(sock, sock', cursor) /\ FreeIn(lists') = FreeIn(lists)
        BY <1>12, RecoverFailsOK, RecoverSucceedsOK
  <2>3. cursor \in Links BY <2>1, WalkFacts
  <2> QED BY <2>1, <2>2, <2>3, SameFds DEF Touches
<1>13. CASE CheckLink
  <2>1. FreeIn(lists') = FreeIn(lists) /\ sock'.fd = sock.fd BY <1>13, CheckLinkOK
  <2>2. type' = type BY <1>13 DEF CheckLink
  <2> QED BY <1>3, <2>1, <2>2
<1>14. ASSUME NEW batch \in SUBSET Ready, EpollWait(batch) PROVE \E j \in Links : Touches(j)
  <2>1. /\ lists' = lists /\ type' = type
        /\ sock' = [sock EXCEPT !.watch = [f \in Fds |->
                        IF f \in batch /\ @[f] = "oneshot" THEN "spent" ELSE @[f]]]
        BY <1>14 DEF EpollWait
  <2>2. sock'.fd = sock.fd BY <1>1, <2>1 DEF Sockets
  <2>3. FreeIn(lists') = FreeIn(lists) BY <2>1
  <2> QED BY <1>3, <2>1, <2>2, <2>3
<1>15. ASSUME NEW e \in fired, Event(e) PROVE \E j \in Links : Touches(j)
  <2>1. Target(e) \in Links BY EventFacts
  <2>2. CASE EventCloses(e)
    <3>1. Shutdown(Target(e)) /\ type' = type BY <2>2 DEF EventCloses
    <3> QED BY <1>6, <2>1, <3>1
  <2>3. CASE AcceptFails(e)
    <3>1. /\ FreeIn(lists') = FreeIn(lists)
          /\ \A j \in Links \ FreeIn(lists) : type'[j] = type[j]
          BY <2>3, AcceptFailsOK
    <3>2. sock'.fd = sock.fd BY <2>3 DEF AcceptFails
    <3> QED BY <1>3, <3>1, <3>2
  <2>4. CASE Accept(e)
    <3> DEFINE i == Head(lists[lfree])
    <3>1. /\ SameBut(sock, sock', i) /\ FreeIn(lists') = FreeIn(lists) \ {i}
          /\ i \in FreeIn(lists)
          BY <2>4, AcceptOK
    <3>2. type' = [type EXCEPT ![i] = "accept"] BY <2>4 DEF Accept
    <3> QED BY <1>1, <1>7, <3>1, <3>2
  <2>5. ASSUME NEW in \in BOOLEAN, NEW sent \in {"untouched", "some", "all"},
               EventConnected(e, in) \/ EventData(e, in, sent)
        PROVE  \E j \in Links : Touches(j)
    <3>1. FreeIn(lists') = FreeIn(lists) /\ sock'.fd = sock.fd
          BY <2>5, EventConnectedOK, EventDataOK
    <3>2. type' = type BY <2>5 DEF EventConnected, EventData
    <3> QED BY <1>3, <3>1, <3>2
  <2> QED BY <1>15, <2>2, <2>3, <2>4, <2>5 DEF Event
<1>16. ASSUME NEW i \in Links, AppCloses(i) PROVE \E j \in Links : Touches(j)
  <2>1. Shutdown(i) /\ type' = type BY <1>16 DEF AppCloses
  <2> QED BY <1>6, <2>1
<1> QED BY <1>8, <1>9, <1>10, <1>11, <1>12, <1>13, <1>14, <1>15, <1>16
        DEF Next, Reload, Recover, App

-----------------------------------------------------------------------------
(* What becomes of a context *)

\* A context whose connection is over.
LEMMA LifeChanges ==
    ASSUME NEW c \in Contexts, NEW new \in {"ended", "reopened"}
    PROVE  LET d == [c EXCEPT !.life = new]
           IN  d \in Contexts /\ d.link = c.link /\ d.fd = c.fd /\ d.life = new
BY DEF Contexts

\* A context with fewer slots ahead.
LEMMA AheadChanges ==
    ASSUME NEW c \in Contexts, NEW all \in SUBSET Links
    PROVE  LET d == [c EXCEPT !.ahead = all]
           IN  d \in Contexts /\ d.link = c.link /\ d.fd = c.fd /\ d.life = c.life
               /\ d.ahead = all
BY DEF Contexts

\* A context whose slot becomes free.
LEMMA ContextRecycled ==
    ASSUME NEW c \in Contexts, NEW all \in SUBSET Links
    PROVE  LET d == [c EXCEPT !.life = "recycled", !.ahead = all]
           IN  d \in Contexts /\ d.link = c.link /\ d.fd = c.fd /\ d.life = "recycled"
               /\ d.ahead = all
BY DEF Contexts

\* A slot in the free list keeps behind those ahead of it that are counted; one
\* given out has none ahead.
LEMMA RecycledAges ==
    ASSUME NetInv, NetInv', NEW t \in Links, Touches(t),
           NEW c, Follows(c, lists, sock, type, conf \cup orphans), c.life = "recycled",
           c.link \in FreeIn(lists), NEW anew \in BOOLEAN
    PROVE  Follows(Aged(c, anew), lists', sock', type', conf' \cup orphans')
<1> DEFINE i   == c.link
           all == {k \in c.ahead :
                       /\ InList(lists', lfree, k)
                       /\ ~(Before(lists[lfree], k, i) /\ Before(lists'[lfree], i, k))}
           d   == [c EXCEPT !.ahead = all]
<1>1. /\ c \in Contexts
      /\ i \in Links /\ c.fd \in Fds /\ c.ahead \subseteq Links
      /\ i \in FreeIn(lists) /\ \A k \in c.ahead : Before(lists[lfree], k, i)
      BY DEF Follows, Contexts
<1>2. Aged(c, anew) = d
  <2>1. c # NoCtx BY <1>1, NilIsNone DEF NoCtx
  <2>2. i \in Free BY DEF Free, FreeIn
  <2> QED BY <2>1, <2>2 DEF Aged
<1>4. all \subseteq c.ahead OBVIOUS
<1>3. d \in Contexts /\ d.link = i /\ d.fd = c.fd /\ d.life = "recycled" /\ d.ahead = all
  <2>1. all \in SUBSET Links BY <1>1, <1>4
  <2> HIDE DEF all
  <2> QED BY <1>1, <2>1, AheadChanges
<1>5. /\ ListsOK(lists) /\ ListsOK(lists') /\ lfree \in LinkLists
      BY OneList DEF NetInv, Core
<1>6. \A k \in all : /\ k \in FreeIn(lists')
                     /\ ~(Before(lists[lfree], k, i) /\ Before(lists'[lfree], i, k))
      BY DEF InList, FreeIn
<1> HIDE DEF i, all, d
<1>7. ASSUME i \in FreeIn(lists'), NEW k \in all PROVE Before(lists'[lfree], k, i)
  <2>1. i \in FreeIn(lists) /\ Before(lists[lfree], k, i) BY <1>1, <1>4, <1>7
  <2>2. k # i
    <3>1. Distinct(lists[lfree]) BY <1>5 DEF ListsOK, ListsOf
    <3>2. lists[lfree] \in Seq(Links) BY <1>5, OneList
    <3>3. Len(lists[lfree]) \in Nat BY <3>2, LenProperties
    <3> QED BY <2>1, <3>1, <3>3 DEF Before, Distinct
  <2> QED BY <1>5, <1>6, <1>7, <2>1, <2>2, BeforeInList DEF FreeIn
<1>8. ASSUME i \notin FreeIn(lists') PROVE all = {}
  <2>1. i \in FreeIn(lists) BY <1>1
  <2>2. i = Head(lists[lfree]) BY <1>8, <2>1 DEF Touches
  <2>3. ASSUME NEW k \in all PROVE FALSE
    <3>1. Before(lists[lfree], k, i) BY <1>1, <1>4
    <3>2. k \in FreeIn(lists)
      <4>1. PICK a, b \in 1 .. Len(lists[lfree]) : lists[lfree][a] = k BY <3>1 DEF Before
      <4> QED BY <4>1 DEF FreeIn, Members
    <3> QED BY <1>5, <2>1, <2>2, <3>1, <3>2, BeforeInList DEF FreeIn
  <2> QED BY <2>3
<1>9. Follows(d, lists', sock', type', conf' \cup orphans')
      BY <1>1, <1>3, <1>4, <1>7, <1>8 DEF Follows
<1> QED BY <1>2, <1>9

\* A slot that becomes free is the last of the free list.
LEMMA RecycledNow ==
    ASSUME NetInv, NetInv', NEW t \in Links, Touches(t),
           NEW c, Follows(c, lists, sock, type, conf \cup orphans), c.life # "recycled",
           c.link \in FreeIn(lists'), NEW anew \in BOOLEAN
    PROVE  Follows(Aged(c, anew), lists', sock', type', conf' \cup orphans')
<1> DEFINE i == c.link
           d == [c EXCEPT !.life = "recycled", !.ahead = Free \ {i}]
<1>1. /\ c \in Contexts
      /\ i \in Links /\ c.fd \in Fds /\ i \notin FreeIn(lists)
      BY DEF Follows
<1>2. Aged(c, anew) = d
  <2>1. c # NoCtx BY <1>1, NilIsNone DEF NoCtx
  <2>2. InList(lists', lfree, i) BY DEF InList, FreeIn
  <2> QED BY <2>1, <2>2 DEF Aged
<1>4. /\ ListsOK(lists) /\ ListsOK(lists') /\ lfree \in LinkLists
      BY OneList DEF NetInv, Core
<1>5. Free = FreeIn(lists) /\ Free \subseteq Links BY <1>4, OneList DEF Free, FreeIn
<1>3. d \in Contexts /\ d.link = i /\ d.fd = c.fd /\ d.life = "recycled" /\ d.ahead = Free \ {i}
  <2>1. Free \ {i} \in SUBSET Links BY <1>5
  <2> QED BY <1>1, <2>1, ContextRecycled
<1>6. FreeIn(lists') = FreeIn(lists) \cup {i} /\ lists'[lfree][Len(lists'[lfree])] = i
      BY <1>1 DEF Touches
<1> HIDE DEF i, d
<1>7. ASSUME NEW k \in Free \ {i} PROVE Before(lists'[lfree], k, i)
  <2>1. k \in Members(lists'[lfree]) /\ i \in Members(lists'[lfree])
        BY <1>5, <1>6 DEF FreeIn
  <2>2. k # i BY <1>7
  <2>3. /\ ListsOK(lists') /\ lfree \in LinkLists /\ lists'[lfree][Len(lists'[lfree])] = i
        BY <1>4, <1>6
  <2>4. PICK ls : ls = lists' OBVIOUS
  <2>5. /\ ListsOK(ls) /\ ls[lfree][Len(ls[lfree])] = i
        /\ k \in Members(ls[lfree]) /\ i \in Members(ls[lfree])
        BY <2>1, <2>3, <2>4
  <2>6. Before(ls[lfree], k, i) BY <2>2, <2>3, <2>5, BeforeInList
  <2> QED BY <2>4, <2>6
<1>9. Follows(d, lists', sock', type', conf' \cup orphans')
      BY <1>1, <1>3, <1>5, <1>6, <1>7 DEF Follows
<1> QED BY <1>2, <1>9

\* A context whose slot is not free ages with its link: only a link this side
\* connects changes its descriptor there.
LEMMA InUseAges ==
    ASSUME NetInv, NetInv', NEW t \in Links, Touches(t),
           NEW c, Follows(c, lists, sock, type, conf \cup orphans), c.life # "recycled",
           c.link \notin FreeIn(lists'), NEW anew \in BOOLEAN,
           anew => type[c.link] # "accept"
    PROVE  Follows(Aged(c, anew), lists', sock', type', conf' \cup orphans')
<1> DEFINE i    == c.link
           over == anew \/ c.life = "ended" \/ sock'.fd[i] # c.fd
           new  == IF sock'.fd[i] = Nil THEN "ended" ELSE "reopened"
<1>1. /\ c \in Contexts
      /\ i \in Links /\ c.fd \in Fds /\ i \notin FreeIn(lists)
      /\ \/ c.life = "live" /\ sock.fd[i] = c.fd /\ type[i] # "server"
         \/ c.life \in {"ended", "reopened"} /\ type[i] = "client" /\ i \in conf \cup orphans
      BY DEF Follows
<1>2. c # NoCtx /\ ~InList(lists', lfree, i)
      BY <1>1, NilIsNone DEF NoCtx, InList, FreeIn
<1>3. type'[i] = type[i] /\ (sock'.fd[i] = sock.fd[i] \/ type[i] # "accept")
      BY <1>1 DEF Touches
<1>4. /\ type'[i] = "accept" \/ i \in conf' \cup orphans'
      /\ type'[i] \in {"client", "server", "accept"}
  <2>1. Accounted(lists', type', conf' \cup orphans') /\ type' \in [Links -> Types] BY DEF NetInv, Core
  <2> QED BY <1>1, <2>1 DEF Accounted, Types
<1> HIDE DEF i
<1>5. CASE c.life \in {"live", "ended"} /\ over
  <2> DEFINE d == [c EXCEPT !.life = new]
  <2>1. Aged(c, anew) = d BY <1>2, <1>5 DEF Aged, i
  <2>2. d \in Contexts /\ d.link = i /\ d.fd = c.fd /\ d.life = new
    <3>1. new \in {"ended", "reopened"} OBVIOUS
    <3> HIDE DEF new
    <3> QED BY <1>1, <3>1, LifeChanges DEF i
  <2>3. type'[i] = "client" /\ i \in conf' \cup orphans' BY <1>1, <1>3, <1>4, <1>5 DEF i
  <2> HIDE DEF d
  <2>5. Follows(d, lists', sock', type', conf' \cup orphans') BY <1>1, <2>2, <2>3 DEF Follows, i
  <2> QED BY <2>1, <2>5
<1>6. CASE ~(c.life \in {"live", "ended"} /\ over)
  <2>1. Aged(c, anew) = c BY <1>2, <1>6 DEF Aged, i
  <2>2. Follows(c, lists', sock', type', conf' \cup orphans')
    <3>1. CASE c.life = "live"
      <4>1. sock'.fd[i] = c.fd /\ type'[i] # "server" BY <1>1, <1>3, <1>6, <3>1
      <4> QED BY <1>1, <3>1, <4>1 DEF Follows, i
    <3>2. CASE c.life = "reopened"
      <4>1. type'[i] = "client" /\ i \in conf' \cup orphans' BY <1>1, <1>3, <1>4, <3>2
      <4> QED BY <1>1, <3>2, <4>1 DEF Follows, i
    <3> QED BY <1>1, <1>6, <3>1, <3>2
  <2> QED BY <2>1, <2>2
<1> QED BY <1>5, <1>6

\* Whatever the network does, what a context says goes on to be true.
LEMMA AgedFollows ==
    ASSUME NetInv, Next, NEW c, c = NoCtx \/ Follows(c, lists, sock, type, conf \cup orphans),
           NEW anew \in BOOLEAN, c # NoCtx /\ anew => type[c.link] # "accept"
    PROVE  Aged(c, anew) = NoCtx \/ Follows(Aged(c, anew), lists', sock', type', conf' \cup orphans')
<1>1. NetInv' BY NextOK
<1>2. PICK t \in Links : Touches(t) BY StepTouches
<1>3. CASE c = NoCtx
  <2>1. c.life = "none" /\ c.link = Nil BY <1>3 DEF NoCtx
  <2>2. ~InList(lists', lfree, Nil)
    <3>1. Members(lists'[lfree]) \subseteq Links BY <1>1, OneList DEF NetInv, Core
    <3> QED BY <3>1, NilIsNone DEF InList
  <2> QED BY <1>3, <2>1, <2>2 DEF Aged
<1>4. CASE c # NoCtx /\ c.life = "recycled" /\ c.link \notin FreeIn(lists)
      BY <1>4 DEF Aged, Free, FreeIn
<1>5. CASE c # NoCtx /\ ~(c.life = "recycled" /\ c.link \notin FreeIn(lists))
      BY <1>1, <1>2, <1>5, RecycledAges, RecycledNow, InUseAges
<1> QED BY <1>3, <1>4, <1>5

-----------------------------------------------------------------------------
(* The steps *)

\* Every step with a context is a step of the network.
LEMMA StepOfNetwork == [CalypsoNext]_cvars => [Next]_vars
<1> SUFFICES ASSUME CalypsoNext PROVE Next BY DEF cvars
<1>1. CASE Silent BY <1>1 DEF Silent, Next, Recover
<1>2. CASE Reopens BY <1>2 DEF Reopens, Next, Recover
<1>3. ASSUME NEW e \in fired, TellsNewConnection(e) PROVE Next
      BY <1>3 DEF TellsNewConnection, Next, Event
<1>4. ASSUME NEW e \in fired, TellsData(e) PROVE Next
  <2>1. TRUE \in BOOLEAN OBVIOUS
  <2> QED BY <1>4, <2>1 DEF TellsData, Next, Event
<1>5. ASSUME NEW e \in fired, TellsNothing(e) PROVE Next
  <2>1. FALSE \in BOOLEAN OBVIOUS
  <2> QED BY <1>5, <2>1 DEF TellsNothing, Next, Event
<1> QED BY <1>1, <1>2, <1>3, <1>4, <1>5 DEF CalypsoNext

\* The link of a message with data does not listen.
LEMMA DataHasConnection ==
    ASSUME NetInv, NEW e \in fired,
           \/ EventConnected(e, TRUE) \/ EventCloses(e)
           \/ \E sent \in {"untouched", "some", "all"} : EventData(e, TRUE, sent)
    PROVE  LET d == [link |-> Target(e), fd |-> e.fd, life |-> "live", ahead |-> {}]
           IN  Follows(d, lists, sock, type, conf \cup orphans)
<1>1. /\ Target(e) \in UsedIn(lists) /\ Target(e) \in Links /\ Target(e) \notin FreeIn(lists)
      /\ e.fd \in Fds /\ sock.fd[Target(e)] = e.fd
      BY EventFacts
<1>2. type[Target(e)] # "server"
  <2>1. CASE EventCloses(e) BY <2>1 DEF EventCloses
  <2>2. CASE sock.status[Target(e)] \in {"connecting", "established"}
        BY <1>1, <2>2 DEF NetInv, Core, Roles
  <2> QED BY <2>1, <2>2 DEF EventConnected, EventData
<1> QED BY <1>1, <1>2 DEF Follows, Contexts

\* A new connection's context is as good as one told later.
LEMMA NewConnectionFollows ==
    ASSUME NetInv, NetInv', NEW e \in fired, Accept(e)
    PROVE  LET c == Head(lists[lfree])
               d == [link |-> c, fd |-> sock'.fd[c], life |-> "live", ahead |-> {}]
           IN  Follows(Aged(d, FALSE), lists', sock', type', conf' \cup orphans')
<1> DEFINE c == Head(lists[lfree])
           d == [link |-> c, fd |-> sock'.fd[c], life |-> "live", ahead |-> {}]
<1>1. c \in FreeIn(lists) \cap UsedIn(lists') /\ FreeIn(lists') = FreeIn(lists) \ {c}
      BY AcceptOK
<1>2. type' = [type EXCEPT ![c] = "accept"] /\ type \in [Links -> Types]
      BY DEF Accept, NetInv, Core
<1>3. /\ ListsOK(lists') /\ SocketsOK(sock') /\ Agree(lists', sock') /\ sock' \in Sockets
      BY DEF NetInv, Core, SocketsOK
<1> HIDE DEF c
<1>4. c \in Links /\ UsedIn(lists') \subseteq Links BY <1>1, <1>3, OneList DEF UsedIn
<1>5. sock'.fd[c] \in Fds
  <2>1. Served(sock', c) BY <1>1, <1>3, <1>4, NilIsNone DEF Agree, AgreeBut
  <2> QED BY <1>3, <1>4, <2>1, SocketFields DEF Served
<1>6. type'[c] # "server" BY <1>2, <1>4
<1>7. Aged(d, FALSE) = d
  <2>1. d # NoCtx BY <1>4, NilIsNone DEF NoCtx
  <2>2. ~InList(lists', lfree, c) BY <1>1 DEF InList, FreeIn
  <2> QED BY <2>1, <2>2 DEF Aged
<1>8. Follows(d, lists', sock', type', conf' \cup orphans')
      BY <1>1, <1>4, <1>5, <1>6 DEF Follows, Contexts
<1> QED BY <1>7, <1>8 DEF c

\* A step keeps what the context says true.
LEMMA CtxStep == CtxInv /\ [CalypsoNext]_cvars => CtxInv'
<1> SUFFICES ASSUME CtxInv, [CalypsoNext]_cvars PROVE CtxInv' OBVIOUS
<1>0. NetInv /\ [Next]_vars /\ NetInv' /\ (ctx = NoCtx \/ Follows(ctx, lists, sock, type, conf \cup orphans))
      BY StepOfNetwork, NextOK DEF CtxInv
<1>1. CASE UNCHANGED cvars
      BY <1>0, <1>1 DEF cvars, vars, CtxInv, Follows
<1>2. ASSUME CalypsoNext PROVE Next
  <2>1. CASE Next BY <2>1
  <2>2. CASE UNCHANGED vars
    <3>1. ~ UNCHANGED vars \/ Next
          BY <1>2 DEF CalypsoNext, Silent, Reopens, TellsNewConnection, TellsData, TellsNothing,
                Next, Recover, Event
    <3> QED BY <2>2, <3>1
  <2> QED BY <1>0, <2>1, <2>2
<1>3. ASSUME CalypsoNext, NEW anew \in BOOLEAN, ctx' = Aged(ctx, anew),
             ctx # NoCtx /\ anew => type[ctx.link] # "accept"
      PROVE  CtxInv'
      BY <1>0, <1>2, <1>3, AgedFollows DEF CtxInv
<1>4. CASE Silent BY <1>3, <1>4 DEF CalypsoNext, Silent
<1>5. CASE Reopens
  <2>1. ctx' = Aged(ctx, cursor = ctx.link) /\ type[cursor] # "accept"
        BY <1>5 DEF Reopens, RecoverFails, RecoverSucceeds
  <2> QED BY <1>3, <1>5, <2>1 DEF CalypsoNext
<1>6. ASSUME NEW e \in fired, TellsNothing(e) PROVE CtxInv'
      BY <1>3, <1>6 DEF CalypsoNext, TellsNothing
<1>7. ASSUME NEW e \in fired, TellsData(e) PROVE CtxInv'
  <2> DEFINE d == [link |-> Target(e), fd |-> e.fd, life |-> "live", ahead |-> {}]
  <2>1. CalypsoNext /\ Tells(Target(e), e.fd) BY <1>7 DEF CalypsoNext, TellsData
  <2>2. CASE ctx' = Aged(ctx, FALSE) BY <1>3, <2>1, <2>2
  <2>3. CASE ctx' = Aged(d, FALSE)
    <3>1. Follows(d, lists, sock, type, conf \cup orphans)
          BY <1>0, <1>7, DataHasConnection DEF TellsData
    <3> HIDE DEF d
    <3>2. ctx' = NoCtx \/ Follows(ctx', lists', sock', type', conf' \cup orphans')
          BY <1>0, <1>2, <2>1, <2>3, <3>1, AgedFollows
    <3> QED BY <1>0, <3>2 DEF CtxInv
  <2> QED BY <2>1, <2>2, <2>3 DEF Tells
<1>8. ASSUME NEW e \in fired, TellsNewConnection(e) PROVE CtxInv'
  <2> DEFINE c == Head(lists[lfree])
             d == [link |-> c, fd |-> sock'.fd[c], life |-> "live", ahead |-> {}]
  <2>1. CalypsoNext /\ Tells(c, sock'.fd[c]) /\ Accept(e)
        BY <1>8 DEF CalypsoNext, TellsNewConnection
  <2>2. CASE ctx' = Aged(ctx, FALSE) BY <1>3, <2>1, <2>2
  <2>3. CASE ctx' = Aged(d, FALSE)
    <3>1. Follows(ctx', lists', sock', type', conf' \cup orphans')
          BY <1>0, <2>1, <2>3, NewConnectionFollows
    <3> QED BY <1>0, <3>1 DEF CtxInv
  <2> QED BY <2>1, <2>2, <2>3 DEF Tells
<1> QED BY <1>1, <1>4, <1>5, <1>6, <1>7, <1>8 DEF CalypsoNext

\* What the invariant says of the properties.
LEMMA CtxInvImplies == CtxInv => AnswersMatch /\ ReusedAfterAllOthers
<1> SUFFICES ASSUME CtxInv PROVE AnswersMatch /\ ReusedAfterAllOthers OBVIOUS
<1>1. /\ ListsOK(lists) /\ SocketsOK(sock) /\ Agree(lists, sock) /\ Free = FreeIn(lists)
      BY DEF CtxInv, NetInv, Core, Free, FreeIn
<1>2. CASE ctx = NoCtx
  <2>1. ctx \in Contexts /\ ctx.life = "none" BY <1>2 DEF NoCtx, Contexts
  <2> QED BY <1>2, <2>1 DEF AnswersMatch, CtxTypeOK, LiveIsAnswered, OverIsRefused, EndedIsClients,
                            ReusedAfterAllOthers
<1>3. CASE Follows(ctx, lists, sock, type, conf \cup orphans)
  <2>1. CtxTypeOK BY <1>3 DEF Follows, CtxTypeOK
  <2>2. ctx.link \in Links /\ ctx.fd \in Fds /\ ctx.fd # Nil BY <1>3, NilIsNone DEF Follows
  <2>3. ctx # NoCtx BY <2>2, NilIsNone DEF NoCtx
  <2>4. LiveIsAnswered
    <3> SUFFICES ASSUME ctx.life = "live" PROVE AnswerSent /\ type[ctx.link] # "server"
        BY DEF LiveIsAnswered
    <3>1. sock.fd[ctx.link] = ctx.fd /\ type[ctx.link] # "server" BY <1>3 DEF Follows
    <3>2. sock.status[ctx.link] # "closed" BY <1>1, <2>2, <3>1 DEF SocketsOK
    <3> QED BY <2>3, <3>1, <3>2 DEF AnswerSent
  <2>5. OverIsRefused
    <3>1. ctx.life = "ended" => sock.fd[ctx.link] = Nil BY <1>3 DEF Follows
    <3>2. ctx.link \in Free => sock.status[ctx.link] = "closed"
          BY <1>1 DEF Agree, AgreeBut
    <3> QED BY <2>2, <3>1, <3>2 DEF OverIsRefused, AnswerSent
  <2>6. EndedIsClients BY <1>3 DEF Follows, EndedIsClients
  <2>7. ReusedAfterAllOthers BY <1>1, <1>3 DEF Follows, ReusedAfterAllOthers
  <2> QED BY <2>1, <2>4, <2>5, <2>6, <2>7 DEF AnswersMatch
<1> QED BY <1>2, <1>3 DEF CtxInv

-----------------------------------------------------------------------------
(* The theorems *)

\* Following a context adds nothing to what the network does, so that all that
\* is proved of the network holds of it.
THEOREM ContextAside == CalypsoSpec => Spec
<1>1. CalypsoInit => Init BY DEF CalypsoInit
<1>2. [CalypsoNext]_cvars => [Next]_vars BY StepOfNetwork
<1> QED BY <1>1, <1>2, PTL DEF CalypsoSpec, Spec

\* The invariant holds in every run.
THEOREM ContextInvariance == CalypsoSpec => []CtxInv
<1>1. CalypsoInit => CtxInv BY InitOK DEF CalypsoInit, CtxInv
<1>2. CtxInv /\ [CalypsoNext]_cvars => CtxInv' BY CtxStep
<1> QED BY <1>1, <1>2, PTL DEF CalypsoSpec

\* send_by_context(): a context is answered as long as its connection lives, and
\* refused once it is over, until its own link is opened again, which happens to
\* client links only that are configured, or were until a load failed, or its slot is
\* given to another.
THEOREM AnswersTheorem == CalypsoSpec => []AnswersMatch
BY ContextInvariance, CtxInvImplies, PTL

\* A slot is given out again only after all that were free when it became free.
THEOREM ReuseTheorem == CalypsoSpec => []ReusedAfterAllOthers
BY ContextInvariance, CtxInvImplies, PTL
=============================================================================
