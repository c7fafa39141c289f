------------------------------- MODULE Reload -------------------------------
(***************************************************************************)
(* The configuration of the links and its reload: netlink_config_t, the    *)
(* signals of calypso_signal.cpp, reload_config() and the top of the main  *)
(* loop of calypso_main_t.                                                 *)
(*                                                                         *)
(* An operator edits the file, so that it may hold anything when it is     *)
(* read, and sends SIGHUP at any time; the handler notes the second.  The  *)
(* main thread compares it with the second in which it began its last      *)
(* reload.  The network is here no more than its slots:                    *)
(* which are free, in which order they are given out, and what connection  *)
(* of the configuration, or accepted one, has each.  Network opens and     *)
(* closes these.                                                           *)
(*                                                                         *)
(* Of the options, "opt" stands for those an update sets, "sys" for the    *)
(* sizes of the socket's buffers and "user" for those of the link's own.   *)
(* Left out: the backlog, which an update leaves as it was, the own sizes  *)
(* of a link that does not listen, which grow with use, and the library    *)
(* that parses JSON, which leaves of a bad file what it had read of it.    *)
(***************************************************************************)
EXTENDS ListOps, FiniteSets

CONSTANTS N,            \* slots of links
          Entry,        \* links a file may list: [sig, group, opt, sys, user]
          NoGroup,      \* the group of a link that has none
          Listening,    \* signatures of links that listen
          MaxEntries,   \* bound: links in a file
          MaxClock      \* bound: seconds

ASSUME ReloadAssumption == /\ N \in Nat /\ {MaxEntries, MaxClock} \subseteq Nat \ {0}
                           /\ \A e \in Entry : {e.sys, e.user} \subseteq Nat

Slot == 0 .. N - 1
Sigs == {e.sig : e \in Entry}
Groups == {e.group : e \in Entry} \ {NoGroup}
NoId == -1

Lists(n) == UNION {[1 .. k -> Entry] : k \in 0 .. n}

VARIABLES clock,    \* time(NULL)
          reloadsig, stopsig,   \* reload_sig_time_, stop_sig_
          nowtime, last,        \* nowtime_, last_reload_config_
          pc,       \* where the main thread is
          k,        \* walk(), walk_diff(): the entry at hand
          conf,     \* netconfig_.conf_: each entry with its _link_id
          old,      \* reload_config(): oldcfg
          sig2id,   \* walk_diff(): the places of the new entries of each signature not
                    \* matched yet, a vector in ascending order and so a set
          groups,   \* netconfig_.group2idx_
          free,     \* the free list of the network
          slot,     \* what each slot is in use for
          asked,    \* ghost: a reload has been asked for since the last one began
          orphans,  \* ghost: links of a configuration that a bad file has replaced
          whole     \* ghost: the last load went well; "first" before any reload

signals == <<clock, reloadsig, stopsig, asked>>
network == <<free, slot>>
config  == <<conf, old, sig2id, groups, orphans, whole>>
vars    == <<signals, network, config, nowtime, last, pc, k>>

UserSize(e) == IF e.sig \in Listening THEN e.user ELSE 0
Configured(e) == [for |-> "conf", sig |-> e.sig, opt |-> e.opt, sys |-> e.sys, user |-> UserSize(e)]
Accepted == [for |-> "accept"]
Unused   == [for |-> "none"]

WithId(e, id) == [sig |-> e.sig, group |-> e.group, opt |-> e.opt,
                  sys |-> e.sys, user |-> e.user, id |-> id]
Loaded(es) == [j \in 1 .. Len(es) |-> WithId(es[j], NoId)]

NoGroups == [g \in Groups |-> <<>>]
NoSigs   == [s \in Sigs |-> {}]

\* initialize(): a first load that fails ends the program.
Init ==
    /\ clock = 1 /\ reloadsig = 0 /\ stopsig = FALSE /\ asked = FALSE
    /\ nowtime = 0 /\ last = 0
    /\ pc = "walk" /\ k = 1
    /\ conf \in {Loaded(es) : es \in Lists(MaxEntries)} /\ old = <<>> /\ sig2id = NoSigs /\ groups = NoGroups
    /\ free = [j \in 1 .. N |-> j - 1] /\ slot = [i \in Slot |-> Unused]
    /\ orphans = {} /\ whole = "first"

-----------------------------------------------------------------------------
(* The world *)

Tick == /\ clock < MaxClock /\ clock' = clock + 1
        /\ UNCHANGED <<reloadsig, stopsig, asked, network, config, nowtime, last, pc, k>>

\* sig_handler(SIGHUP), set_reload_time()
SigHup == /\ reloadsig' = clock /\ asked' = TRUE
          /\ UNCHANGED <<clock, stopsig, network, config, nowtime, last, pc, k>>

\* sig_handler(SIGTERM), set_stop_sig()
SigTerm == /\ stopsig' = TRUE
           /\ UNCHANGED <<clock, reloadsig, asked, network, config, nowtime, last, pc, k>>

\* wait(): a connection is accepted, or an accepted one is over and recycled.
Accept == /\ pc = "loop" /\ free # <<>>
          /\ slot' = [slot EXCEPT ![Head(free)] = Accepted]
          /\ free' = Tail(free)
          /\ UNCHANGED <<signals, config, nowtime, last, pc, k>>

Hangup(i) == /\ pc = "loop" /\ slot[i] = Accepted
             /\ slot' = [slot EXCEPT ![i] = Unused]
             /\ free' = Append(free, i)
             /\ UNCHANGED <<signals, config, nowtime, last, pc, k>>

-----------------------------------------------------------------------------
(* The main loop *)

NeedReload == reloadsig > last

StartReloadSameSecond ==
    /\ pc = "loop" /\ ~stopsig /\ NeedReload /\ reloadsig = clock
    /\ nowtime' = clock
    /\ pc' = "runtime"
    /\ UNCHANGED <<signals, network, config, last, k>>

\* The tests at the top of a turn; nowtime_ is kept only for a reload.
Stop == /\ pc = "loop" /\ stopsig
        /\ pc' = "stopped"
        /\ UNCHANGED <<signals, network, config, nowtime, last, k>>

StartReload == /\ pc = "loop" /\ ~stopsig /\ NeedReload
               /\ nowtime' = clock
               /\ pc' = "runtime"
               /\ UNCHANGED <<signals, network, config, last, k>>

\* reload_config(): the runtime configuration first; if that fails the links'
\* is not read.
LoadRuntime ==
    /\ pc = "runtime"
    /\ pc' \in {"load", "done"}
    /\ asked' = FALSE
    /\ UNCHANGED <<clock, reloadsig, stopsig, network, config, nowtime, last, k>>

IdsOf(entries) == {entries[j].id : j \in 1 .. Len(entries)} \ {NoId}

\* netlink_config_t::load() of a file that is not there.
LoadMissing ==
    /\ pc = "load"
    /\ pc' = "done"
    /\ UNCHANGED <<signals, network, config, nowtime, last, k>>

\* conf_.clear(), and then a parse that ends early, or no array of links.
LoadBad ==
    /\ pc = "load"
    /\ conf' \in {Loaded(es) : es \in Lists(MaxEntries)}
    /\ orphans' = orphans \cup IdsOf(conf)
    /\ whole' = "no"
    /\ pc' = "done"
    /\ UNCHANGED <<signals, network, old, sig2id, groups, nowtime, last, k>>

\* The entries of each signature.
PlacesOf(es) == [s \in Sigs |-> {j \in 1 .. Len(es) : es[j].sig = s}]

LoadKeepsGroups(es) ==
    /\ pc = "load"
    /\ old' = conf
    /\ conf' = Loaded(es)
    /\ sig2id' = PlacesOf(es)
    /\ whole' = "yes"
    /\ pc' = "diff" /\ k' = 1
    /\ UNCHANGED <<signals, network, groups, orphans, nowtime, last>>

\* A load that goes well, and the first loop of walk_diff().
LoadLinks(es) ==
    /\ pc = "load"
    /\ old' = conf
    /\ conf' = Loaded(es)
    /\ sig2id' = PlacesOf(es) /\ groups' = NoGroups
    /\ whole' = "yes"
    /\ pc' = "diff" /\ k' = 1
    /\ UNCHANGED <<signals, network, orphans, nowtime, last>>

ReloadDoneNow ==
    /\ pc = "done"
    /\ last' = clock /\ nowtime' = 0
    /\ pc' = "loop" /\ old' = <<>> /\ sig2id' = NoSigs
    /\ UNCHANGED <<signals, network, conf, groups, orphans, whole, k>>

ReloadDone ==
    /\ pc = "done"
    /\ last' = nowtime /\ nowtime' = 0
    /\ pc' = "loop" /\ old' = <<>> /\ sig2id' = NoSigs
    /\ UNCHANGED <<signals, network, conf, groups, orphans, whole, k>>

-----------------------------------------------------------------------------
(* netlink_config_t::walk_diff() *)

\* back(): the last entry of a signature that is not matched yet.
Back(places) == CHOOSE p \in places : \A q \in places : q <= p

\* An old link whose signature the new configuration has: it keeps its id.
MatchForgetsOthers ==
    /\ pc = "diff" /\ k <= Len(old)
    /\ sig2id[old[k].sig] # {}
    /\ conf' = [conf EXCEPT ![Back(sig2id[old[k].sig])].id = old[k].id]
    /\ sig2id' = [sig2id EXCEPT ![old[k].sig] = {}]
    /\ k' = k + 1
    /\ UNCHANGED <<signals, network, old, groups, orphans, whole, nowtime, last, pc>>

MatchKeepsPlace ==
    /\ pc = "diff" /\ k <= Len(old)
    /\ sig2id[old[k].sig] # {}
    /\ conf' = [conf EXCEPT ![Back(sig2id[old[k].sig])].id = old[k].id]
    /\ k' = k + 1
    /\ UNCHANGED <<signals, network, old, sig2id, groups, orphans, whole, nowtime, last, pc>>

MatchOld ==
    /\ pc = "diff" /\ k <= Len(old)
    /\ sig2id[old[k].sig] # {}
    /\ conf' = [conf EXCEPT ![Back(sig2id[old[k].sig])].id = old[k].id]
    /\ sig2id' = [sig2id EXCEPT ![old[k].sig] = @ \ {Back(@)}]
    /\ k' = k + 1
    /\ UNCHANGED <<signals, network, old, groups, orphans, whole, nowtime, last, pc>>

\* An old link that has gone is closed; close_link(-1) finds none.
CloseOld ==
    /\ pc = "diff" /\ k <= Len(old)
    /\ sig2id[old[k].sig] = {}
    /\ IF old[k].id = NoId THEN UNCHANGED network
       ELSE /\ slot' = [slot EXCEPT ![old[k].id] = Unused]
            /\ free' = Append(free, old[k].id)
    /\ k' = k + 1
    /\ UNCHANGED <<signals, config, nowtime, last, pc>>

OldDone ==
    /\ pc = "diff" /\ k > Len(old)
    /\ pc' = "open" /\ k' = 1
    /\ UNCHANGED <<signals, network, config, nowtime, last>>

\* A link's id goes to its group.
Join(e, id, least) ==
    IF e.group # NoGroup /\ id >= least
    THEN [groups EXCEPT ![e.group] = Append(@, id)] ELSE groups

\* create_link() for entry k: the next free slot, or none.
Open(least) ==
    /\ k <= Len(conf) /\ conf[k].id = NoId
    /\ LET id == IF free = <<>> THEN NoId ELSE Head(free)
       IN  /\ IF id = NoId THEN UNCHANGED network
              ELSE /\ slot' = [slot EXCEPT ![id] = Configured(conf[k])]
                   /\ free' = Tail(free)
           /\ conf' = [conf EXCEPT ![k].id = id]
           /\ groups' = Join(conf[k], id, least)
    /\ k' = k + 1
    /\ UNCHANGED <<signals, old, sig2id, orphans, whole, nowtime, last, pc>>

OpenNew == pc = "open" /\ Open(0)

\* netlink_t::update_opt(): setsockopt() may fail, which leaves the sizes of the
\* socket's buffers as they were, and is not called for a size of 0.
AfterUpdate(u, e) ==
    {[u EXCEPT !.opt = e.opt, !.sys = size,
               !.user = IF e.sig \in Listening /\ e.user > 0 THEN e.user ELSE @] :
        size \in IF e.sys > 0 THEN {e.sys, u.sys} ELSE {e.sys}}

\* update_link()
UpdateKept ==
    /\ pc = "open" /\ k <= Len(conf) /\ conf[k].id # NoId
    /\ \E u \in AfterUpdate(slot[conf[k].id], conf[k]) : slot' = [slot EXCEPT ![conf[k].id] = u]
    /\ groups' = Join(conf[k], conf[k].id, 0)
    /\ k' = k + 1
    /\ UNCHANGED <<signals, free, conf, old, sig2id, orphans, whole, nowtime, last, pc>>

OpenDone ==
    /\ pc = "open" /\ k > Len(conf)
    /\ pc' = "done" /\ k' = 1
    /\ UNCHANGED <<signals, network, config, nowtime, last>>

\* netlink_config_t::walk(), at the start: link 0 joins no group.
WalkOpen == pc = "walk" /\ Open(1)

WalkDone ==
    /\ pc = "walk" /\ k > Len(conf)
    /\ pc' = "loop" /\ k' = 1
    /\ UNCHANGED <<signals, network, config, nowtime, last>>

Main == \/ Stop \/ StartReload \/ LoadRuntime \/ LoadMissing \/ LoadBad
        \/ \E es \in Lists(MaxEntries) : LoadLinks(es)
        \/ ReloadDone
        \/ MatchOld \/ CloseOld \/ OldDone \/ OpenNew \/ UpdateKept \/ OpenDone
        \/ WalkOpen \/ WalkDone

Next == \/ Tick \/ SigHup \/ SigTerm
        \/ Accept \/ \E i \in Slot : Hangup(i)
        \/ Main

Spec == Init /\ [][Next]_vars

\* The main thread keeps running, and wait() returns.
FairSpec == Spec /\ WF_vars(Main)

-----------------------------------------------------------------------------
(* Properties *)

OfConfig == {i \in Slot : slot[i].for = "conf"}

\* Every variable stays within the values the code can give it, and the free list
\* holds each unused slot once.
TypeOK ==
    /\ clock \in 1 .. MaxClock /\ {reloadsig, nowtime, last} \subseteq 0 .. clock
    /\ {stopsig, asked} \subseteq BOOLEAN /\ whole \in {"first", "yes", "no"}
    /\ pc \in {"walk", "loop", "runtime", "load", "diff", "open", "done", "stopped"}
    /\ k \in 1 .. MaxEntries + 1
    /\ \A j \in 1 .. Len(conf) : conf[j].id \in Slot \cup {NoId}
    /\ \A j \in 1 .. Len(old) : old[j].id \in Slot \cup {NoId}
    /\ groups \in [Groups -> Seq(Slot)]
    /\ free \in Seq(Slot) /\ orphans \subseteq Slot
    /\ Members(free) = {i \in Slot : slot[i] = Unused} /\ Len(free) = Cardinality(Members(free))

\* The sizes of the socket's buffers that files may ask for a signature's links.
Asked(s) == {e.sys : e \in {x \in Entry : x.sig = s}}

\* A link is as its entry says; the sizes of its socket's buffers may be what an
\* earlier file asked for it, and an entry may leave the own sizes of a link that
\* listens as they were.
AsTold(u, e) ==
    /\ u.for = "conf" /\ u.sig = e.sig /\ u.opt = e.opt
    /\ u.sys = e.sys \/ (e.sys > 0 /\ u.sys \in Asked(e.sig))
    /\ e.sig \in Listening /\ e.user > 0 => u.user = e.user

\* After a load and all it brings, the links that are open are those of the
\* configuration, each with its own slot and as its entry says; what else is
\* open has been forgotten by a load of a bad file, and nothing closes it.
LinksAreConfigured ==
    pc \in {"loop", "stopped"} =>
        /\ OfConfig = IdsOf(conf) \cup orphans
        /\ IdsOf(conf) \cap orphans = {}
        /\ \A j \in 1 .. Len(conf) : conf[j].id # NoId =>
                /\ AsTold(slot[conf[j].id], conf[j])
                /\ \A h \in 1 .. Len(conf) : h # j => conf[h].id # conf[j].id

\* Slots, free list, configuration and open links agree after every reload.
ReloadInv == TypeOK /\ LinksAreConfigured

Entries(es, s) == Cardinality({j \in 1 .. Len(es) : es[j].sig = s})

\* A reload disturbs no connection it need not: a link is closed only where the
\* new configuration has fewer of its signature than the old one.
ClosedOnlyIfGone ==
    [][\A i \in OfConfig : slot'[i] = Unused =>
            pc = "diff" /\ Entries(conf, slot[i].sig) < Entries(old, slot[i].sig)]_vars

\* What is sent to a group reaches links of the configuration or of one that a bad
\* file has replaced, never a slot that has been given to somebody else since; after a load that went well it is every
\* link of the group that is open, save for link 0 before the first reload.
GroupsCurrent ==
    pc \in {"loop", "stopped"} =>
        \A g \in Groups :
            /\ Members(groups[g]) \subseteq OfConfig
            /\ whole # "no" =>
                Members(groups[g]) = {conf[j].id : j \in {h \in 1 .. Len(conf) : conf[h].group = g}}
                                        \ (IF whole = "first" THEN {NoId, 0} ELSE {NoId})

\* The only requests for a reload that are not seen are those made after a
\* reload began, within the second of the clock it noted at its beginning.
LostOnlyThatSecond ==
    asked => NeedReload \/ reloadsig = last \/ (pc \in {"runtime", "load", "diff", "open", "done"}
                                                  /\ reloadsig >= nowtime)

\* need_reload(): a request the main loop can see is served, unless it stops.
RequestServed == pc = "loop" /\ asked /\ NeedReload ~> ~asked \/ pc = "stopped"
=============================================================================
