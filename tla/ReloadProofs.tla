---------------------------- MODULE ReloadProofs ----------------------------
(***************************************************************************)
(* Theorems about Reload: whatever the files hold, in whatever order       *)
(* signals and connections come, and however many slots there are.         *)
(***************************************************************************)
EXTENDS Reload, ListOpsProofs

-----------------------------------------------------------------------------
(* Requests *)

\* The clocks: which of the seconds noted are not later than others.
Seconds ==
    /\ clock \in 1 .. MaxClock /\ {reloadsig, nowtime, last} \subseteq 0 .. clock
    /\ {stopsig, asked} \subseteq BOOLEAN
    /\ asked => reloadsig >= last
    /\ asked /\ pc \in {"load", "diff", "open", "done"} => reloadsig >= nowtime

\* Seconds holds at the start and every step keeps it.
LEMMA SecondsKept ==
    /\ Init => Seconds
    /\ Seconds /\ [Next]_vars => Seconds'
<1>1. ASSUME Init PROVE Seconds
  <2>1. clock = 1 /\ reloadsig = 0 /\ nowtime = 0 /\ last = 0 /\ asked = FALSE /\ stopsig = FALSE
        BY <1>1 DEF Init
  <2>2. MaxClock \in Nat /\ MaxClock # 0 BY ReloadAssumption
  <2>3. clock \in 1 .. MaxClock /\ {reloadsig, nowtime, last} \subseteq 0 .. clock BY <2>1, <2>2
  <2>4. {stopsig, asked} \subseteq BOOLEAN BY <2>1
  <2> QED BY <2>1, <2>3, <2>4 DEF Seconds
<1>2. ASSUME Seconds, [Next]_vars PROVE Seconds'
  <2> USE Seconds DEF Seconds
  <2>0. MaxClock \in Nat BY ReloadAssumption
  <2>1. CASE Tick BY <2>0, <2>1, <1>2 DEF Tick
  <2>2. CASE SigHup BY <2>0, <2>2, <1>2 DEF SigHup
  <2>3. CASE SigTerm BY <2>3, <1>2 DEF SigTerm
  <2>4. CASE Accept \/ \E i \in Slot : Hangup(i)
        BY <2>4, <1>2 DEF Accept, Hangup, signals
  <2>5. CASE Stop \/ LoadMissing \/ LoadBad \/ \E es \in Lists(MaxEntries) : LoadLinks(es)
        BY <2>5, <1>2 DEF Stop, LoadMissing, LoadBad, LoadLinks, signals
  <2>6. CASE StartReload BY <2>0, <2>6, <1>2 DEF StartReload, signals
  <2>7. CASE LoadRuntime BY <2>7, <1>2 DEF LoadRuntime
  <2>8. CASE ReloadDone BY <2>0, <2>8, <1>2 DEF ReloadDone, signals
  <2>9. CASE MatchOld \/ CloseOld \/ OldDone \/ OpenDone \/ WalkDone
        BY <2>9, <1>2 DEF MatchOld, CloseOld, OldDone, OpenDone, WalkDone, signals
  <2>10. CASE OpenNew \/ UpdateKept \/ WalkOpen
         BY <2>10, <1>2 DEF OpenNew, UpdateKept, WalkOpen, Open, signals
  <2>11. CASE UNCHANGED vars BY <2>11, <1>2 DEF vars, signals
  <2> QED BY <1>2, <2>1, <2>2, <2>3, <2>4, <2>5, <2>6, <2>7, <2>8, <2>9, <2>10, <2>11
          DEF Next, Main
<1> QED BY <1>1, <1>2

\* A request is lost only if it came after a reload began, in the second that the
\* reload noted when it began.
THEOREM LostTheorem == Spec => []LostOnlyThatSecond
<1>1. Seconds => LostOnlyThatSecond
  <2> SUFFICES ASSUME Seconds, asked PROVE NeedReload \/ reloadsig = last
      BY DEF LostOnlyThatSecond
  <2>1. clock \in Nat /\ reloadsig \in Int /\ last \in Int /\ reloadsig >= last
        BY ReloadAssumption DEF Seconds
  <2> QED BY <2>1 DEF NeedReload
<1> QED BY <1>1, SecondsKept, PTL DEF Spec

-----------------------------------------------------------------------------
(* Slots and links *)

Opts == {e.opt : e \in Entry}
UseFor(s) == [for : {"conf"}, sig : {s}, opt : Opts, sys : Asked(s), user : Nat]
Uses == {Unused, Accepted} \cup UNION {UseFor(s) : s \in Sigs}
Linked == {WithId(e, x) : e \in Entry, x \in Slot \cup {NoId}}
Files == {c \in Seq(Linked) : Len(c) <= MaxEntries}

\* The types, and that the free list holds each unused slot once.
Typed ==
    /\ whole \in {"first", "yes", "no"}
    /\ pc \in {"walk", "loop", "runtime", "load", "diff", "open", "done", "stopped"}
    /\ k \in 1 .. MaxEntries + 1
    /\ conf \in Files /\ old \in Files
    /\ sig2id \in [Sigs -> SUBSET (1 .. MaxEntries)]
    /\ groups \in [Groups -> Seq(Slot)]
    /\ slot \in [Slot -> Uses] /\ orphans \subseteq Slot
    /\ free \in Seq(Slot) /\ Distinct(free)
    /\ \A i \in Slot : i \in Members(free) <=> slot[i] = Unused

\* The entries of c from the n-th on have slot i, or do not.
Has(c, n, i) == \E j \in n .. Len(c) : c[j].id = i

\* While the old configuration is compared with the new one, the links from the k-th
\* on are the old one's.
HasOld(i) == pc = "diff" /\ Has(old, k, i)

\* Every link that is open is an entry's of one configuration, or forgotten.
Owned ==
    \A i \in Slot :
        /\ slot[i].for = "conf" <=> Has(conf, 1, i) \/ HasOld(i) \/ i \in orphans
        /\ ~ (Has(conf, 1, i) /\ HasOld(i))
        /\ i \in orphans => ~ Has(conf, 1, i) /\ ~ HasOld(i)

\* No two entries from the n-th on have the same slot.
OwnIds(c, n) == \A j, h \in n .. Len(c) : c[j].id = c[h].id /\ c[j].id # NoId => j = h

\* The slot of an entry is for its signature; as the entry says too, once it has
\* been seen to.
Settled(j) == AsTold(slot[conf[j].id], conf[j])
Alike(e) == slot[e.id] \in UseFor(e.sig)

Fits ==
    /\ OwnIds(conf, 1)
    /\ \A j \in 1 .. Len(conf) : conf[j].id # NoId =>
            Alike(conf[j]) /\ (pc = "diff" \/ (pc = "open" /\ j >= k) \/ Settled(j))
    /\ pc = "diff" => /\ OwnIds(old, k)
                      /\ \A j \in k .. Len(old) : old[j].id # NoId => Alike(old[j])
    /\ pc = "walk" => orphans = {} /\ \A j \in k .. Len(conf) : conf[j].id = NoId

\* The entries before the n-th of signature s.
Before(c, n, s) == {j \in 1 .. Len(c) : j < n /\ c[j].sig = s}
Placed(c, s) == {j \in 1 .. Len(c) : c[j].sig = s}

\* The new entries not matched yet have no slot, and there are as many matched as the
\* old ones that have been looked at, at most.
Counted ==
    pc = "diff" =>
        \A s \in Sigs :
            /\ \A j \in sig2id[s] : j \in Placed(conf, s) /\ conf[j].id = NoId
            /\ Cardinality(Placed(conf, s)) <= Cardinality(sig2id[s]) + Cardinality(Before(old, k, s))

\* Entry j has joined its group, if it could.
Joined(j) == (pc \in {"walk", "open"} => j < k) /\ conf[j].id # NoId
                /\ (whole = "first" => conf[j].id # 0)

\* The groups have links of the configuration, all of them once it has been seen to.
Grouped ==
    /\ pc = "walk" => whole = "first"
    /\ pc \in {"diff", "open"} => whole = "yes"
    /\ \A g \in Groups : \A i \in Slot :
            /\ i \in Members(groups[g]) => slot[i].for = "conf"
            /\ whole # "no" /\ pc # "diff" =>
                (i \in Members(groups[g]) <=>
                    \E j \in 1 .. Len(conf) : conf[j].group = g /\ conf[j].id = i /\ Joined(j))
    /\ pc = "diff" => groups = NoGroups

\* What every step of the main thread keeps.
LinkInv == Typed /\ Owned /\ Fits /\ Counted /\ Grouped

-----------------------------------------------------------------------------
(* What the operators on entries and uses give *)

\* The uses of a slot tell each other apart.
LEMMA UseFacts ==
    /\ Unused.for # "conf" /\ Accepted.for # "conf" /\ Unused # Accepted
    /\ \A s : \A u \in UseFor(s) : u.for = "conf" /\ u.sig = s /\ u # Unused
BY DEF Unused, Accepted, UseFor

\* A slot is a link's of the configuration with its signature, or it is not.
LEMMA UseOfConf ==
    ASSUME NEW u \in Uses, u.for = "conf"
    PROVE  u.sig \in Sigs /\ u \in UseFor(u.sig)
BY UseFacts DEF Uses

\* What an entry is made of.
LEMMA LinkedFacts ==
    ASSUME NEW c \in Linked
    PROVE  /\ c.sig \in Sigs /\ c.group \in Groups \cup {NoGroup} /\ c.opt \in Opts
           /\ c.id \in Slot \cup {NoId}
           /\ c.sys \in Asked(c.sig) /\ c.sys \in Nat /\ c.user \in Nat
           /\ \A x \in Slot \cup {NoId} :
                LET d == [c EXCEPT !.id = x]
                IN  /\ d \in Linked /\ d.sig = c.sig /\ d.group = c.group
                    /\ d.opt = c.opt /\ d.sys = c.sys /\ d.user = c.user /\ d.id = x
<1>1. PICK e \in Entry, y \in Slot \cup {NoId} : c = WithId(e, y) BY DEF Linked
<1>2. {e.sys, e.user} \subseteq Nat BY ReloadAssumption
<1>3. /\ c.sig = e.sig /\ c.group = e.group /\ c.opt = e.opt /\ c.id = y
      /\ c.sys = e.sys /\ c.user = e.user
      BY <1>1 DEF WithId
<1>4. e.sig \in Sigs /\ e.group \in Groups \cup {NoGroup} /\ e.opt \in Opts
      BY DEF Sigs, Groups, Opts
<1>5. e.sys \in Asked(e.sig) BY DEF Asked
<1>6. ASSUME NEW x \in Slot \cup {NoId} PROVE [c EXCEPT !.id = x] = WithId(e, x)
      BY <1>1 DEF WithId
<1>7. ASSUME NEW x \in Slot \cup {NoId}
      PROVE  LET d == WithId(e, x)
             IN  /\ d \in Linked /\ d.sig = e.sig /\ d.group = e.group
                 /\ d.opt = e.opt /\ d.sys = e.sys /\ d.user = e.user /\ d.id = x
  <2>1. WithId(e, x) \in Linked BY DEF Linked
  <2> QED BY <2>1 DEF WithId
<1> QED BY <1>2, <1>3, <1>4, <1>5, <1>6, <1>7

\* A link is opened as its entry says.
LEMMA ConfiguredAs ==
    ASSUME NEW e \in Linked
    PROVE  /\ Configured(e) \in UseFor(e.sig) /\ Configured(e) \in Uses
           /\ AsTold(Configured(e), e)
<1>1. e.sig \in Sigs /\ e.opt \in Opts /\ e.sys \in Asked(e.sig) /\ e.user \in Nat
      BY LinkedFacts
<1>2. UserSize(e) \in Nat /\ (e.sig \in Listening => UserSize(e) = e.user) BY <1>1 DEF UserSize
<1>3. Configured(e) \in UseFor(e.sig) BY <1>1, <1>2 DEF Configured, UseFor
<1>4. AsTold(Configured(e), e) BY <1>2 DEF Configured, AsTold
<1> QED BY <1>1, <1>3, <1>4 DEF Uses

\* An update makes of a link of the entry's signature one that is as the entry says.
LEMMA UpdatedAs ==
    ASSUME NEW e \in Linked, NEW u \in UseFor(e.sig), NEW v \in AfterUpdate(u, e)
    PROVE  v \in UseFor(e.sig) /\ v \in Uses /\ AsTold(v, e)
<1>1. e.sig \in Sigs /\ e.opt \in Opts /\ e.sys \in Asked(e.sig) /\ e.user \in Nat /\ e.sys \in Nat
      BY LinkedFacts
<1>2. u.sys \in Asked(e.sig) /\ u.user \in Nat BY DEF UseFor
<1> DEFINE own == IF e.sig \in Listening /\ e.user > 0 THEN e.user ELSE u.user
<1>3. PICK size \in IF e.sys > 0 THEN {e.sys, u.sys} ELSE {e.sys} :
        v = [u EXCEPT !.opt = e.opt, !.sys = size, !.user = own]
      BY DEF AfterUpdate
<1>4. size \in Asked(e.sig) /\ (size = e.sys \/ e.sys > 0) BY <1>1, <1>2, <1>3
<1>5. own \in Nat /\ (e.sig \in Listening /\ e.user > 0 => own = e.user) BY <1>1, <1>2
<1> HIDE DEF own
<1>6. v = [for |-> "conf", sig |-> e.sig, opt |-> e.opt, sys |-> size, user |-> own]
      BY <1>3 DEF UseFor
<1>7. v \in UseFor(e.sig) BY <1>1, <1>4, <1>5, <1>6 DEF UseFor
<1>8. AsTold(v, e) BY <1>4, <1>5, <1>6 DEF AsTold
<1> QED BY <1>1, <1>7, <1>8 DEF Uses

\* No slot has the number that stands for none.
LEMMA NoIdIsNone == NoId \notin Slot /\ NoId \in Int /\ Slot \subseteq Nat
BY ReloadAssumption DEF NoId, Slot

\* A file is a sequence of entries.
LEMMA FileFacts ==
    ASSUME NEW c \in Files
    PROVE  /\ c \in Seq(Linked) /\ Len(c) \in Nat /\ Len(c) <= MaxEntries
           /\ \A j \in 1 .. Len(c) :
                /\ c[j] \in Linked /\ c[j].sig \in Sigs
                /\ c[j].group \in Groups \cup {NoGroup}
                /\ c[j].id \in Slot \cup {NoId}
<1>1. c \in Seq(Linked) /\ Len(c) \in Nat /\ Len(c) <= MaxEntries BY LenProperties DEF Files
<1>2. \A j \in 1 .. Len(c) : c[j] \in Linked BY <1>1, ElementOfSeq
<1> QED BY <1>1, <1>2, LinkedFacts

\* Entry j of c gets the id x.
Given(c, j, x) == [c EXCEPT ![j].id = x]

\* Nothing else of c changes.
LEMMA GivenId ==
    ASSUME NEW c \in Files, NEW j \in 1 .. Len(c), NEW x \in Slot \cup {NoId}
    PROVE  LET d == Given(c, j, x)
           IN  /\ d \in Files /\ Len(d) = Len(c)
               /\ \A h \in 1 .. Len(c) :
                    /\ d[h].sig = c[h].sig /\ d[h].group = c[h].group
                    /\ d[h].opt = c[h].opt /\ d[h].sys = c[h].sys /\ d[h].user = c[h].user
                    /\ h # j => d[h].id = c[h].id
               /\ d[j].id = x
<1> DEFINE e == [c[j] EXCEPT !.id = x]
           d == [c EXCEPT ![j] = e]
<1>1. c \in Seq(Linked) /\ Len(c) \in Nat /\ Len(c) <= MaxEntries /\ c[j] \in Linked BY FileFacts
<1>2. /\ e \in Linked /\ e.sig = c[j].sig /\ e.group = c[j].group /\ e.id = x
      /\ e.opt = c[j].opt /\ e.sys = c[j].sys /\ e.user = c[j].user
      BY <1>1, LinkedFacts
<1> HIDE DEF e
<1>3. d \in Seq(Linked) /\ Len(d) = Len(c) /\ d[j] = e /\ \A h \in 1 .. Len(c) : h # j => d[h] = c[h]
      BY <1>1, <1>2, ExceptSeq
<1>4. d \in Files BY <1>1, <1>3 DEF Files
<1> HIDE DEF d
<1>5. /\ d \in Files /\ Len(d) = Len(c)
      /\ \A h \in 1 .. Len(c) :
            /\ d[h].sig = c[h].sig /\ d[h].group = c[h].group
            /\ d[h].opt = c[h].opt /\ d[h].sys = c[h].sys /\ d[h].user = c[h].user
            /\ h # j => d[h].id = c[h].id
      /\ d[j].id = x
      BY <1>2, <1>3, <1>4
<1> QED BY <1>5 DEF d, e, Given

\* The entries of a file that has just been read have no links.
LEMMA LoadedIs ==
    ASSUME NEW n \in Nat, n <= MaxEntries, NEW es \in Lists(n)
    PROVE  /\ Loaded(es) \in Files /\ Len(Loaded(es)) = Len(es)
           /\ \A j \in 1 .. Len(es) : Loaded(es)[j].id = NoId /\ Loaded(es)[j].sig = es[j].sig
<1>1. PICK m \in 0 .. n : es \in [1 .. m -> Entry] BY DEF Lists
<1>2. MaxEntries \in Nat BY ReloadAssumption
<1>3. m \in Nat /\ m <= MaxEntries /\ Len(es) = m BY <1>1, <1>2
<1>4. ASSUME NEW e \in Entry
      PROVE  /\ WithId(e, NoId) \in Linked
             /\ WithId(e, NoId).id = NoId /\ WithId(e, NoId).sig = e.sig
  <2>1. WithId(e, NoId) \in Linked BY DEF Linked
  <2> QED BY <2>1 DEF WithId
<1>5. Loaded(es) = [j \in 1 .. m |-> WithId(es[j], NoId)] BY <1>3 DEF Loaded
<1>6. \A j \in 1 .. m : es[j] \in Entry BY <1>1
<1>7. Loaded(es) \in [1 .. m -> Linked] BY <1>4, <1>5, <1>6
<1>8. Loaded(es) \in Seq(Linked) /\ Len(Loaded(es)) = m BY <1>3, <1>7, SeqDef
<1>9. Loaded(es) \in Files BY <1>3, <1>8 DEF Files
<1>10. \A j \in 1 .. m : Loaded(es)[j].id = NoId /\ Loaded(es)[j].sig = es[j].sig
       BY <1>4, <1>5, <1>6
<1> QED BY <1>3, <1>8, <1>9, <1>10

\* The last place of a set of places is one of them.
LEMMA BackIsOne ==
    ASSUME NEW places \in SUBSET (1 .. MaxEntries), places # {}
    PROVE  Back(places) \in places
<1>1. MaxEntries \in Nat /\ places \in SUBSET Nat /\ \A x \in places : x <= MaxEntries
      BY ReloadAssumption
<1>2. \E p \in places : \A q \in places : q <= p BY <1>1, GreatestOf
<1> QED BY <1>2 DEF Back

\* As many places as there are members, where none occurs twice.
LEMMA LenIsCount ==
    ASSUME NEW S, NEW s \in Seq(S), Distinct(s)
    PROVE  Len(s) = Cardinality(Members(s))
<1> DEFINE n == Len(s)
           M == Members(s)
<1>1. n \in Nat /\ s \in [1 .. n -> S] BY LenProperties, SeqDef
<1>2. s \in [1 .. n -> M] /\ \A x \in M : \E j \in 1 .. n : s[j] = x BY <1>1 DEF Members
<1>3. \A j, h \in 1 .. n : s[j] = s[h] => j = h BY DEF Distinct
<1> HIDE DEF n, M
<1>4. s \in Bijection(1 .. n, M)
  <2>1. s \in Injection(1 .. n, M) BY <1>2, <1>3 DEF Injection, IsInjective
  <2>2. s \in Surjection(1 .. n, M) BY <1>2 DEF Surjection
  <2> QED BY <2>1, <2>2 DEF Bijection
<1>5. ExistsBijection(1 .. n, M) BY <1>4 DEF ExistsBijection
<1>6. Cardinality(M) = n BY <1>1, <1>5, FS_CountingElements
<1> QED BY <1>6 DEF n, M

-----------------------------------------------------------------------------
(* The links, step by step *)

\* The fresh list holds each slot once.
LEMMA FreshList ==
    LET f == [j \in 1 .. N |-> j - 1]
    IN  f \in Seq(Slot) /\ Distinct(f) /\ \A i \in Slot : i \in Members(f)
<1> DEFINE f == [j \in 1 .. N |-> j - 1]
<1>1. N \in Nat BY ReloadAssumption
<1>2. \A j \in 1 .. N : j - 1 \in Slot /\ f[j] = j - 1 BY <1>1 DEF Slot
<1>3. f \in Seq(Slot) /\ Len(f) = N BY <1>1, <1>2, SeqDef
<1> HIDE DEF f
<1>4. Distinct(f) BY <1>1, <1>2, <1>3 DEF Distinct
<1>5. ASSUME NEW i \in Slot PROVE i \in Members(f)
  <2>1. i + 1 \in 1 .. Len(f) /\ f[i + 1] = i BY <1>1, <1>2, <1>3 DEF Slot
  <2> QED BY <2>1 DEF Members
<1> QED BY <1>3, <1>4, <1>5 DEF f

\* The groups without members.
LEMMA NoGroupsEmpty ==
    NoGroups \in [Groups -> Seq(Slot)] /\ \A g \in Groups : \A i : i \notin Members(NoGroups[g])
<1>1. \A g \in Groups : NoGroups[g] = <<>> BY DEF NoGroups
<1>2. \A i : i \notin Members(<<>>) BY DEF Members
<1>3. <<>> \in Seq(Slot) BY EmptySeq
<1> QED BY <1>1, <1>2, <1>3 DEF NoGroups

\* The program starts with no links and all slots free.
LEMMA LinksAtStart == Init => LinkInv
<1> SUFFICES ASSUME Init PROVE LinkInv OBVIOUS
<1>1. PICK es \in Lists(MaxEntries) : conf = Loaded(es) BY DEF Init
<1>2. MaxEntries \in Nat /\ 1 <= MaxEntries BY ReloadAssumption
<1>3. /\ conf \in Files /\ Len(conf) = Len(es)
      /\ \A j \in 1 .. Len(conf) : conf[j].id = NoId
      BY <1>1, <1>2, LoadedIs
<1>4. /\ pc = "walk" /\ k = 1 /\ old = <<>> /\ sig2id = NoSigs /\ groups = NoGroups
      /\ slot = [i \in Slot |-> Unused] /\ orphans = {} /\ whole = "first"
      /\ free = [j \in 1 .. N |-> j - 1]
      BY DEF Init
<1>5. Len(conf) \in Nat BY <1>3, FileFacts
<1>6. Typed
  <2>1. old \in Files BY <1>2, <1>4, EmptySeq DEF Files
  <2>2. sig2id \in [Sigs -> SUBSET (1 .. MaxEntries)] BY <1>4 DEF NoSigs
  <2>3. slot \in [Slot -> Uses] BY <1>4 DEF Uses
  <2>4. /\ free \in Seq(Slot) /\ Distinct(free)
        /\ \A i \in Slot : i \in Members(free) <=> slot[i] = Unused
        BY <1>4, FreshList
  <2> QED BY <1>2, <1>3, <1>4, <2>1, <2>2, <2>3, <2>4, NoGroupsEmpty DEF Typed
<1>7. \A i \in Slot : ~ Has(conf, 1, i) /\ slot[i].for # "conf"
      BY <1>3, <1>4, NoIdIsNone, UseFacts DEF Has
<1>8. Owned BY <1>4, <1>7 DEF Owned, HasOld
<1>9. Fits
  <2>1. OwnIds(conf, 1) BY <1>3 DEF OwnIds
  <2> QED BY <1>3, <1>4, <2>1 DEF Fits
<1>10. Counted BY <1>4 DEF Counted
<1>11. Grouped
  <2>1. \A j \in 1 .. Len(conf) : ~ Joined(j) BY <1>3 DEF Joined
  <2> QED BY <1>4, <2>1, NoGroupsEmpty DEF Grouped
<1> QED BY <1>6, <1>8, <1>9, <1>10, <1>11 DEF LinkInv

\* Where no list is being walked.
Still == {"loop", "runtime", "load", "done", "stopped"}

\* Nothing becomes of the links when the main thread goes on to a part that walks no
\* list, from another such part or from the end of a list.
LEMMA Onward ==
    ASSUME LinkInv, pc # "diff", pc \in {"walk", "open"} => k > Len(conf),
           pc' \in Still, k' \in 1 .. MaxEntries + 1,
           old' \in Files, sig2id' \in [Sigs -> SUBSET (1 .. MaxEntries)],
           UNCHANGED <<conf, groups, free, slot, orphans, whole>>
    PROVE  LinkInv'
<1> USE DEF LinkInv
<1>1. pc' \notin {"diff", "walk", "open"} BY DEF Still
<1>2. Typed' BY DEF Typed, Still
<1>3. conf \in Files /\ Len(conf) \in Nat /\ k \in Nat BY FileFacts, ReloadAssumption DEF Typed
<1>4. \A i \in Slot : ~ HasOld(i) /\ ~ HasOld(i)' BY <1>1 DEF HasOld
<1>5. Owned' BY <1>4 DEF Owned, Has
<1>6. Fits'
  <2>1. OwnIds(conf, 1)' BY DEF Fits, OwnIds
  <2>2. ASSUME NEW j \in 1 .. Len(conf), conf[j].id # NoId
        PROVE  Alike(conf[j]) /\ Settled(j)
    <3>1. ~ (pc = "open" /\ j >= k) BY <1>3
    <3> QED BY <2>2, <3>1 DEF Fits
  <2> QED BY <1>1, <2>1, <2>2 DEF Fits, Alike, Settled
<1>7. Counted' BY <1>1 DEF Counted
<1>8. Grouped'
  <2>1. \A j \in 1 .. Len(conf) : Joined(j)' <=> Joined(j) BY <1>1, <1>3 DEF Joined
  <2> QED BY <1>1, <2>1 DEF Grouped
<1> QED BY <1>2, <1>5, <1>6, <1>7, <1>8

\* A connection accepted or over is none of the configuration's.
LEMMA Aside ==
    ASSUME LinkInv, pc \in Still, NEW i \in Slot, NEW u \in {Unused, Accepted},
           slot[i].for # "conf", slot' = [slot EXCEPT ![i] = u],
           free' \in Seq(Slot), Distinct(free'),
           \A h \in Slot : h \in Members(free') <=> slot'[h] = Unused,
           UNCHANGED <<pc, k, conf, old, sig2id, groups, orphans, whole>>
    PROVE  LinkInv'
<1> USE DEF LinkInv
<1>1. pc \notin {"diff", "walk", "open"} BY DEF Still
<1>2. slot \in [Slot -> Uses] /\ u \in Uses BY DEF Typed, Uses
<1>3. Typed' BY <1>2 DEF Typed
<1>4. u.for # "conf" BY UseFacts
<1>5. \A h \in Slot : /\ slot'[h].for = "conf" <=> slot[h].for = "conf"
                      /\ slot[h].for = "conf" => slot'[h] = slot[h]
      BY <1>2, <1>4
<1>6. Owned' BY <1>1, <1>5 DEF Owned, Has, HasOld
<1>7. Fits'
  <2>1. OwnIds(conf, 1)' BY DEF Fits, OwnIds
  <2>2. ASSUME NEW j \in 1 .. Len(conf), conf[j].id # NoId
        PROVE  Alike(conf[j])' /\ Settled(j)'
    <3>1. conf[j].id \in Slot BY <2>2, FileFacts DEF Typed
    <3>2. Alike(conf[j]) /\ Settled(j) BY <1>1, <2>2 DEF Fits
    <3>3. slot[conf[j].id].for = "conf" BY <3>2, UseFacts DEF Alike
    <3>4. slot'[conf[j].id] = slot[conf[j].id] BY <1>5, <3>1, <3>3
    <3> QED BY <3>2, <3>4 DEF Alike, Settled
  <2> QED BY <1>1, <2>1, <2>2 DEF Fits
<1>8. Counted' BY <1>1 DEF Counted
<1>9. Grouped'
  <2>1. \A j \in 1 .. Len(conf) : Joined(j)' <=> Joined(j) BY DEF Joined
  <2> QED BY <1>1, <1>5, <2>1 DEF Grouped
<1> QED BY <1>3, <1>6, <1>7, <1>8, <1>9

\* What appending does to the members, whether they were there or not.
LEMMA MembersAppend ==
    ASSUME NEW S, NEW s \in Seq(S), NEW i \in S
    PROVE  Append(s, i) \in Seq(S) /\ \A h : h \in Members(Append(s, i)) <=> h \in Members(s) \/ h = i
<1> DEFINE t == Append(s, i)
<1>1. /\ t \in Seq(S) /\ Len(t) = Len(s) + 1 /\ Len(s) \in Nat
      /\ t[Len(s) + 1] = i /\ \A j \in 1 .. Len(s) : t[j] = s[j]
      BY AppendProperties, LenProperties
<1> HIDE DEF t
<1>2. \A h : h \in Members(t) <=> \E j \in 1 .. Len(t) : t[j] = h BY DEF Members
<1>3. \A h : h \in Members(s) <=> \E j \in 1 .. Len(s) : s[j] = h BY DEF Members
<1>4. \A j \in 1 .. Len(t) : j \in 1 .. Len(s) \/ j = Len(s) + 1 BY <1>1
<1>5. Len(s) + 1 \in 1 .. Len(t) /\ \A j \in 1 .. Len(s) : j \in 1 .. Len(t) BY <1>1
<1>6. \A h : h \in Members(t) => h \in Members(s) \/ h = i BY <1>1, <1>2, <1>3, <1>4
<1>7. \A h : h \in Members(s) \/ h = i => h \in Members(t) BY <1>1, <1>2, <1>3, <1>5
<1> QED BY <1>1, <1>6, <1>7 DEF t

\* A link joins the group of its entry and no other.
LEMMA JoinMembers ==
    ASSUME groups \in [Groups -> Seq(Slot)], NEW e \in Linked, NEW id \in Slot \cup {NoId},
           NEW least \in Nat
    PROVE  /\ Join(e, id, least) \in [Groups -> Seq(Slot)]
           /\ \A g \in Groups : \A i \in Slot :
                i \in Members(Join(e, id, least)[g]) <=>
                    i \in Members(groups[g]) \/ (e.group = g /\ id = i /\ id >= least)
<1>1. NoGroup \notin Groups BY DEF Groups
<1>2. CASE e.group # NoGroup /\ id >= least
  <2>1. e.group \in Groups BY <1>2, LinkedFacts
  <2>2. id \in Slot BY <1>2, ReloadAssumption DEF NoId
  <2> DEFINE old_ == groups[e.group]
             new == [groups EXCEPT ![e.group] = Append(old_, id)]
  <2>3. old_ \in Seq(Slot) BY <2>1
  <2>4. Append(old_, id) \in Seq(Slot)
        /\ \A h : h \in Members(Append(old_, id)) <=> h \in Members(old_) \/ h = id
        BY <2>2, <2>3, MembersAppend
  <2>5. Join(e, id, least) = new BY <1>2 DEF Join
  <2>6. new \in [Groups -> Seq(Slot)] /\ new[e.group] = Append(old_, id)
        /\ \A g \in Groups : g # e.group => new[g] = groups[g]
        BY <2>1, <2>4
  <2> HIDE DEF new
  <2> QED BY <1>2, <2>4, <2>5, <2>6
<1>3. CASE ~ (e.group # NoGroup /\ id >= least)
  <2>1. Join(e, id, least) = groups BY <1>3 DEF Join
  <2> QED BY <1>1, <1>3, <2>1
<1> QED BY <1>2, <1>3

\* A new entry gets a slot that is free, or none, and joins its group.
LEMMA Opened ==
    ASSUME LinkInv, NEW least \in Nat, Open(least), UNCHANGED pc,
           (pc = "walk" /\ least = 1) \/ (pc = "open" /\ least = 0)
    PROVE  LinkInv'
<1> USE DEF LinkInv
<1>1. PICK id :
        /\ id = IF free = <<>> THEN NoId ELSE Head(free)
        /\ k <= Len(conf) /\ conf[k].id = NoId
        /\ IF id = NoId THEN UNCHANGED network
           ELSE /\ slot' = [slot EXCEPT ![id] = Configured(conf[k])]
                /\ free' = Tail(free)
        /\ conf' = Given(conf, k, id)
        /\ groups' = Join(conf[k], id, least)
        /\ k' = k + 1
        /\ UNCHANGED <<old, sig2id, orphans, whole>>
      BY DEF Open, Given
<1>2. /\ conf \in Files /\ slot \in [Slot -> Uses] /\ free \in Seq(Slot) /\ Distinct(free)
      /\ k \in 1 .. MaxEntries + 1 /\ groups \in [Groups -> Seq(Slot)]
      /\ \A i \in Slot : i \in Members(free) <=> slot[i] = Unused
      BY DEF Typed
<1>3. /\ Len(conf) \in Nat /\ Len(conf) <= MaxEntries /\ k \in 1 .. Len(conf) /\ conf[k] \in Linked
      /\ MaxEntries \in Nat
      BY <1>1, <1>2, FileFacts, ReloadAssumption
<1>4. id # NoId => id \in Slot /\ slot[id] = Unused /\ id = Head(free) /\ free # <<>>
      BY <1>1, <1>2, TailOf
<1>5. id \in Slot \cup {NoId} BY <1>4
<1>6. /\ conf' \in Files /\ Len(conf') = Len(conf)
      /\ \A h \in 1 .. Len(conf) :
            /\ conf'[h].sig = conf[h].sig /\ conf'[h].group = conf[h].group
            /\ conf'[h].opt = conf[h].opt /\ conf'[h].sys = conf[h].sys
            /\ conf'[h].user = conf[h].user
            /\ h # k => conf'[h].id = conf[h].id
      /\ conf'[k].id = id
  <2> DEFINE d == Given(conf, k, id)
  <2>1. /\ d \in Files /\ Len(d) = Len(conf) /\ d[k].id = id
        /\ \A h \in 1 .. Len(conf) :
            /\ d[h].sig = conf[h].sig /\ d[h].group = conf[h].group
            /\ d[h].opt = conf[h].opt /\ d[h].sys = conf[h].sys
            /\ d[h].user = conf[h].user
            /\ h # k => d[h].id = conf[h].id
        BY <1>2, <1>3, <1>5, GivenId
  <2>2. conf' = d BY <1>1
  <2> HIDE DEF d
  <2> QED BY <2>1, <2>2
<1>7. /\ groups' \in [Groups -> Seq(Slot)]
      /\ \A g \in Groups : \A i \in Slot :
            i \in Members(groups'[g]) <=>
                i \in Members(groups[g]) \/ (conf[k].group = g /\ id = i /\ id >= least)
  <2>1. groups \in [Groups -> Seq(Slot)] /\ conf[k] \in Linked /\ id \in Slot \cup {NoId}
        BY <1>2, <1>3, <1>5
  <2> DEFINE new == Join(conf[k], id, least)
  <2>2. /\ new \in [Groups -> Seq(Slot)]
        /\ \A g \in Groups : \A i \in Slot :
                i \in Members(new[g]) <=>
                    i \in Members(groups[g]) \/ (conf[k].group = g /\ id = i /\ id >= least)
        BY <2>1, JoinMembers
  <2>3. groups' = new BY <1>1
  <2> HIDE DEF new
  <2> QED BY <2>2, <2>3
<1>8. PICK use : use = Configured(conf[k]) OBVIOUS
<1>9. id = NoId => slot' = slot /\ free' = free BY <1>1 DEF network
<1>10. id # NoId => /\ slot' \in [Slot -> Uses]
                    /\ slot'[id] = use /\ use \in UseFor(conf[k].sig) /\ AsTold(use, conf[k])
                    /\ \A i \in Slot : i # id => slot'[i] = slot[i]
                    /\ free' = Tail(free)
  <2>1. use \in Uses /\ use \in UseFor(conf[k].sig) /\ AsTold(use, conf[k])
        BY <1>3, <1>8, ConfiguredAs
  <2> QED BY <1>1, <1>2, <1>4, <1>8, <2>1
<1>11. /\ slot' \in [Slot -> Uses] /\ free' \in Seq(Slot) /\ Distinct(free')
       /\ \A i \in Slot : i \in Members(free') <=> slot'[i] = Unused
  <2>1. CASE id = NoId BY <1>2, <1>9, <2>1
  <2>2. CASE id # NoId
    <3>1. /\ free' \in Seq(Slot) /\ Distinct(free')
          /\ Members(free') = Members(free) \ {id}
      <4>1. Distinct(free) /\ free # <<>> /\ id = Head(free) BY <1>2, <1>4, <2>2
      <4>2. free \in Seq(Slot) /\ free' = Tail(free) BY <1>2, <1>10, <2>2
      <4> QED BY <4>1, <4>2, TailOf
    <3>2. slot'[id] # Unused BY <1>10, <2>2, UseFacts
    <3> QED BY <1>2, <1>10, <2>2, <3>1, <3>2
  <2> QED BY <2>1, <2>2
<1>12. pc \notin {"diff"} /\ pc' = pc /\ pc \in {"walk", "open"} OBVIOUS
<1>13. k' \in 1 .. MaxEntries + 1 /\ k \in Nat /\ k' = k + 1 BY <1>1, <1>3
<1>n. PICK n \in 1 .. Len(conf) : n = k BY <1>3
<1>14. Typed' BY <1>1, <1>6, <1>7, <1>11, <1>13 DEF Typed
<1>15. \A i \in Slot : i # id => (Has(conf, 1, i)' <=> Has(conf, 1, i))
  <2> SUFFICES ASSUME NEW i \in Slot, i # id PROVE Has(conf, 1, i)' <=> Has(conf, 1, i)
      OBVIOUS
  <2>1. \A h \in 1 .. Len(conf) : conf'[h].id = i <=> conf[h].id = i
        BY <1>1, <1>6, NoIdIsNone
  <2> QED BY <1>6, <2>1 DEF Has
<1>16. id # NoId => Has(conf, 1, id)' /\ ~ Has(conf, 1, id) /\ id \notin orphans
  <2>1. ASSUME id # NoId PROVE Has(conf, 1, id)' BY <1>3, <1>6 DEF Has
  <2>2. ASSUME id # NoId PROVE slot[id].for # "conf" BY <1>4, <2>2, UseFacts
  <2> QED BY <1>4, <2>1, <2>2 DEF Owned
<1>17. Owned'
  <2>1. \A i : ~ HasOld(i) /\ ~ HasOld(i)' BY <1>12 DEF HasOld
  <2>2. ASSUME NEW i \in Slot, i # id
        PROVE  /\ slot'[i].for = "conf" <=> Has(conf, 1, i)' \/ i \in orphans
               /\ i \in orphans => ~ Has(conf, 1, i)'
    <3>1. slot'[i] = slot[i] BY <1>9, <1>10, <2>2
    <3> QED BY <1>15, <2>1, <2>2, <3>1 DEF Owned
  <2>3. id # NoId => slot'[id].for = "conf" BY <1>10, UseFacts
  <2> QED BY <1>1, <1>5, <1>16, <2>1, <2>2, <2>3, NoIdIsNone DEF Owned
<1>18. Fits'
  <2>1. \A j \in 1 .. Len(conf) : j # k => conf[j].id # id \/ id = NoId
        BY <1>16 DEF Has
  <2>2. OwnIds(conf, 1)' BY <1>3, <1>6, <2>1 DEF Fits, OwnIds
  <2>3. ASSUME NEW j \in 1 .. Len(conf), j # k, conf'[j].id # NoId
        PROVE  Alike(conf[j])' /\ ((pc = "open" /\ j >= k') \/ Settled(j)')
    <3>1. conf'[j].id = conf[j].id /\ conf[j].id \in Slot /\ conf[j].id # id
          BY <1>2, <1>6, <2>1, <2>3, FileFacts
    <3>2. slot'[conf[j].id] = slot[conf[j].id] BY <1>9, <1>10, <3>1
    <3>3. Alike(conf[j]) /\ ((pc = "open" /\ j >= k) \/ Settled(j)) BY <1>12, <2>3, <3>1 DEF Fits
    <3>4. Alike(conf[j])' BY <1>6, <3>1, <3>2, <3>3 DEF Alike
    <3>5. CASE j >= k /\ pc = "open"
      <4>1. j >= k' BY <1>13, <2>3, <3>5
      <4> QED BY <3>4, <3>5, <4>1
    <3>6. CASE Settled(j) 
      <4>1. slot'[conf'[j].id] = slot[conf[j].id] BY <3>1, <3>2
      <4>2. AsTold(slot[conf[j].id], conf[j]) BY <3>6 DEF Settled
      <4>3. AsTold(slot[conf[j].id], conf'[j]) BY <1>6, <4>2 DEF AsTold
      <4>4. Settled(j)' BY <4>1, <4>3 DEF Settled
      <4> QED BY <3>4, <4>4
    <3> QED BY <3>3, <3>5, <3>6
  <2>4. id # NoId => Alike(conf[n])' /\ Settled(n)'
    <3>1. ASSUME id # NoId
          PROVE  /\ conf'[n].id = id /\ slot'[id] = use
                 /\ use \in UseFor(conf'[n].sig) /\ AsTold(use, conf'[n])
          BY <1>3, <1>n, <1>6, <1>10, <3>1 DEF AsTold
    <3>2. id # NoId => Settled(n)' BY <3>1 DEF Settled
    <3>3. id # NoId => Alike(conf[n])' BY <3>1 DEF Alike
    <3> QED BY <3>2, <3>3
  <2>5. ASSUME pc = "walk"
        PROVE  orphans = {} /\ \A j \in k' .. Len(conf) : conf'[j].id = NoId
    <3>1. orphans = {} /\ \A j \in k .. Len(conf) : conf[j].id = NoId BY <2>5 DEF Fits
    <3>2. \A j \in k' .. Len(conf) : j \in k .. Len(conf) /\ j # k /\ j \in 1 .. Len(conf)
          BY <1>3, <1>13
    <3> QED BY <1>6, <3>1, <3>2
  <2>6. \A j \in 1 .. Len(conf) : j = k => conf'[j].id = id BY <1>6
  <2>7. orphans' = orphans /\ pc' = pc BY <1>1
  <2>8. ASSUME NEW j \in 1 .. Len(conf), conf'[j].id # NoId
        PROVE  Alike(conf[j])' /\ ((pc = "open" /\ j >= k') \/ Settled(j)')
        BY <1>n, <2>3, <2>4, <2>6, <2>8
  <2> QED BY <1>6, <1>12, <2>2, <2>5, <2>7, <2>8 DEF Fits
<1>19. Counted' BY <1>12 DEF Counted
<1>20. Grouped'
  <2>1. (pc = "walk" => whole = "first") /\ (pc = "open" => whole = "yes") BY DEF Grouped
  <2>2. id >= least <=> id # NoId /\ (whole = "first" => id # 0)
    <3>1. id \in Int /\ (id # NoId => id >= 0) BY <1>5, ReloadAssumption DEF Slot, NoId
    <3> QED BY <2>1, <3>1 DEF NoId
  <2>3. \A j \in 1 .. Len(conf) : j # k => (Joined(j)' <=> Joined(j))
    <3>1. \A j \in 1 .. Len(conf) : j # k => (j < k' <=> j < k) BY <1>3, <1>13
    <3> QED BY <1>1, <1>6, <1>12, <3>1 DEF Joined
  <2>4. ~ Joined(n) BY <1>1, <1>n DEF Joined
  <2>5. Joined(n)' <=> id >= least
    <3>1. n < k' BY <1>n, <1>13
    <3>2. conf'[n].id = id /\ whole' = whole BY <1>1, <1>6, <1>n
    <3> QED BY <2>2, <3>1, <3>2 DEF Joined
  <2>6. ASSUME NEW g \in Groups, NEW i \in Slot
        PROVE  /\ i \in Members(groups'[g]) => slot'[i].for = "conf"
               /\ i \in Members(groups'[g]) <=>
                    \E j \in 1 .. Len(conf) : conf'[j].group = g /\ conf'[j].id = i /\ Joined(j)'
    <3>1. /\ i \in Members(groups[g]) => slot[i].for = "conf"
          /\ i \in Members(groups[g]) <=>
                    \E j \in 1 .. Len(conf) : conf[j].group = g /\ conf[j].id = i /\ Joined(j)
          BY <1>12, <2>1 DEF Grouped
    <3>2. slot[i].for = "conf" => slot'[i].for = "conf" BY <1>9, <1>10, UseFacts
    <3>3. id = i => slot'[i].for = "conf" BY <1>10, UseFacts, NoIdIsNone
    <3>4. i \in Members(groups'[g]) =>
                    \E j \in 1 .. Len(conf) : conf'[j].group = g /\ conf'[j].id = i /\ Joined(j)'
      <4>1. CASE i \in Members(groups[g]) BY <1>6, <1>n, <2>3, <2>4, <3>1, <4>1
      <4>2. CASE conf[k].group = g /\ id = i /\ id >= least
        <5>1. conf'[n].group = g /\ conf'[n].id = i /\ Joined(n)'
              BY <1>6, <1>n, <2>5, <4>2
        <5> QED BY <5>1
      <4> QED BY <1>7, <4>1, <4>2
    <3>5. ASSUME NEW j \in 1 .. Len(conf), conf'[j].group = g, conf'[j].id = i, Joined(j)'
          PROVE  i \in Members(groups'[g])
      <4>1. CASE j = k
        <5>1. conf[k].group = g /\ id = i /\ id >= least BY <1>6, <1>n, <2>5, <3>5, <4>1
        <5> QED BY <1>7, <5>1
      <4>2. CASE j # k BY <1>6, <1>7, <2>3, <3>1, <3>5, <4>2
      <4> QED BY <4>1, <4>2
    <3> QED BY <1>7, <3>1, <3>2, <3>3, <3>4, <3>5
  <2> QED BY <1>1, <1>6, <1>12, <2>1, <2>6 DEF Grouped
<1> QED BY <1>14, <1>17, <1>18, <1>19, <1>20

\* An entry that keeps its slot has it updated and joins its group.
LEMMA Updated ==
    ASSUME LinkInv, UpdateKept
    PROVE  LinkInv'
<1> USE DEF LinkInv
<1>0. PICK v : /\ v \in AfterUpdate(slot[conf[k].id], conf[k])
               /\ slot' = [slot EXCEPT ![conf[k].id] = v]
      BY DEF UpdateKept
<1>1. /\ pc = "open" /\ k <= Len(conf) /\ conf[k].id # NoId
      /\ groups' = Join(conf[k], conf[k].id, 0)
      /\ k' = k + 1
      /\ UNCHANGED <<free, conf, old, sig2id, orphans, whole, pc>>
      BY DEF UpdateKept
<1>2. /\ conf \in Files /\ slot \in [Slot -> Uses] /\ k \in 1 .. MaxEntries + 1
      /\ groups \in [Groups -> Seq(Slot)]
      /\ \A i \in Slot : i \in Members(free) <=> slot[i] = Unused
      BY DEF Typed
<1>3. /\ Len(conf) \in Nat /\ Len(conf) <= MaxEntries /\ k \in 1 .. Len(conf) /\ MaxEntries \in Nat
      BY <1>1, <1>2, FileFacts, ReloadAssumption
<1>4. PICK n \in 1 .. Len(conf) : n = k BY <1>3
<1>5. PICK id \in Slot : id = conf[n].id BY <1>1, <1>2, <1>4, FileFacts
<1>6. conf[n] \in Linked BY <1>2, FileFacts
<1>7. slot[id] \in UseFor(conf[n].sig) BY <1>1, <1>4, <1>5 DEF Fits, Alike
<1>8. v \in AfterUpdate(slot[id], conf[n]) /\ slot' = [slot EXCEPT ![id] = v]
      BY <1>0, <1>4, <1>5
<1>9. /\ v \in UseFor(conf[n].sig) /\ AsTold(v, conf[n])
      /\ slot' \in [Slot -> Uses] /\ slot'[id] = v
      /\ \A i \in Slot : i # id => slot'[i] = slot[i]
  <2>1. v \in UseFor(conf[n].sig) /\ v \in Uses /\ AsTold(v, conf[n])
        BY <1>6, <1>7, <1>8, UpdatedAs
  <2> QED BY <1>2, <1>8, <2>1
<1>10. \A i \in Slot : slot'[i].for = "conf" <=> slot[i].for = "conf" BY <1>7, <1>9, UseFacts
<1>11. \A i \in Slot : slot'[i] = Unused <=> slot[i] = Unused BY <1>7, <1>9, UseFacts
<1>12. /\ groups' \in [Groups -> Seq(Slot)]
       /\ \A g \in Groups : \A i \in Slot :
            i \in Members(groups'[g]) <=> i \in Members(groups[g]) \/ (conf[n].group = g /\ id = i)
  <2> DEFINE new == Join(conf[n], id, 0)
  <2>1. id >= 0 BY <1>5, NoIdIsNone
  <2>2. id \in Slot \cup {NoId} /\ groups \in [Groups -> Seq(Slot)] /\ 0 \in Nat BY <1>2, <1>5
  <2>3. /\ new \in [Groups -> Seq(Slot)]
        /\ \A g \in Groups : \A i \in Slot :
                i \in Members(new[g]) <=>
                    i \in Members(groups[g]) \/ (conf[n].group = g /\ id = i /\ id >= 0)
        BY <1>6, <2>2, JoinMembers
  <2>4. groups' = new BY <1>1, <1>4, <1>5
  <2> HIDE DEF new
  <2> QED BY <2>1, <2>3, <2>4
<1>13. k' \in 1 .. MaxEntries + 1 /\ k \in Nat /\ k' = k + 1 BY <1>1, <1>3
<1>14. Typed' BY <1>1, <1>2, <1>9, <1>11, <1>12, <1>13 DEF Typed
<1>15. Owned' BY <1>1, <1>10 DEF Owned, Has, HasOld
<1>16. Fits'
  <2>1. OwnIds(conf, 1)' BY <1>1 DEF Fits, OwnIds
  <2>2. ASSUME NEW j \in 1 .. Len(conf), j # n, conf[j].id # NoId
        PROVE  Alike(conf[j])' /\ ((pc = "open" /\ j >= k') \/ Settled(j)')
    <3>1. conf[j].id \in Slot /\ conf[j].id # id BY <1>2, <1>5, <2>2, FileFacts DEF Fits, OwnIds
    <3>2. slot'[conf[j].id] = slot[conf[j].id] BY <1>9, <3>1
    <3>3. Alike(conf[j]) /\ ((pc = "open" /\ j >= k) \/ Settled(j)) BY <1>1, <2>2 DEF Fits
    <3>4. Alike(conf[j])' BY <1>1, <3>2, <3>3 DEF Alike
    <3>5. j >= k => j >= k' BY <1>4, <1>13, <2>2
    <3>6. Settled(j) => Settled(j)' BY <1>1, <3>2 DEF Settled
    <3> QED BY <3>3, <3>4, <3>5, <3>6
  <2>3. Settled(n)' BY <1>1, <1>5, <1>9 DEF Settled
  <2>4. Alike(conf[n])' BY <1>1, <1>5, <1>9 DEF Alike
  <2> QED BY <1>1, <2>1, <2>2, <2>3, <2>4 DEF Fits
<1>17. Counted' BY <1>1 DEF Counted
<1>18. Grouped'
  <2>1. whole = "yes" BY <1>1 DEF Grouped
  <2>2. \A j \in 1 .. Len(conf) : j # n => (Joined(j)' <=> Joined(j))
    <3>1. \A j \in 1 .. Len(conf) : j # n => (j < k' <=> j < k) BY <1>3, <1>4, <1>13
    <3> QED BY <1>1, <3>1 DEF Joined
  <2>3. ~ Joined(n) BY <1>1, <1>4 DEF Joined
  <2>4. Joined(n)'
    <3>1. n < k' BY <1>4, <1>13
    <3> QED BY <1>1, <1>5, <2>1, <3>1, NoIdIsNone DEF Joined
  <2>5. ASSUME NEW g \in Groups, NEW i \in Slot
        PROVE  /\ i \in Members(groups'[g]) => slot'[i].for = "conf"
               /\ i \in Members(groups'[g]) <=>
                    \E j \in 1 .. Len(conf) : conf[j].group = g /\ conf[j].id = i /\ Joined(j)'
    <3>1. /\ i \in Members(groups[g]) => slot[i].for = "conf"
          /\ i \in Members(groups[g]) <=>
                    \E j \in 1 .. Len(conf) : conf[j].group = g /\ conf[j].id = i /\ Joined(j)
          BY <1>1, <2>1 DEF Grouped
    <3>2. id = i => slot'[i].for = "conf" BY <1>9, UseFacts
    <3>3. \A j \in 1 .. Len(conf) : Joined(j)' <=> Joined(j) \/ j = n BY <2>2, <2>3, <2>4
    <3> QED BY <1>5, <1>10, <1>12, <3>1, <3>2, <3>3
  <2> QED BY <1>1, <2>1, <2>5 DEF Grouped
<1> QED BY <1>14, <1>15, <1>16, <1>17, <1>18

\* A bad file forgets the links of the configuration it replaces.
LEMMA Forgotten ==
    ASSUME LinkInv, LoadBad
    PROVE  LinkInv'
<1> USE DEF LinkInv
<1>1. /\ pc = "load" /\ pc' = "done" /\ whole' = "no"
      /\ orphans' = orphans \cup IdsOf(conf)
      /\ UNCHANGED <<network, old, sig2id, groups, k>>
      BY DEF LoadBad
<1>2. PICK es \in Lists(MaxEntries) : conf' = Loaded(es) BY DEF LoadBad
<1>3. MaxEntries \in Nat /\ 1 <= MaxEntries BY ReloadAssumption
<1>4. conf' \in Files /\ \A j \in 1 .. Len(conf') : conf'[j].id = NoId BY <1>2, <1>3, LoadedIs
<1>5. conf \in Files BY DEF Typed
<1>6. \A i \in Slot : i \in IdsOf(conf) <=> Has(conf, 1, i) BY NoIdIsNone DEF IdsOf, Has
<1>7. IdsOf(conf) \subseteq Slot
  <2>1. \A j \in 1 .. Len(conf) : conf[j].id \in Slot \cup {NoId} BY <1>5, FileFacts
  <2> QED BY <2>1 DEF IdsOf
<1>8. Typed' BY <1>1, <1>4, <1>7 DEF Typed, network
<1>9. \A i \in Slot : ~ Has(conf, 1, i)' /\ ~ HasOld(i) /\ ~ HasOld(i)'
      BY <1>1, <1>4, NoIdIsNone DEF Has, HasOld
<1>10. Owned' BY <1>1, <1>6, <1>9 DEF Owned, network
<1>11. Fits'
  <2>1. OwnIds(conf, 1)' BY <1>4 DEF OwnIds
  <2> QED BY <1>1, <1>4, <2>1 DEF Fits
<1>12. Counted' BY <1>1 DEF Counted
<1>13. Grouped' BY <1>1 DEF Grouped, network
<1> QED BY <1>8, <1>10, <1>11, <1>12, <1>13

\* A good file: the links that are open are those of the old configuration.
LEMMA Replaced ==
    ASSUME LinkInv, NEW es \in Lists(MaxEntries), LoadLinks(es)
    PROVE  LinkInv'
<1> USE DEF LinkInv
<1>1. /\ pc = "load" /\ pc' = "diff" /\ whole' = "yes" /\ k' = 1
      /\ old' = conf /\ conf' = Loaded(es)
      /\ sig2id' = PlacesOf(es) /\ groups' = NoGroups
      /\ UNCHANGED <<network, orphans>>
      BY DEF LoadLinks
<1>2. MaxEntries \in Nat /\ 1 <= MaxEntries BY ReloadAssumption
<1>3. /\ conf' \in Files /\ Len(conf') = Len(es)
      /\ \A j \in 1 .. Len(conf') : conf'[j].id = NoId /\ conf'[j].sig = es[j].sig
      BY <1>1, <1>2, LoadedIs
<1>4. conf \in Files /\ Len(es) \in Nat /\ Len(es) <= MaxEntries BY <1>3, FileFacts DEF Typed
<1>5. ASSUME NEW s \in Sigs
      PROVE  /\ sig2id'[s] \subseteq 1 .. MaxEntries /\ sig2id'[s] = Placed(conf', s)
             /\ Before(conf, 1, s) = {}
  <2>1. sig2id'[s] = {j \in 1 .. Len(es) : es[j].sig = s} BY <1>1 DEF PlacesOf
  <2>2. sig2id'[s] = Placed(conf', s) BY <1>3, <2>1 DEF Placed
  <2>3. Before(conf, 1, s) = {} BY DEF Before
  <2> QED BY <1>2, <1>4, <2>1, <2>2, <2>3
<1>6. Typed'
  <2>1. sig2id' \in [Sigs -> SUBSET (1 .. MaxEntries)] BY <1>1, <1>5 DEF PlacesOf
  <2> QED BY <1>1, <1>2, <1>3, <1>4, <2>1, NoGroupsEmpty DEF Typed, network
<1>7. \A i \in Slot : ~ Has(conf, 1, i)' BY <1>3, NoIdIsNone DEF Has
<1>8. \A i \in Slot : ~ HasOld(i) /\ (HasOld(i)' <=> Has(conf, 1, i)) BY <1>1 DEF HasOld, Has
<1>9. Owned' BY <1>1, <1>7, <1>8 DEF Owned, network
<1>10. Fits'
  <2>1. OwnIds(conf, 1)' BY <1>3 DEF OwnIds
  <2>2. OwnIds(old, k)' BY <1>1 DEF OwnIds, Fits
  <2>3. ASSUME NEW j \in 1 .. Len(conf), conf[j].id # NoId PROVE Alike(old[j])'
    <3>1. Alike(conf[j]) BY <2>3 DEF Fits
    <3> QED BY <1>1, <3>1 DEF Alike, network
  <2> QED BY <1>1, <1>3, <2>1, <2>2, <2>3 DEF Fits
<1>11. Counted'
  <2> SUFFICES ASSUME NEW s \in Sigs
               PROVE  /\ \A j \in sig2id'[s] : j \in Placed(conf', s) /\ conf'[j].id = NoId
                      /\ Cardinality(Placed(conf', s))
                            <= Cardinality(sig2id'[s]) + Cardinality(Before(old', k', s))
      BY DEF Counted
  <2>1. sig2id'[s] = Placed(conf', s) /\ Before(old', k', s) = {} BY <1>1, <1>5
  <2>2. \A j \in Placed(conf', s) : conf'[j].id = NoId BY <1>3 DEF Placed
  <2>3. IsFiniteSet(Placed(conf', s)) /\ Cardinality(Placed(conf', s)) \in Nat
    <3>1. IsFiniteSet(1 .. MaxEntries) BY <1>2, FS_Interval
    <3>2. Placed(conf', s) \in SUBSET (1 .. MaxEntries) BY <1>5
    <3> QED BY <3>1, <3>2, FS_Subset, FS_CardinalityType
  <2>4. Cardinality({}) = 0 BY FS_EmptySet
  <2> QED BY <2>1, <2>2, <2>3, <2>4
<1>12. Grouped' BY <1>1, NoGroupsEmpty DEF Grouped
<1> QED BY <1>6, <1>9, <1>10, <1>11, <1>12

\* One more of the old entries has been looked at.
LEMMA OldSeen ==
    ASSUME NEW c \in Files, NEW n \in 1 .. Len(c), OwnIds(c, n)
    PROVE  /\ OwnIds(c, n + 1)
           /\ \A i \in Slot : Has(c, n, i) <=> Has(c, n + 1, i) \/ c[n].id = i
           /\ c[n].id \in Slot => ~ Has(c, n + 1, c[n].id)
           /\ \A s \in Sigs :
                /\ IsFiniteSet(Before(c, n, s)) /\ Cardinality(Before(c, n, s)) \in Nat
                /\ s # c[n].sig => Before(c, n + 1, s) = Before(c, n, s)
                /\ s = c[n].sig =>
                    Cardinality(Before(c, n + 1, s)) = Cardinality(Before(c, n, s)) + 1
<1>1. Len(c) \in Nat /\ n \in Nat BY FileFacts
<1>2. \A j \in n .. Len(c) : j = n \/ j \in n + 1 .. Len(c) BY <1>1
<1>3. n \in n .. Len(c) /\ \A j \in n + 1 .. Len(c) : j \in n .. Len(c) /\ j # n BY <1>1
<1>4. OwnIds(c, n + 1) BY <1>3 DEF OwnIds
<1>5. \A i \in Slot : Has(c, n, i) <=> Has(c, n + 1, i) \/ c[n].id = i BY <1>2, <1>3 DEF Has
<1>6. c[n].id \in Slot => ~ Has(c, n + 1, c[n].id) BY <1>3, NoIdIsNone DEF OwnIds, Has
<1>7. ASSUME NEW s \in Sigs
      PROVE  /\ IsFiniteSet(Before(c, n, s)) /\ Cardinality(Before(c, n, s)) \in Nat
             /\ s # c[n].sig => Before(c, n + 1, s) = Before(c, n, s)
             /\ s = c[n].sig =>
                    Cardinality(Before(c, n + 1, s)) = Cardinality(Before(c, n, s)) + 1
  <2>1. IsFiniteSet(1 .. Len(c)) BY <1>1, FS_Interval
  <2>2. Before(c, n, s) \in SUBSET (1 .. Len(c)) BY DEF Before
  <2>3. IsFiniteSet(Before(c, n, s)) /\ Cardinality(Before(c, n, s)) \in Nat
        BY <2>1, <2>2, FS_Subset, FS_CardinalityType
  <2>4. \A j \in 1 .. Len(c) : j < n + 1 <=> j < n \/ j = n BY <1>1
  <2>5. s # c[n].sig => Before(c, n + 1, s) = Before(c, n, s) BY <2>4 DEF Before
  <2>6. s = c[n].sig => Before(c, n + 1, s) = Before(c, n, s) \cup {n} BY <2>4 DEF Before
  <2>7. n \notin Before(c, n, s) BY <1>1 DEF Before
  <2> QED BY <2>3, <2>5, <2>6, <2>7, FS_AddElement
<1> QED BY <1>4, <1>5, <1>6, <1>7

\* Matching: the slot goes from the old entry to the new one.
LEMMA Matched ==
    ASSUME LinkInv, MatchOld
    PROVE  LinkInv'
<1> USE DEF LinkInv
<1>1. PICK s \in Sigs : s = old[k].sig
  <2>1. old \in Files /\ k \in 1 .. MaxEntries + 1 /\ k <= Len(old) BY DEF Typed, MatchOld
  <2>2. k \in 1 .. Len(old) BY <2>1, FileFacts, ReloadAssumption
  <2> QED BY <2>1, <2>2, FileFacts
<1>2. PICK p : p = Back(sig2id[s]) OBVIOUS
<1>3. /\ pc = "diff" /\ k <= Len(old) /\ sig2id[s] # {}
      /\ conf' = Given(conf, p, old[k].id)
      /\ sig2id' = [sig2id EXCEPT ![s] = sig2id[s] \ {p}]
      /\ k' = k + 1
      /\ UNCHANGED <<network, old, groups, orphans, whole, pc>>
      BY <1>1, <1>2 DEF MatchOld, Given
<1>4. /\ conf \in Files /\ old \in Files /\ slot \in [Slot -> Uses] /\ k \in 1 .. MaxEntries + 1
      /\ sig2id \in [Sigs -> SUBSET (1 .. MaxEntries)]
      BY DEF Typed
<1>5. /\ Len(conf) \in Nat /\ Len(old) \in Nat /\ Len(old) <= MaxEntries
      /\ k \in 1 .. Len(old) /\ MaxEntries \in Nat
      BY <1>3, <1>4, FileFacts, ReloadAssumption
<1>6. PICK n \in 1 .. Len(old) : n = k BY <1>5
<1>7. p \in sig2id[s] BY <1>2, <1>3, <1>4, BackIsOne
<1>8. p \in 1 .. Len(conf) /\ conf[p].sig = s /\ conf[p].id = NoId
      BY <1>3, <1>7 DEF Counted, Placed
<1>9. PICK x \in Slot \cup {NoId} : x = old[n].id BY <1>4, FileFacts
<1>10. /\ conf' \in Files /\ Len(conf') = Len(conf)
       /\ \A h \in 1 .. Len(conf) :
            /\ conf'[h].sig = conf[h].sig /\ conf'[h].group = conf[h].group
            /\ conf'[h].opt = conf[h].opt
            /\ h # p => conf'[h].id = conf[h].id
       /\ conf'[p].id = x
       BY <1>3, <1>4, <1>6, <1>8, <1>9, GivenId
<1>11. /\ OwnIds(old, n) /\ \A j \in n .. Len(old) : old[j].id # NoId => Alike(old[j])
       BY <1>3, <1>6 DEF Fits
<1>12. /\ OwnIds(old, n + 1)
       /\ \A i \in Slot : Has(old, n, i) <=> Has(old, n + 1, i) \/ x = i
       /\ x \in Slot => ~ Has(old, n + 1, x)
       /\ \A t \in Sigs :
            /\ IsFiniteSet(Before(old, n, t)) /\ Cardinality(Before(old, n, t)) \in Nat
            /\ t # s => Before(old, n + 1, t) = Before(old, n, t)
            /\ t = s => Cardinality(Before(old, n + 1, t)) = Cardinality(Before(old, n, t)) + 1
  <2>1. old[n].sig = s /\ old[n].id = x BY <1>1, <1>6, <1>9
  <2> QED BY <1>4, <1>11, <2>1, OldSeen
<1>13. k' = n + 1 /\ old' = old /\ k' \in 1 .. MaxEntries + 1 BY <1>3, <1>5, <1>6
<1>14. \A t \in Sigs : sig2id'[t] = IF t = s THEN sig2id[s] \ {p} ELSE sig2id[t] BY <1>3, <1>4
<1>15. Typed'
  <2>1. sig2id' \in [Sigs -> SUBSET (1 .. MaxEntries)] BY <1>3, <1>4
  <2> QED BY <1>3, <1>10, <1>13, <2>1 DEF Typed, network
<1>16. \A i \in Slot : Has(conf, 1, i)' <=> Has(conf, 1, i) \/ x = i
  <2> SUFFICES ASSUME NEW i \in Slot PROVE Has(conf', 1, i) <=> Has(conf, 1, i) \/ x = i
      BY DEF Has
  <2>1. conf[p].id # i BY <1>8, NoIdIsNone
  <2>2. x = i => Has(conf', 1, i) BY <1>8, <1>10 DEF Has
  <2>3. \A h \in 1 .. Len(conf) : h # p => (conf'[h].id = i <=> conf[h].id = i) BY <1>10
  <2>4. Has(conf, 1, i) => Has(conf', 1, i) BY <1>10, <2>1, <2>3 DEF Has
  <2>5. Has(conf', 1, i) => Has(conf, 1, i) \/ x = i BY <1>10, <2>3 DEF Has
  <2> QED BY <2>2, <2>4, <2>5
<1>17. \A i \in Slot : /\ HasOld(i) <=> Has(old, n, i)
                       /\ HasOld(i)' <=> Has(old, n + 1, i)
       BY <1>3, <1>6, <1>13 DEF HasOld, Has
<1>18. Owned'
  <2> SUFFICES ASSUME NEW i \in Slot
               PROVE  /\ slot[i].for = "conf" <=> Has(conf, 1, i)' \/ HasOld(i)' \/ i \in orphans
                      /\ ~ (Has(conf, 1, i)' /\ HasOld(i)')
                      /\ i \in orphans => ~ Has(conf, 1, i)' /\ ~ HasOld(i)'
      BY <1>3 DEF Owned, network
  <2>1. /\ slot[i].for = "conf" <=> Has(conf, 1, i) \/ HasOld(i) \/ i \in orphans
        /\ ~ (Has(conf, 1, i) /\ HasOld(i))
        /\ i \in orphans => ~ Has(conf, 1, i) /\ ~ HasOld(i)
        BY DEF Owned
  <2> QED BY <1>12, <1>16, <1>17, <2>1
<1>19. x # NoId => ~ Has(conf, 1, x)
  <2>1. ASSUME x # NoId PROVE HasOld(x) BY <1>12, <1>17, <2>1
  <2> QED BY <2>1 DEF Owned
<1>20. Fits'
  <2>1. \A j \in 1 .. Len(conf) : j # p => conf[j].id # x \/ x = NoId BY <1>19 DEF Has
  <2>2. OwnIds(conf, 1)' BY <1>8, <1>10, <2>1 DEF Fits, OwnIds
  <2>3. ASSUME NEW j \in 1 .. Len(conf), conf'[j].id # NoId
        PROVE  Alike(conf[j])'
    <3>1. CASE j = p
      <4>1. Alike(old[n]) /\ old[n].id = x /\ old[n].sig = s
            BY <1>1, <1>5, <1>6, <1>9, <1>10, <1>11, <2>3, <3>1
      <4>2. conf'[j].id = x /\ conf'[j].sig = s BY <1>8, <1>10, <3>1
      <4> QED BY <1>3, <4>1, <4>2 DEF Alike, network
    <3>2. CASE j # p
      <4>1. Alike(conf[j]) BY <1>10, <2>3, <3>2 DEF Fits
      <4> QED BY <1>3, <1>10, <3>2, <4>1 DEF Alike, network
    <3> QED BY <3>1, <3>2
  <2>4. OwnIds(old, k)' BY <1>12, <1>13 DEF OwnIds
  <2>5. ASSUME NEW j \in n + 1 .. Len(old), old[j].id # NoId PROVE Alike(old[j])'
    <3>1. j \in n .. Len(old) BY <1>5, <1>6
    <3>2. Alike(old[j]) BY <1>11, <2>5, <3>1
    <3> QED BY <1>3, <3>2 DEF Alike, network
  <2> QED BY <1>3, <1>10, <1>13, <2>2, <2>3, <2>4, <2>5 DEF Fits
<1>21. \A t \in Sigs : Placed(conf', t) = Placed(conf, t) BY <1>10 DEF Placed
<1>22. Counted'
  <2> SUFFICES ASSUME NEW t \in Sigs
               PROVE  /\ \A j \in sig2id'[t] : j \in Placed(conf', t) /\ conf'[j].id = NoId
                      /\ Cardinality(Placed(conf', t))
                            <= Cardinality(sig2id'[t]) + Cardinality(Before(old', k', t))
      BY DEF Counted
  <2>1. /\ \A j \in sig2id[t] : j \in Placed(conf, t) /\ conf[j].id = NoId
        /\ Cardinality(Placed(conf, t)) <= Cardinality(sig2id[t]) + Cardinality(Before(old, n, t))
        BY <1>3, <1>6 DEF Counted
  <2>2. ASSUME NEW j \in sig2id'[t] PROVE j \in Placed(conf', t) /\ conf'[j].id = NoId
    <3>1. j \in sig2id[t] /\ (t = s => j # p) BY <1>14
    <3>2. j \in 1 .. Len(conf) /\ conf[j].sig = t BY <2>1, <3>1 DEF Placed
    <3>3. j # p BY <1>8, <3>1, <3>2
    <3> QED BY <1>10, <1>21, <2>1, <3>1, <3>2, <3>3
  <2>3. IsFiniteSet(sig2id[t]) /\ Cardinality(sig2id[t]) \in Nat
    <3>1. IsFiniteSet(1 .. MaxEntries) BY <1>5, FS_Interval
    <3>2. sig2id[t] \in SUBSET (1 .. MaxEntries) BY <1>4
    <3> QED BY <3>1, <3>2, FS_Subset, FS_CardinalityType
  <2>4. CASE t = s
    <3>1. Cardinality(sig2id'[t]) = Cardinality(sig2id[t]) - 1
          BY <1>7, <1>14, <2>3, <2>4, FS_RemoveElement
    <3>2. Cardinality(Before(old', k', t)) = Cardinality(Before(old, n, t)) + 1
          /\ Cardinality(Before(old, n, t)) \in Nat
          BY <1>12, <1>13, <2>4
    <3>3. Cardinality(sig2id'[t]) + Cardinality(Before(old', k', t))
            = Cardinality(sig2id[t]) + Cardinality(Before(old, n, t))
          BY <2>3, <3>1, <3>2
    <3> QED BY <1>21, <2>1, <2>2, <3>3
  <2>5. CASE t # s
    <3>1. sig2id'[t] = sig2id[t] /\ Before(old', k', t) = Before(old, n, t)
          BY <1>12, <1>13, <1>14, <2>5
    <3> QED BY <1>21, <2>1, <2>2, <3>1
  <2> QED BY <2>4, <2>5
<1>23. Grouped'
  <2>1. groups = NoGroups /\ whole = "yes" BY <1>3 DEF Grouped
  <2> QED BY <1>3, <2>1, NoGroupsEmpty DEF Grouped
<1> QED BY <1>15, <1>18, <1>20, <1>22, <1>23

\* Closing: the slot of an old entry that the new configuration lacks is free.
LEMMA Closed ==
    ASSUME LinkInv, CloseOld
    PROVE  /\ LinkInv'
           /\ \A i \in Slot : slot[i].for = "conf" /\ slot'[i] = Unused =>
                pc = "diff" /\ Entries(conf, slot[i].sig) < Entries(old, slot[i].sig)
<1> USE DEF LinkInv
<1>1. /\ pc = "diff" /\ k <= Len(old) /\ sig2id[old[k].sig] = {}
      /\ IF old[k].id = NoId THEN UNCHANGED network
         ELSE /\ slot' = [slot EXCEPT ![old[k].id] = Unused]
              /\ free' = Append(free, old[k].id)
      /\ k' = k + 1
      /\ UNCHANGED <<config, pc>>
      BY DEF CloseOld
<1>2. /\ conf \in Files /\ old \in Files /\ slot \in [Slot -> Uses] /\ k \in 1 .. MaxEntries + 1
      /\ free \in Seq(Slot) /\ Distinct(free)
      /\ \A i \in Slot : i \in Members(free) <=> slot[i] = Unused
      BY DEF Typed
<1>3. /\ Len(conf) \in Nat /\ Len(old) \in Nat /\ Len(old) <= MaxEntries
      /\ k \in 1 .. Len(old) /\ MaxEntries \in Nat
      BY <1>1, <1>2, FileFacts, ReloadAssumption
<1>4. PICK n \in 1 .. Len(old) : n = k BY <1>3
<1>5. PICK x \in Slot \cup {NoId} : x = old[n].id BY <1>2, FileFacts
<1>6. PICK s \in Sigs : s = old[n].sig BY <1>2, FileFacts
<1>7. UNCHANGED <<conf, old, sig2id, groups, orphans, whole, pc>> BY <1>1 DEF config
<1>8. /\ OwnIds(old, n) /\ \A j \in n .. Len(old) : old[j].id # NoId => Alike(old[j])
      BY <1>1, <1>4 DEF Fits
<1>9. /\ OwnIds(old, n + 1)
      /\ \A i \in Slot : Has(old, n, i) <=> Has(old, n + 1, i) \/ x = i
      /\ x \in Slot => ~ Has(old, n + 1, x)
      /\ \A t \in Sigs :
            /\ IsFiniteSet(Before(old, n, t)) /\ Cardinality(Before(old, n, t)) \in Nat
            /\ t # s => Before(old, n + 1, t) = Before(old, n, t)
            /\ t = s => Cardinality(Before(old, n + 1, t)) = Cardinality(Before(old, n, t)) + 1
      BY <1>2, <1>5, <1>6, <1>8, OldSeen
<1>10. k' = n + 1 /\ k' \in 1 .. MaxEntries + 1 BY <1>1, <1>3, <1>4
<1>11. x = NoId => slot' = slot /\ free' = free BY <1>1, <1>4, <1>5 DEF network
<1>12. ASSUME x # NoId
       PROVE  /\ slot' = [slot EXCEPT ![x] = Unused] /\ free' = Append(free, x)
              /\ x \in Slot /\ slot[x].for = "conf" /\ slot[x].sig = s
  <2>1. slot' = [slot EXCEPT ![x] = Unused] /\ free' = Append(free, x) BY <1>1, <1>4, <1>5, <1>12
  <2>2. n \in n .. Len(old) BY <1>3
  <2>3. Alike(old[n]) BY <1>5, <1>8, <1>12, <2>2
  <2> QED BY <1>5, <1>6, <1>12, <2>1, <2>3, UseFacts DEF Alike
<1>13. /\ slot' \in [Slot -> Uses]
       /\ \A i \in Slot : i # x => slot'[i] = slot[i]
       /\ x # NoId => slot'[x] = Unused
  <2>1. Unused \in Uses BY DEF Uses
  <2> QED BY <1>2, <1>11, <1>12, <2>1
<1>14. /\ free' \in Seq(Slot) /\ Distinct(free')
       /\ \A i \in Slot : i \in Members(free') <=> slot'[i] = Unused
  <2>1. CASE x = NoId BY <1>2, <1>11, <2>1
  <2>2. CASE x # NoId
    <3>1. x \notin Members(free) BY <1>2, <1>12, <2>2, UseFacts
    <3>2. x \in Slot /\ free' = Append(free, x) BY <1>12, <2>2
    <3>3. free' \in Seq(Slot) /\ Distinct(free') /\ Members(free') = Members(free) \cup {x}
          BY <1>2, <3>1, <3>2, AppendNew
    <3> QED BY <1>2, <1>13, <2>2, <3>3
  <2> QED BY <2>1, <2>2
<1>15. Typed' BY <1>7, <1>10, <1>13, <1>14 DEF Typed
<1>16. \A i \in Slot : /\ HasOld(i) <=> Has(old, n, i)
                       /\ HasOld(i)' <=> Has(old, n + 1, i)
                       /\ Has(conf, 1, i)' <=> Has(conf, 1, i)
       BY <1>1, <1>4, <1>7, <1>10 DEF HasOld, Has
<1>17. x # NoId => HasOld(x) /\ ~ Has(conf, 1, x) /\ x \notin orphans
  <2>1. x # NoId => x \in Slot /\ HasOld(x) BY <1>9, <1>16
  <2> QED BY <2>1 DEF Owned
<1>18. Owned'
  <2> SUFFICES ASSUME NEW i \in Slot
               PROVE  /\ slot'[i].for = "conf" <=> Has(conf, 1, i)' \/ HasOld(i)' \/ i \in orphans
                      /\ ~ (Has(conf, 1, i)' /\ HasOld(i)')
                      /\ i \in orphans => ~ Has(conf, 1, i)' /\ ~ HasOld(i)'
      BY <1>7 DEF Owned
  <2>1. /\ slot[i].for = "conf" <=> Has(conf, 1, i) \/ HasOld(i) \/ i \in orphans
        /\ ~ (Has(conf, 1, i) /\ HasOld(i))
        /\ i \in orphans => ~ Has(conf, 1, i) /\ ~ HasOld(i)
        BY DEF Owned
  <2>2. CASE i = x
    <3>1. x # NoId BY <2>2, NoIdIsNone
    <3>2. slot'[i].for # "conf" /\ ~ HasOld(i)' /\ ~ Has(conf, 1, i)' /\ i \notin orphans
          BY <1>9, <1>13, <1>16, <1>17, <2>2, <3>1, UseFacts
    <3> QED BY <3>2
  <2>3. CASE i # x BY <1>9, <1>13, <1>16, <2>1, <2>3
  <2> QED BY <2>2, <2>3
<1>19. Fits'
  <2>1. OwnIds(conf, 1)' BY <1>7 DEF Fits, OwnIds
  <2>2. ASSUME NEW j \in 1 .. Len(conf), conf[j].id # NoId PROVE Alike(conf[j])'
    <3>1. conf[j].id \in Slot BY <1>2, <2>2, FileFacts
    <3>2. conf[j].id # x BY <1>17, <2>2 DEF Has
    <3>3. Alike(conf[j]) BY <2>2 DEF Fits
    <3> QED BY <1>7, <1>13, <3>1, <3>2, <3>3 DEF Alike
  <2>3. OwnIds(old, k)' BY <1>7, <1>9, <1>10 DEF OwnIds
  <2>4. ASSUME NEW j \in n + 1 .. Len(old), old[j].id # NoId PROVE Alike(old[j])'
    <3>1. j \in n .. Len(old) /\ j \in 1 .. Len(old) /\ j # n BY <1>3, <1>4
    <3>2. old[j].id \in Slot BY <1>2, <2>4, <3>1, FileFacts
    <3>3. old[j].id # x BY <1>9, <2>4, <3>2 DEF Has
    <3>4. Alike(old[j]) BY <1>8, <2>4, <3>1
    <3> QED BY <1>7, <1>13, <3>2, <3>3, <3>4 DEF Alike
  <2> QED BY <1>1, <1>7, <1>10, <2>1, <2>2, <2>3, <2>4 DEF Fits
<1>20. ASSUME NEW t \in Sigs
       PROVE  /\ \A j \in sig2id[t] : j \in Placed(conf, t) /\ conf[j].id = NoId
              /\ Cardinality(Placed(conf, t)) <= Cardinality(sig2id[t]) + Cardinality(Before(old, n, t))
              /\ Cardinality(Placed(conf, t)) \in Nat /\ Cardinality(sig2id[t]) \in Nat
  <2>1. IsFiniteSet(1 .. Len(conf)) /\ IsFiniteSet(1 .. MaxEntries) BY <1>3, FS_Interval
  <2>2. Placed(conf, t) \in SUBSET (1 .. Len(conf)) BY DEF Placed
  <2>3. sig2id[t] \in SUBSET (1 .. MaxEntries) BY DEF Typed
  <2>4. Cardinality(Placed(conf, t)) \in Nat /\ Cardinality(sig2id[t]) \in Nat
        BY <2>1, <2>2, <2>3, FS_Subset, FS_CardinalityType
  <2> QED BY <1>1, <1>4, <2>4 DEF Counted
<1>21. Counted'
  <2> SUFFICES ASSUME NEW t \in Sigs
               PROVE  Cardinality(Placed(conf, t))
                        <= Cardinality(sig2id[t]) + Cardinality(Before(old, n + 1, t))
      BY <1>7, <1>10, <1>20 DEF Counted
  <2>1. Cardinality(Before(old, n, t)) \in Nat BY <1>9
  <2>2. CASE t = s
    <3>1. Cardinality(Before(old, n + 1, t)) = Cardinality(Before(old, n, t)) + 1 BY <1>9, <2>2
    <3> QED BY <1>20, <2>1, <3>1
  <2>3. CASE t # s BY <1>9, <1>20, <2>3
  <2> QED BY <2>2, <2>3
<1>22. Grouped'
  <2>1. groups = NoGroups /\ whole = "yes" BY <1>1 DEF Grouped
  <2> QED BY <1>1, <1>7, <2>1, NoGroupsEmpty DEF Grouped
<1>23. ASSUME NEW i \in Slot, slot[i].for = "conf", slot'[i] = Unused
       PROVE  pc = "diff" /\ Entries(conf, slot[i].sig) < Entries(old, slot[i].sig)
  <2>1. i = x BY <1>13, <1>23, UseFacts
  <2>2. x # NoId /\ slot[i].sig = s BY <1>12, <2>1, NoIdIsNone
  <2>3. Cardinality(sig2id[s]) = 0 BY <1>1, <1>4, <1>6, FS_EmptySet
  <2>4. Cardinality(Placed(conf, s)) <= Cardinality(Before(old, n, s))
        BY <1>9, <1>20, <2>3
  <2>5. Cardinality(Before(old, n + 1, s)) = Cardinality(Before(old, n, s)) + 1 BY <1>9
  <2>6. Cardinality(Before(old, n + 1, s)) <= Cardinality(Placed(old, s))
    <3>1. IsFiniteSet(1 .. Len(old)) BY <1>3, FS_Interval
    <3>2. Placed(old, s) \in SUBSET (1 .. Len(old)) BY DEF Placed
    <3>3. Before(old, n + 1, s) \in SUBSET Placed(old, s) BY DEF Before, Placed
    <3>4. IsFiniteSet(Placed(old, s)) BY <3>1, <3>2, FS_Subset
    <3> QED BY <3>3, <3>4, FS_Subset
  <2>7. Cardinality(Placed(old, s)) \in Nat
    <3>1. IsFiniteSet(1 .. Len(old)) BY <1>3, FS_Interval
    <3>2. Placed(old, s) \in SUBSET (1 .. Len(old)) BY DEF Placed
    <3> QED BY <3>1, <3>2, FS_Subset, FS_CardinalityType
  <2>8. /\ Cardinality(Before(old, n, s)) \in Nat /\ Cardinality(Placed(conf, s)) \in Nat
        BY <1>9, <1>20
  <2>9. Cardinality(Placed(conf, s)) < Cardinality(Placed(old, s))
        BY <2>4, <2>5, <2>6, <2>7, <2>8
  <2> QED BY <1>1, <2>2, <2>9 DEF Entries, Placed
<1> QED BY <1>15, <1>18, <1>19, <1>21, <1>22, <1>23

\* The old configuration has been gone through: what is open is the new one's.
LEMMA Compared ==
    ASSUME LinkInv, OldDone
    PROVE  LinkInv'
<1> USE DEF LinkInv
<1>1. /\ pc = "diff" /\ k > Len(old) /\ pc' = "open" /\ k' = 1
      /\ UNCHANGED <<free, slot, conf, old, sig2id, groups, orphans, whole>>
      BY DEF OldDone, network, config
<1>2. old \in Files /\ k \in 1 .. MaxEntries + 1 /\ conf \in Files BY DEF Typed
<1>3. MaxEntries \in Nat /\ k \in Nat /\ Len(old) \in Nat /\ Len(conf) \in Nat
      BY <1>2, FileFacts, ReloadAssumption
<1>4. Typed'
  <2>1. k' \in 1 .. MaxEntries + 1 BY <1>1, <1>3
  <2> QED BY <1>1, <2>1 DEF Typed
<1>5. \A i \in Slot : ~ HasOld(i) /\ ~ HasOld(i)' BY <1>1, <1>3 DEF HasOld, Has
<1>6. Owned' BY <1>1, <1>5 DEF Owned, Has
<1>7. Fits'
  <2>1. OwnIds(conf, 1)' BY <1>1 DEF Fits, OwnIds
  <2>2. \A j \in 1 .. Len(conf) : conf[j].id # NoId => Alike(conf[j])' BY <1>1 DEF Fits, Alike
  <2> QED BY <1>1, <1>3, <2>1, <2>2 DEF Fits
<1>8. Counted' BY <1>1 DEF Counted
<1>9. Grouped'
  <2>1. groups = NoGroups /\ whole = "yes" BY <1>1 DEF Grouped
  <2>2. \A j \in 1 .. Len(conf) : ~ Joined(j)' BY <1>1 DEF Joined
  <2> QED BY <1>1, <2>1, <2>2, NoGroupsEmpty DEF Grouped
<1> QED BY <1>4, <1>6, <1>7, <1>8, <1>9

\* Every step keeps what is claimed of the links.
LEMMA LinksKept ==
    ASSUME LinkInv, [Next]_vars
    PROVE  LinkInv'
<1>1. /\ old \in Files /\ sig2id \in [Sigs -> SUBSET (1 .. MaxEntries)]
      /\ k \in 1 .. MaxEntries + 1 /\ 1 \in 1 .. MaxEntries + 1
      /\ <<>> \in Files /\ NoSigs \in [Sigs -> SUBSET (1 .. MaxEntries)]
  <2>1. MaxEntries \in Nat /\ 1 <= MaxEntries BY ReloadAssumption
  <2>2. <<>> \in Files BY <2>1, EmptySeq DEF Files
  <2>3. NoSigs \in [Sigs -> SUBSET (1 .. MaxEntries)] BY DEF NoSigs
  <2> QED BY <2>1, <2>2, <2>3 DEF LinkInv, Typed
<1>2. CASE Tick \/ SigHup \/ SigTerm \/ UNCHANGED vars
  <2>1. UNCHANGED <<whole, pc, k, conf, old, sig2id, groups, slot, orphans, free>>
        BY <1>2 DEF Tick, SigHup, SigTerm, vars, network, config
  <2>2. Typed' BY <2>1 DEF LinkInv, Typed
  <2>3. Owned' BY <2>1 DEF LinkInv, Owned, Has, HasOld
  <2>4. Fits' BY <2>1 DEF LinkInv, Fits, OwnIds, Alike, Settled
  <2>5. Counted' BY <2>1 DEF LinkInv, Counted, Placed, Before
  <2>6. Grouped' BY <2>1 DEF LinkInv, Grouped, Joined
  <2> QED BY <2>2, <2>3, <2>4, <2>5, <2>6 DEF LinkInv
<1>3. CASE Accept
  <2>1. /\ pc = "loop" /\ free # <<>> /\ slot' = [slot EXCEPT ![Head(free)] = Accepted]
        /\ free' = Tail(free)
        /\ UNCHANGED <<pc, k, conf, old, sig2id, groups, orphans, whole>>
        BY <1>3 DEF Accept, config
  <2>2. /\ free \in Seq(Slot) /\ Distinct(free) /\ slot \in [Slot -> Uses]
        /\ \A h \in Slot : h \in Members(free) <=> slot[h] = Unused
        BY DEF LinkInv, Typed
  <2>3. /\ free' \in Seq(Slot) /\ Distinct(free') /\ Members(free') = Members(free) \ {Head(free)}
        /\ Head(free) \in Members(free) /\ Head(free) \in Slot
        BY <2>1, <2>2, TailOf
  <2>4. slot[Head(free)].for # "conf" BY <2>2, <2>3, UseFacts
  <2>5. \A h \in Slot : h \in Members(free') <=> slot'[h] = Unused BY <2>1, <2>2, <2>3, UseFacts
  <2>6. pc \in Still /\ Accepted \in {Unused, Accepted} BY <2>1 DEF Still
  <2> QED BY <2>1, <2>3, <2>4, <2>5, <2>6, Aside
<1>4. ASSUME NEW i \in Slot, Hangup(i) PROVE LinkInv'
  <2>1. /\ pc = "loop" /\ slot[i] = Accepted /\ slot' = [slot EXCEPT ![i] = Unused]
        /\ free' = Append(free, i)
        /\ UNCHANGED <<pc, k, conf, old, sig2id, groups, orphans, whole>>
        BY <1>4 DEF Hangup, config
  <2>2. /\ free \in Seq(Slot) /\ Distinct(free) /\ slot \in [Slot -> Uses]
        /\ \A h \in Slot : h \in Members(free) <=> slot[h] = Unused
        BY DEF LinkInv, Typed
  <2>3. i \notin Members(free) /\ slot[i].for # "conf" BY <2>1, <2>2, UseFacts
  <2>4. free' \in Seq(Slot) /\ Distinct(free') /\ Members(free') = Members(free) \cup {i}
        BY <2>1, <2>2, <2>3, AppendNew
  <2>5. \A h \in Slot : h \in Members(free') <=> slot'[h] = Unused BY <2>1, <2>2, <2>4
  <2>6. pc \in Still /\ Unused \in {Unused, Accepted} BY <2>1 DEF Still
  <2> QED BY <2>1, <2>3, <2>4, <2>5, <2>6, Aside
<1>5. CASE Stop \/ StartReload \/ LoadRuntime \/ LoadMissing \/ OpenDone \/ WalkDone
  <2>1. UNCHANGED <<conf, old, sig2id, groups, free, slot, orphans, whole>>
        BY <1>5 DEF Stop, StartReload, LoadRuntime, LoadMissing, OpenDone, WalkDone, network, config
  <2>2. pc # "diff" /\ (pc \in {"walk", "open"} => k > Len(conf)) /\ pc' \in Still
        BY <1>5 DEF Stop, StartReload, LoadRuntime, LoadMissing, OpenDone, WalkDone, Still
  <2>3. k' \in 1 .. MaxEntries + 1
        BY <1>1, <1>5 DEF Stop, StartReload, LoadRuntime, LoadMissing, OpenDone, WalkDone
  <2> QED BY <1>1, <2>1, <2>2, <2>3, Onward
<1>6. CASE ReloadDone
  <2>1. /\ pc = "done" /\ pc' = "loop" /\ old' = <<>> /\ sig2id' = NoSigs
        /\ UNCHANGED <<conf, groups, free, slot, orphans, whole, k>>
        BY <1>6 DEF ReloadDone, network
  <2>2. pc' \in Still BY <2>1 DEF Still
  <2> QED BY <1>1, <2>1, <2>2, Onward
<1>7. CASE LoadBad BY <1>7, Forgotten
<1>8. ASSUME NEW es \in Lists(MaxEntries), LoadLinks(es) PROVE LinkInv' BY <1>8, Replaced
<1>9. CASE MatchOld BY <1>9, Matched
<1>10. CASE CloseOld BY <1>10, Closed
<1>11. CASE OldDone BY <1>11, Compared
<1>12. CASE UpdateKept BY <1>12, Updated
<1>13. CASE OpenNew
  <2>1. pc = "open" /\ Open(0) /\ UNCHANGED pc /\ 0 \in Nat BY <1>13 DEF OpenNew, Open
  <2> QED BY <2>1, Opened
<1>14. CASE WalkOpen
  <2>1. pc = "walk" /\ Open(1) /\ UNCHANGED pc /\ 1 \in Nat BY <1>14 DEF WalkOpen, Open
  <2> QED BY <2>1, Opened
<1> QED BY <1>2, <1>3, <1>4, <1>5, <1>6, <1>7, <1>8, <1>9, <1>10, <1>11, <1>12, <1>13, <1>14
        DEF Next, Main

\* Slots, lists and configuration fit each other throughout.
THEOREM LinkInvariance == Spec => []LinkInv
BY LinksAtStart, LinksKept, PTL DEF Spec

-----------------------------------------------------------------------------
(* What the runs check *)

\* After a load and all it brings, the links that are open are exactly those of the
\* configuration and those a bad file made the program forget; the former have each
\* its own slot and are as their entries say, save for the sizes of the socket's
\* buffers where these could not be set; the free list holds each unused slot once.
THEOREM ReloadTheorem == Spec => []ReloadInv
<1>1. Seconds /\ LinkInv => ReloadInv
  <2> SUFFICES ASSUME Seconds, LinkInv PROVE ReloadInv OBVIOUS
  <2> USE DEF LinkInv
  <2>1. conf \in Files /\ old \in Files /\ free \in Seq(Slot) /\ Distinct(free) BY DEF Typed
  <2>2. Members(free) = {i \in Slot : slot[i] = Unused} /\ Len(free) = Cardinality(Members(free))
    <3>1. Members(free) \subseteq Slot BY <2>1, MembersEmpty
    <3>2. Len(free) = Cardinality(Members(free)) BY <2>1, LenIsCount
    <3> QED BY <3>1, <3>2 DEF Typed
  <2>3. /\ \A j \in 1 .. Len(conf) : conf[j].id \in Slot \cup {NoId}
        /\ \A j \in 1 .. Len(old) : old[j].id \in Slot \cup {NoId}
        BY <2>1, FileFacts
  <2>4. TypeOK BY <2>2, <2>3 DEF TypeOK, Typed, Seconds
  <2>5. ASSUME pc \in {"loop", "stopped"}
        PROVE  /\ OfConfig = IdsOf(conf) \cup orphans
               /\ IdsOf(conf) \cap orphans = {}
               /\ \A j \in 1 .. Len(conf) : conf[j].id # NoId =>
                    /\ AsTold(slot[conf[j].id], conf[j])
                    /\ \A h \in 1 .. Len(conf) : h # j => conf[h].id # conf[j].id
    <3>1. \A i \in Slot : i \in IdsOf(conf) <=> Has(conf, 1, i) BY NoIdIsNone DEF IdsOf, Has
    <3>2. IdsOf(conf) \subseteq Slot BY <2>3 DEF IdsOf
    <3>3. \A i \in Slot : ~ HasOld(i) BY <2>5 DEF HasOld
    <3>4. orphans \subseteq Slot BY DEF Typed
    <3>5. \A i \in Slot : slot[i].for = "conf" <=> i \in IdsOf(conf) \cup orphans
          BY <3>1, <3>3 DEF Owned
    <3>6. OfConfig = IdsOf(conf) \cup orphans BY <3>2, <3>4, <3>5 DEF OfConfig
    <3>7. IdsOf(conf) \cap orphans = {} BY <3>1, <3>4 DEF Owned
    <3>8. ASSUME NEW j \in 1 .. Len(conf), conf[j].id # NoId
          PROVE  /\ Settled(j)
                 /\ \A h \in 1 .. Len(conf) : h # j => conf[h].id # conf[j].id
          BY <2>5, <3>8 DEF Fits, OwnIds
    <3> QED BY <3>6, <3>7, <3>8 DEF Settled
  <2> QED BY <2>4, <2>5 DEF ReloadInv, LinksAreConfigured
<1>2. Spec => []Seconds BY SecondsKept, PTL DEF Spec
<1> QED BY <1>1, <1>2, LinkInvariance, PTL

\* A group has only links of the configuration or of one that a bad file has
\* replaced; after a load that went well it has all of its own that are open, save
\* for link 0 before the first reload.
THEOREM GroupsTheorem == Spec => []GroupsCurrent
<1>1. LinkInv => GroupsCurrent
  <2> SUFFICES ASSUME LinkInv, pc \in {"loop", "stopped"}, NEW g \in Groups
               PROVE  /\ Members(groups[g]) \subseteq OfConfig
                      /\ whole # "no" =>
                            Members(groups[g]) = {conf[j].id : j \in {h \in 1 .. Len(conf) : conf[h].group = g}}
                                                    \ (IF whole = "first" THEN {NoId, 0} ELSE {NoId})
      BY DEF GroupsCurrent
  <2> USE DEF LinkInv
  <2>1. conf \in Files /\ groups[g] \in Seq(Slot) BY DEF Typed
  <2>2. Members(groups[g]) \subseteq Slot BY <2>1, MembersEmpty
  <2>3. Members(groups[g]) \subseteq OfConfig BY <2>2 DEF Grouped, OfConfig
  <2>4. ASSUME whole # "no"
        PROVE  Members(groups[g]) = {conf[j].id : j \in {h \in 1 .. Len(conf) : conf[h].group = g}}
                                                    \ (IF whole = "first" THEN {NoId, 0} ELSE {NoId})
    <3> DEFINE ids == {conf[j].id : j \in {h \in 1 .. Len(conf) : conf[h].group = g}}
                        \ (IF whole = "first" THEN {NoId, 0} ELSE {NoId})
    <3>1. \A i : i \in ids <=> \E j \in 1 .. Len(conf) :
                                    /\ conf[j].group = g /\ conf[j].id = i /\ i # NoId
                                    /\ whole = "first" => i # 0
          OBVIOUS
    <3> HIDE DEF ids
    <3>2. \A j \in 1 .. Len(conf) :
            Joined(j) <=> conf[j].id # NoId /\ (whole = "first" => conf[j].id # 0)
          BY DEF Joined
    <3>3. \A i \in Slot : i \in Members(groups[g]) <=> i \in ids
          BY <2>4, <3>1, <3>2 DEF Grouped
    <3>4. ids \subseteq Slot BY <2>1, <3>1, FileFacts
    <3>5. Members(groups[g]) = ids BY <2>2, <3>3, <3>4
    <3> QED BY <3>5 DEF ids
  <2> QED BY <2>3, <2>4
<1> QED BY <1>1, LinkInvariance, PTL

\* A reload closes a link only where the new configuration has fewer links of its
\* signature than the old one.
THEOREM ClosedTheorem == Spec => ClosedOnlyIfGone
<1> DEFINE Spared == \A i \in OfConfig : slot'[i] = Unused =>
                        pc = "diff" /\ Entries(conf, slot[i].sig) < Entries(old, slot[i].sig)
<1>1. ASSUME LinkInv, [Next]_vars PROVE Spared
  <2> SUFFICES ASSUME NEW i \in Slot, slot[i].for = "conf", slot'[i] = Unused
               PROVE  pc = "diff" /\ Entries(conf, slot[i].sig) < Entries(old, slot[i].sig)
      BY DEF OfConfig
  <2>1. CASE CloseOld BY <1>1, <2>1, Closed
  <2>2. slot \in [Slot -> Uses] /\ slot[i] # Unused BY <1>1, UseFacts DEF LinkInv, Typed
  <2>3. CASE Tick \/ SigHup \/ SigTerm \/ UNCHANGED vars
        BY <2>2, <2>3 DEF Tick, SigHup, SigTerm, vars, network
  <2>4. CASE Stop \/ StartReload \/ LoadRuntime \/ LoadMissing \/ LoadBad \/ ReloadDone
                \/ MatchOld \/ OldDone \/ OpenDone \/ WalkDone
                \/ \E es \in Lists(MaxEntries) : LoadLinks(es)
        BY <2>2, <2>4 DEF Stop, StartReload, LoadRuntime, LoadMissing, LoadBad, ReloadDone,
                          MatchOld, OldDone, OpenDone, WalkDone, LoadLinks, network
  <2>5. CASE Accept BY <2>2, <2>5, UseFacts DEF Accept
  <2>6. ASSUME NEW h \in Slot, Hangup(h) PROVE FALSE
    <3>1. h # i BY <2>6, UseFacts DEF Hangup
    <3>2. slot'[i] = slot[i] BY <2>2, <2>6, <3>1 DEF Hangup
    <3> QED BY <2>2, <3>2
  <2>7. CASE OpenNew \/ WalkOpen
    <3>1. PICK least : Open(least) BY <2>7 DEF OpenNew, WalkOpen
    <3>2. slot' = slot \/ \E h, e : slot' = [slot EXCEPT ![h] = Configured(e)]
          BY <3>1 DEF Open, network
    <3>3. \A e : Configured(e) # Unused BY DEF Configured, Unused
    <3> QED BY <2>2, <3>2, <3>3
  <2>8. CASE UpdateKept
    <3>1. PICK v : /\ v \in AfterUpdate(slot[conf[k].id], conf[k])
                   /\ slot' = [slot EXCEPT ![conf[k].id] = v]
          BY <2>8 DEF UpdateKept
    <3>2. slot[i] \in UseFor(slot[i].sig) BY <2>2, UseOfConf
    <3>3. PICK x : x = conf[k].id OBVIOUS
    <3>4. CASE x # i BY <2>2, <3>1, <3>3, <3>4
    <3>5. CASE x = i
      <4>1. v \in AfterUpdate(slot[i], conf[k]) /\ slot'[i] = v BY <2>2, <3>1, <3>3, <3>5
      <4>2. v.for = "conf" BY <3>2, <4>1 DEF AfterUpdate, UseFor
      <4> QED BY <4>1, <4>2, UseFacts
    <3> QED BY <3>4, <3>5
  <2> QED BY <1>1, <2>1, <2>3, <2>4, <2>5, <2>6, <2>7, <2>8 DEF Next, Main
<1> QED BY <1>1, LinkInvariance, PTL DEF Spec, ClosedOnlyIfGone
=============================================================================
