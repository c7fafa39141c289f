# A verification of calypso in TLA+

calypso is a small C++ network server framework for Linux: one *main thread*
owns every socket, multiplexes them with `epoll` and talks to *application
threads* through lock-free byte queues.  This directory holds TLA+ modules
translated from `src/`, configurations that check them with TLC on small
instances, and theorems, for every size, that the TLA+ proof system checks.

Contents: [inventory](#1-inventory) · [modules](#2-modules-and-how-they-correspond-to-the-code)
· [runs](#3-runs-and-bounds) · [fairness](#4-fairness) · [proofs](#5-proofs)
· [what the models show](#6-what-the-models-show-about-the-code)
· [what is not modelled](#7-what-is-not-modelled) · [plan](#8-plan)

## 1. Inventory

How the parts interact: `main()` (`calypso.cpp`) turns a loop with fixed
stages — time, reload, `recover()`, `check_idle_netlink()`, `wait()`,
`process_appthread_msg()`.  `wait()` calls back `on_net_event()`, which receives
data and puts notifications into the application thread's input queue; the
thread's handler puts answers into its output queue, which the last stage of
the loop turns into sends and closes on links.  Everything but the queues and
`th_status_` belongs to the main thread.

| component (files) | state | operations | what is hard | correct when |
|---|---|---|---|---|
| **ring queue** (`ring_queue.*`) | `buffer_`, `read_`, `write_` | `produce`, `produce_reserve/append/finish`, `get_consume_len`, `consume`, `skip_consume`, `clear` | two threads without a lock; one free byte tells full from empty; header and payload cut by the end of the buffer | whole messages, in order, once; never an `abort()`; a reservation holds |
| **linked list** (`linked_list.h`) | `nodes_[].{lid_,prev_,next_}`, `lflag_[].{head_,tail_,num_}` | `move`, `swap`, `move_before`, `move_after`, `walk_list` | aliasing of source, destination, head and tail | every node in exactly one list, both directions and the count agree |
| **network** (`calypso_network.*`) | `link_list_` (free, used, error), `fd2idx_`, the epoll set, `fired_events_` | `create_link`, `close_link`, `shutdown_link`, `recover`, `check_idle_netlink`, `wait`, `accept_link` | failures between steps; events that meet links closed or reused earlier in a batch; walks that change the list they walk | lists, descriptors, map and epoll set agree; failed links are retried, idle slots come back |
| **link** (`netlink.*`) | `fd_`, `status_`, receive and send buffers | `setup`, `configure`, `do_connect`, `do_close`, `recv`, `send`, `set_established` | partial sends; failure after the socket exists | no descriptor leaks; bytes leave whole and in order |
| **application threads** (`calypso.cpp`, `app_interface.*`) | `th_status_`, `in_`, `out_`, message buffers | `_app_thread_main`, `dispatch_msg_to_app`, `process_appthread_msg`, `stop_appthread` | a length read before, and used after, the other thread may have produced; deleting queues | the handler gets whole messages; nothing is used after `delete`; the join returns |
| **main loop** (`calypso.cpp`) | stage, `nowtime_`, message buffer | `main`, `on_net_event`, `reload_config`, `send_by_context/group` | link indices and descriptors that go stale inside a queued message | a message reaches the connection it is meant for, or none |
| **link configuration** (`netlink_config.*`) | `conf_` with a `_link_id` per link, `group2idx_` | `load`, `walk`, `walk_diff` | a reload that fails half way; two links of one signature; slots that run out | open links are the configured ones and those a bad file made the server forget, kept links are not disturbed, groups name live links |
| **allocators** (`allocator.*`) | pools of fixed-size blocks, a tree of pools by size | `alloc`, `realloc`, `dealloc` | pointer arithmetic with two headers; exhausted pools; a `realloc` that moves | buffers are private, large enough, keep their content, come back |
| **red-black tree** (`rbtree.h`) | nodes in a pool, `root_` | `insert`, `remove`, `get_by_key`, `get_floor`, `get_ceiling`, `get_min` | rotations on the way down and up; recycled nodes | a balanced search tree after every operation; searches find what they should |
| **timers** (`timer_engine.*`) | a tree of timers, `global_idx_` | `add_timer`, `walk` | callbacks that add timers and take time; the order within a second | no timer lost; none called twice in a walk, and none of nearby timers late by more than its second |
| **hash map** (`hash_map.h`) | buckets over a pool of nodes | `insert`, `find`, `remove` | — (no caller) | — |
| **signals** (`calypso_signal.*`) | `reload_sig_time_`, `stop_sig_` | set, test | time stamps of one second | a request for a reload is served |
| **statistics, bootstrap and runtime configuration, start, utilities** | counters, numbers from JSON | read, write | — | — |

The hazards, each at its line and with the properties that watch it, are the
`hazards` of `PROJECT.json`.

## 2. Modules and how they correspond to the code

| module | models | abstract specification or composition |
|---|---|---|
| `RingQueue` | `ring_queue_t`, byte by byte, one producer and one consumer | implements `MsgQueue`: a FIFO of whole messages |
| `RingQueueProofs` | the theorems about `RingQueue` and `AppThread` | they prove the safety part of the refinement |
| `AppThread` | main thread and one application thread over two queues, from start to join | uses the FIFO `RingQueue` implements |
| `LinkedList` | `linked_list_t`, pointer by pointer | implements `Lists`: sequences that share all nodes |
| `LinkedListProofs` | the theorems about `LinkedList` | they prove the refinement |
| `ListOps` | the list operations as functions on sequences | shared by `Lists`, `Network`, `Reload`, `Allocator`, `LLRBTree` |
| `ListOpsProofs` | what each of those operations does to its lists; least and greatest elements of sets of numbers | lemmas only, for the modules below |
| `Network` | `calypso_network_t` and its `netlink_t`s under the main loop | uses the lists `LinkedList` implements |
| `Calypso` | the contexts that travel to an application and come back | composed with `Network` |
| `CalypsoProofs` | the theorems about `Network`, and about `Calypso` on top of them | |
| `SendPath` | `netlink_t::send()`, its buffer and `EPOLLOUT`, for one connection | |
| `SendPathProofs` | the theorems about `SendPath` | |
| `RecvPath` | `netlink_t::recv()`, its buffer and `on_net_event()`, for one connection | |
| `RecvPathProofs` | the theorems about `RecvPath` | |
| `Reload` | signals, `reload_config()`, `netlink_config_t` | |
| `ReloadProofs` | the theorems about `Reload` | |
| `Allocator` | `dynamic_allocator_t` over `fixed_size_allocator_t`s | implements `Heap`: private buffers that keep their content |
| `AllocatorProofs` | the theorems about `Allocator` and `Timers`, the two users of the tree | for `Allocator` they prove the refinement |
| `LLRBTree` | `llrbtree_t`, node by node | used by `TimerEngine` |
| `TimerEngine` | `timer_engine_t` | composed with `LLRBTree`; implements `Timers`: a set of timers in the order of `_time_cmp` |
| `TimerKeys` | `_time_cmp`, and the times timers are set to | shared by `TimerEngine` and `Timers` |

So the layers compose by refinement: `RingQueue` ⟹ `MsgQueue`, which is what
`AppThread` uses for `in_` and `out_`; `LinkedList` ⟹ `Lists`, whose operators
`Network` uses for `link_list_`; `Allocator` ⟹ `Heap`, which is what `SendPath`
and `RecvPath` take their buffers to be; `TimerEngine` ⟹ `Timers`, about which
the order and the keeping of timers are proved.

Every module names the operators of a deliberately wrong variant next to the
right one (`DoCloseKeepsMap` beside `DoClose`): `mutants` in `PROJECT.json` says
which property each must break.

**RingQueue.**  A byte of `buffer_` is abstracted to *which* byte it is: byte
*k* of a header announcing length *l*, or byte *k* of a payload with content
*v*.  That is enough to see every torn, lost or misread block.  A header is
`ring_block_t`, bit fields `stx_:2, len_:30` — four bytes in the code, `HdrLen`
here.  One step is one access to what the other thread can see: the stores into
free bytes before the store of `write_` that publishes them
(`ProduceReserve`, `ProduceAppend`, `Produce`, `ProducePayload`, then
`ProduceFinish`); the reads of the consumer, the copy, and the two stores of
`read_` (`SkipHeader`, `ReleaseBytes`).  The indices are plain `int`s without
barriers.  Each access is one step in program order because the queue is used
on x86: aligned `int` accesses are atomic, stores become visible in order and
loads are not passed by later loads, and the `memcpy` through `char*` may alias
the indices, so the compiler keeps the order.  On a weakly ordered processor
that would not hold, and the module says nothing of one.  `pend` and `cur` are
history variables; no guard reads them.  `broken` stands for the three
`abort()`s (a header that is not one, or bytes announced and not there).
`clear()` has no
caller in the server; `Clear` is enabled only while neither thread is in the
queue, the one situation in which resetting both indices can be meant.

**AppThread.**  Variables keep their names (`status` = `th_status_`,
`aclen` = the application's `clen`, `bufsize` = `msg_buf_size`, `mbuf` =
`out_msg_buf_size_`).  The application's loops are `AppTick` / `AppExit` (outer), `AppPeek` (`get_consume_len()` and the
larger buffer), `AppConsume` / `AppDrained` / `AppAbort` (the three results of
`consume()`) and `AppHandle`.  The main thread is `Dispatch` (inside `wait()`),
`MainPeek`, `MainSkip`, `MainConsume`, `MainSend`, `MainLoop`, `Stop` and
`FreeQueues` (`pthread_join()` and the deletes).  `th_status_` is a plain `int`
that the compiler reloads because the loop calls opaque functions.  A message
is a number and a length, `msgpack_context_t` included.  Where a name would be
that of something in `RingQueue` it is another one (`ThreadsNext`, `BlockHdr`),
so that `RingQueueProofs` can extend both modules.

**LinkedList.**  All operations on all fields, called the way
`calypso_network_t` calls them: `move_before` to a head, `move_after` to a
tail of the node's own list, `move`, `swap`, and append/remove, which are
`move`.  A destination inside a list, which no caller passes, is left out: for
it neither function relinks the far neighbour (`linked_list.h:394`, `:434`).
Stores that may hit the same node or list (a `Move` within one list, a `Swap`
of neighbours) are nested one in the other, in the order of the code.

**Network.**  `lists` is `link_list_` as three sequences; `sock` holds what
system calls and `on_link_status_change()` change together: `fd_`, `status_`,
`fd2idx_`, the interest of each descriptor in the epoll set, and the kernel's
open sockets.  `pc` is the stage of the main loop; `cursor` and `left` are the
local variables of the bounded `walk_list()`, so a walk is one step per visited
link and the callback's list changes happen in the middle of it, as in the
code.  `fired` is the part of `fired_events_` not handled yet.  A failure of
`socket`, `bind`, `connect`, `listen`, `accept` or `epoll_ctl` is one of the
outcomes `Failures` lists, with what has already been changed when it happens.
A reload is `CloseLink`s and `CreateLink`s in the order of `walk_diff()`
(`Refresh`), or a load that fails (`RefreshLoadsBad`): `load()` has then cleared
`conf_`, and the links stay without being configured.  `orphans` remembers them;
no guard but the bound `MaxConf`, which counts them, reads it.  A file that is
not there changes nothing.
Names: `idle` and `rest` are ages rather than time stamps (capped at the limit
that matters), `unsent` is `has_data_in_sendbuf()`; both are kept for links of
the used list only, because of no other does anything read them.  Three assumptions are
explicit.  `FdBase >= 1`: `do_close()` tests `fd_ > 0` (`netlink.cpp:492`), so a
socket that got descriptor 0 would never be closed; a server that keeps its
standard input open, or `/dev/null` in its place, never gets one.  Descriptors
the process uses for other things are the ones below `FdBase`.  And the kernel
reports no error event for a listening socket.

**SendPath and RecvPath.**  One connection each, byte by byte; a byte is the
number of its message and its place in it.  A call of `send()` is one step (one
thread runs it) in which the kernel takes as much as it has room for: `SendBlocks`
ends with everything sent or with `EAGAIN`, and `CopyToSendBuffer` may fail when
the buffer has to grow; `SendFails` is an error of the socket, which is final.
`AppSends` is any of the three senders of `process_appthread_msg()`, which
log the result and go on.  In `RecvPath`, `Recv` is `recv()` up to `EAGAIN` or
the end of the connection; then each turn of the loop of `on_net_event()` is a
step: `CutMessage` (the queue may refuse the message, which is popped all the
same), `CutBad`, `CutDone`.  The peer and `get_msgpack_size_` are external.
`told` is what the application thread was sent.  `Network` abstracts the send
buffer to `unsent` and the whole of `RecvPath` to the outcomes of an event.

**Calypso.**  It `EXTENDS` `Network` and follows *one* `msgpack_context_t`, made
by any notification of any run: the link's index and the descriptor it had
*before* `recv()` could close it.  The application may keep the context as long
as it likes, so `ctx` never goes away; `Aged` says, from what a step of the
network does to lists and descriptors, what has become of the connection the
context came with: live, ended, its link opened again, its slot recycled.
The link may be configured, accepted or left over from a configuration that a
failed load has forgotten; `recover()` opens the last again as it does the first.
`AnswerSent` is the test of `send_by_context()`.  Answers themselves change
nothing that `Network!AppSends` and `AppCloses`, which take any link, do not.

**Reload.**  `pc` is where the main thread is: in `walk()` at the start, at the
top of its loop (`loop`, where also `wait()` accepts and loses connections), in
the two loads, in the two loops of `walk_diff()`.  `slot` and `free` are what the
network contributes: which slots are free in which order, and what has each.
A signature stands for local and remote address and link type; `Listening` are
those of links that listen.  Of the options of an entry `opt` stands for those
`update_opt()` sets, `sys` for the sizes of the socket's buffers, `user` for those
of the link's own.  `AfterUpdate` is `update_opt()`: `setsockopt()` may fail, and
then the socket sizes stay as they were; it is not called for a size of 0; and own
sizes are set for listening links only, and not to 0.  (Own sizes of other links
grow with use and are left out, as is the backlog, which an update leaves alone.)
`sig2id` keeps, for each signature, the
*set* of places its vector lists: they are appended in ascending order, so that
`back()` and `pop_back()` take the greatest (`Back`).  `LoadBad` is a file that does not parse
or has no array of links: `load()` has cleared `conf_` by then, and what is left
is any prefix the parser got through.  An edit of the file needs no action of
its own: any load may find anything.

**Allocator.**  A block starts with the pool's own header (`Flag`), then that of
`dynamic_allocator_t` (`Hdr`), then the user's bytes; a pointer is a pool and an
offset, and `BlockOf` computes back from it as `ptr2addr()` and `get_idx()` do.
`PoolFor` is the loop of `alloc()`: the least pool large enough and, when that
is exhausted, the next search for the *pool's* size plus one, with the header
added again.

**LLRBTree and TimerEngine.**  `LLRBTree` keeps the recursive functions of
`rbtree.h` as recursive operators that take and return the whole tree, so that
each line's change of colours, sizes and pointers is visible.  A rotation that
would return `NULL` (and be dereferenced by its caller) sets `crashed`.  Nodes
go back to the pool with their children, which `insert()` does not reset; the
timer model does that insertion as well and then stops (`spoilt`), because what it
has made is no tree; `CleanUnlessEarlier` says exactly when that can happen.  It
stops too after the insertion of a timer that is not `Near` another one: their
difference in microseconds does not fit the `int` of `_time_cmp`.
`TimerEngine` turns `walk()` into its steps: the test of the least timer, the
callback (which may add a timer, and during which time passes), the removal of
`*key`.  `TimeCmp` is `_time_cmp` with its subtraction of microseconds and its
conversion to `int`.  The interval of a timer that is not permanent is `Once`;
one of 0 is a permanent timer that `walk()` calls again at once and without end,
for which `MaxAgain` bounds the calls followed.  `Timers` has the same steps over a set: the tree, the nodes
that are freed and what can go wrong with them are left to `TimerEngine`, which
does what `Timers` allows until it is `spoilt`.

## 3. Runs and bounds

| run | instance | shows |
|---|---|---|
| `ring` | ring of 7 bytes, headers of 2, payloads of 1–3, two contents | `BlocksWhole` (no `abort()`, reservations hold, nothing is torn), `NoOverwrite`, the inductive invariant `IInv`, and that `RingQueue` implements `MsgQueue`: its safety part (`FifoOrder`) and its progress (`ImplementsFifo`) |
| `app_thread` | queue of 10 units, lengths 1–3, buffer of 2, four messages in all | `AppInv` (whole messages are sent, no use after `delete`), `DispatchedIsTaken`, `JoinReturns` |
| `list_pointers` | 5 nodes, 3 lists | `ListInv` (nothing lost; both directions, `prev_` and `next_` of each node, head, tail, count and `lid_` agree), `ImplementsLists` |
| `network_safety` | `Network` with `Calypso`: 3 links, 2 descriptors, batches of 2 events, 2 links configured or forgotten, contexts of one link | `DescriptorsAgree`, `UsedAreWatched`, `EventsReachLinks`, `SlotsAccounted`, `HealthyUntouched`; for contexts `AnswersMatch` and `ReusedAfterAllOthers` |
| `network_liveness` | 3 links, 2 descriptors, one configured link, walks of 3 links, timeouts of 2 seconds | `ConnectEnds`, `IdleReclaimed` and `ErrorRetried`, each where its walk covers the list |
| `send_path` | messages of 1 and 3 bytes, four of them; the kernel holds 2; a buffer of 1 | `SendInv` (the stream is intact), `OkIsKept`, `ArmedIsSent` |
| `recv_path` | messages of 1 and 3 bytes, three of them, good or bad; a buffer of 1 that doubles once | `RecvInv` (whole messages, once, in order), `EndIsTold`, `MessageHandled` |
| `reload` | 3 slots, files of up to 2 of 3 entries with 2 signatures, one of which listens, 2 seconds | `ReloadInv` (open links are the configured ones, as their entries say, and the forgotten ones), `GroupsCurrent`, `LostOnlyThatSecond`, `ClosedOnlyIfGone`, `RequestServed` |
| `allocator` | 4 buffers, pools of sizes 2, 3 and 5 with 2, 1 and 2 blocks, requests up to 5 | `AllocInv` (no block lost or shared), `OwnRoom`, `ServesIfItCan`, `ImplementsHeap` |
| `timers` | 5 nodes, 5 timers of which one permanent with interval 0 or 1, 2 ticks to the second, times 0–3, an `int` of 6 ticks | `TreeInv`, `LookupsRight`, `CleanUnlessEarlier`, `ImplementsTimers`, and of the timers in the tree `TimersKept` (none lost; none called twice by a walk unless an interval is 0; of nearby ones none late by more than its second) |
| `app_handler_length`, `send_waits` | as small as they can be | each violates one property: section 6 |

The invariants are conjunctions of named parts (`DescriptorsAgree` is `TypeOK`,
`NoFdLeak` and `MapIsCurrent`), so that a violation can be narrowed down by
naming the parts in the configuration, and proofs can take them one by one.

Why the bounds suffice.  *Ring*: 7 is prime to the block sizes 3, 4 and 5 in the
sense that matters — every offset of a header and of a payload relative to the
end of the buffer is reached — and two small blocks fit while a third does not,
so full, empty, cut and contiguous blocks all occur with both threads in every
stage; the theorems then remove the bound.  *Application thread*: one message
larger than the buffer, a smaller one, one in each direction at the same time
and a spare are needed for every race of the two loops; the fourth message is
the spare.  A queue of 10 units is full with two large messages.  *Lists*: two
inner nodes with neighbours on both sides, adjacent or apart, need five nodes.
*Network and contexts*: the interesting cases involve a listening link, the
connection it accepts and a third link that fails, connects or idles; two
descriptors make them compete for descriptor numbers so that a number is reused
within one batch, and a `MaxConf` below the number of links leaves slots for
accepted connections.  A context then meets its own link reopened with the same
descriptor, its slot given to another connection with the same descriptor, and
its slot as a listening link: all three are reached.  Following the contexts of link 0
only (`Followed`) leaves nothing out: links differ only in their place in the
free list, and every order of that is reached; the run has as many states for any
other link.  Ages are capped at their
limits since the code compares only.  A load that fails leaves both configured
links, or one of them with room for another to be configured, as orphans that go
on to fail, recover and be shut down.  `network_liveness` has one configured link
and a rest time between recoveries, so that "too soon" happens; with timeouts of
two seconds a send in the second between starts the idle time of a link again.
*Send and receive path*: a message longer than the kernel's room and than the
buffer is cut at every place; with a second message the buffer holds the end of
one and the next, and the third and fourth follow after a cut one.  A receive
buffer of 1 with `Expand` = 2 grows by doubling and then by `Expand`.
*Reload*: two links are the fewest with equal signatures, different groups or a
reorder; a third slot is taken by an accepted connection or left over, so that
slots run out and ids shift; entries of one signature differ in group, options and
in whether their sizes are 0, so that an update changes some and leaves others;
two seconds let one reload fail and the next go
well, and put a request before, in and after the second of a reload.
*Allocator*: sizes 2 and 3 are a header apart, 5 is not, so that the retry of
`alloc()` skips one pool and finds the other; four users exhaust any pool.
*Timers*: five nodes make every shape with an inner node of two inner children;
two ticks to the second put timers within one second and across its border.  With
the greatest `int` at 6 ticks, timers up to two ticks apart compare and those three
apart do not.

`CHECK_DEADLOCK FALSE` stands in the configurations of `AppThread`, where the
program ends after the join or by `abort()`; of `SendPath` and `RecvPath`, whose
connection ends; of `Reload`, whose main loop stops; and of `TimerEngine`, whose
clock and supply of timers end and which stops when it is `spoilt`.

## 4. Fairness

* `RingQueue!FairSpec`: weak fairness of the consumer's reads, copy and
  release; strong fairness of taking or skipping a peeked message, because the
  consuming loops poll for ever and never decline the same message for ever
  (they enlarge the buffer or skip).  Nothing is assumed of the producer.
* `AppThread!FairThreadsSpec`: weak fairness of each thread.  For the main thread only
  of leaving `wait()` (its `epoll_wait` has a timeout of 0) and of going on
  with what it has started; events, stop signals and the next turn of the loop
  need not come.
* `SendPath!FairSpec`: the connection is established, the peer goes on reading,
  and the main loop handles `EPOLLOUT` and the error of a dead socket.  The peer
  need not send, so `EventIn` is not fair: that is what `send_waits` is about.
* `RecvPath!FairSpec`: the main loop handles `EPOLLIN`; the peer need not do
  anything.
* `Network!FairSpec`: the main loop keeps turning (`WF(Next)`), the messages of
  the applications in one turn come to an end (`WF(AppDone)`: the stage drains
  a bounded queue, and an application that produced without pause could hold
  the main thread there, which the model does not charge the network with), and
  time goes by (`SF(Refresh(1) \/ RefreshLoadsBad(1))`, with whatever the reload
  of that turn finds).  No fairness of success: connection attempts,
  `epoll_ctl` and peers may fail for ever.
* `Reload!FairSpec`: the main thread keeps running (`WF(Main)`).  Signals, edits
  of the file, connections and even the clock owe nothing.

## 5. Proofs

Every theorem below holds for all values of the constants that satisfy the
assumption its module names; the bounds of the runs (`MaxMsgs`, `MaxClock`, …)
are such constants, and arbitrary.  The assumptions say what the code takes for granted: sizes and
lengths are positive (`RQAssumption`, `SPAssumption`, `RPAssumption`), a message
carries its context (`ATAssumption`), there is at least one node to link
(`LLAssumption`), `FdBase >= 1` as in section 2
(`NetAssumption`), a second has at least one tick and times and intervals are not
negative (`TimeAssumption`), a pool has room for more than a header and there are finitely
many pools (`AllocAssumption`), a file has at most `MaxEntries` links,
with sizes that are not negative (`ReloadAssumption`).  Each inductive invariant was checked with TLC on the
instance of its run before it was proved (that of `Timers`, which has no run of its
own, on one with three intervals, 0 among them, and two permanent timers).

| module | theorem | states, as `Spec => ...` |
|---|---|---|
| `RingQueueProofs` | `Invariance` | `[]IInv`, inductive |
| | `BlocksStayWhole`, from `NeverAborts`, `ReservationsHold`, `NothingIsTorn` | `[]BlocksWhole` |
| | `TypeCorrect`, `LayoutCorrect` | `[]TypeOK`, `[]Layout` |
| | `NoOverwriting` | `NoOverwrite`, an action property |
| | `RefinesFifo` | `FifoOrder`: the queue implements `MsgQueue` |
| | `ThreadsInvariance` | `[]AppInv`, of `AppThread` |
| `LinkedListProofs` | `IInvHolds` | `[]IInv`, inductive |
| | `ListInvHolds` | `[]ListInv` |
| | `ListsAreImplemented` | `ImplementsLists`: the pointers implement `Lists` |
| `CalypsoProofs` | `NetworkInvariance` | `[]NetInv`, inductive |
| | `DescriptorsTheorem`, `UsedTheorem`, `EventsTheorem`, `SlotsTheorem` | `[]DescriptorsAgree`, `[]UsedAreWatched`, `[]EventsReachLinks`, `[]SlotsAccounted` |
| | `RecoverTheorem` | `HealthyUntouched`, an action property |
| | `ContextAside` | `CalypsoSpec` allows the network nothing new |
| | `ContextInvariance` | `[]CtxInv`, inductive |
| | `AnswersTheorem`, `ReuseTheorem` | `[]AnswersMatch`, `[]ReusedAfterAllOthers` |
| `SendPathProofs` | `SendInvariance` | `[]SndInv`, inductive |
| | `SendTheorem`, `OkTheorem` | `[]SendInv`, `[]OkIsKept` |
| `RecvPathProofs` | `Invariance` | `[]RcvInv`, inductive |
| | `RecvTheorem`, `EndTheorem` | `[]RecvInv`, `[]EndIsTold` |
| `ReloadProofs` | `LostTheorem` | `[]LostOnlyThatSecond` |
| | `LinkInvariance` | `[]LinkInv`, inductive |
| | `ReloadTheorem`, `GroupsTheorem` | `[]ReloadInv`, `[]GroupsCurrent` |
| | `ClosedTheorem` | `ClosedOnlyIfGone`, an action property |
| `AllocatorProofs` | `HeapInvariance` | `[]HeapInv`, inductive |
| | `AllocTheorem`, `OwnRoomTheorem`, `ServesTheorem` | `[]AllocInv`, `[]OwnRoom`, `[]ServesIfItCan` |
| | `HeapTheorem` | `ImplementsHeap`: the allocator implements `Heap` |
| | `TimersInvariance` | `[]TimersIInv` of `Timers`, inductive |
| | `TimersTheorem` | `[]TimersKept` of `Timers` |

### The arguments

**Ring queue.**  None of the properties is inductive: that a header is sound
depends on whose bytes lie where.  `IInv` says so: `Layout` — from the first
block with an unread header to `write_` lie exactly the published blocks, each
beginning where the one before it ends, with their own header and payload
bytes; `ConsumerView` — what the consumer has seen (the queue is not empty, a
length, the payload bytes it has not given back) is still true;
`ProducerView` — what the producer has written behind `write_` is intact and
there is room for the rest of its reservation.  Positions are compared by their
distance around the ring (`Dist`), so that the wrap of the buffer appears in
five arithmetic lemmas (`DistType` … `UsedIsDist`) and nowhere else.  Two frame
lemmas carry the interleaving: `BlockFramed`/`ConsumerFramed` (a write to free
bytes leaves published blocks and the consumer's bytes alone) and
`LayoutFramed` (the consumer's steps leave the producer's side alone).  Each
action has its own lemma (`ReserveInv`, `AppendInv`, …), `NextInv` collects
them.  For the refinement, publishing is `Put` (`FinishPuts`), the copy is
`Take` (`ConsumeTakes`), leaving the header on the way to `skip_consume()` is
`Drop` (`SkipHeaderMaps`), `clear()` is `Reset`, and every other step stutters.

**Application thread.**  `AppInv` needs `LookHolds`: between the look of
`process_appthread_msg()` at the queue and its `consume()` the message it has
measured stays the oldest, because only this thread takes from `out_` and the
other one appends (`PutKeepsHead`).  The same cannot be said of the
application's own loop, of which `AppInv` says nothing but that it ends before the
queues do; this is why `app_handler_length` has a counterexample.

**Linked list.**  `IInv` says that the pointers stand for some lists: there are
sequences `ls`, with each node in one of them once (`ListsOf`), such that
`next_` and `prev_` chain each sequence and its two ends are `head_` and `tail_`
(`Threads`), and `lid_` and `num_` agree with it (`Labels`).  The sequences
are quantified and not computed, so that the proof of a step has only to name
those after it: the ones `Lists` has.  An operation is stores of three kinds.
Each kind is described by what it leaves in the arrays and has a lemma of
*one* list about it: a node tied over (`TiedOver`, `TiedOverList`), a node
hung behind a tail or before a head (`HungBehind`, `AppendedList`;
`HungBefore`, `PrependedList`), two nodes that change places, whether adjacent
or not (`Crossed`, `CrossedList`).  `OthersUntouched` is the frame: a list none of
whose members is stored into stays chained.  `TakenOut`, `PutLast`, `PutFirst` and
`SwappedThreads` lift them to all lists, and `MoveStep`, `SwapStep`,
`MoveAfterStep` and `MoveBeforeStep` put the operations together, with source and
destination possibly the same list (and, for the last two, an end of it).  Last,
the walk from a head along `next_`, which is how the refinement and `ListInv` read the lists back, finds
exactly those sequences (`WalkOf`, `BothWalks`, `WalksGiveLists`).  So what
`CalypsoProofs` and `AllocatorProofs` take a list to be is proved of the pointers.

**Network.**  `NetInv` is `Core` (what lists, sockets, map, epoll set, roles and
pending events have to do with each other) and `Loop` (where the walks of the
main loop stand).  The proof works on lists and sockets as values: `DoClose`,
`DoConnect`, `CreateLink` … are operators from one value to the next, and each
has a lemma saying which link it touches (`SameBut`), what it leaves served
(`Served`) and what agrees but for that link (`AgreeBut`).  A failure in the
middle of an operation is one of the values between, so no step needs an
argument of its own about failures.  A load that fails moves slots from `conf`
to `orphans`, and what `Core` says of a link's role it says of both.
`EventsReachLinks` holds through closes and reopenings in the middle of a batch
because `Reach` compares the pending event with the list and descriptor its link
has now.

**Contexts.**  `Follows` says for each fate of a context (`life`) what is true of
its slot; for a recycled slot in the free list, that everything free at the
time is still before it or gone.  `Touches` bounds what any network step does to
descriptors, types and the free list, so that the proof goes through the three
cases of `Touches` and not through the network's actions again.

**Send and receive path.**  On either side the invariant is about one sequence
that the steps cut and join: what is on the wire followed by what is buffered
(`SendPath`), what is buffered followed by what the kernel has (`RecvPath`).
`Whole` and `InOrder` say of neighbouring bytes that one follows the other, which
cutting and joining preserve (a message is cut only if it is among those whose
`send()` has reported a failure, which may be any of them); that the first bytes
of the buffer are a whole message then follows by a least counterexample (`FromFirst`).  On the receiving
side `StreamInv` ties the sequence to what has been told: there is a message `m`
such that every one before it has been told or refused, none after it, and the
sequence begins with its first byte.  `Stages` adds what `on_net_event()` knows:
there is room in the buffer before it receives, and nothing has been told of an
end while it is not over.

**Reload.**  `LostOnlyThatSecond` is about four time stamps (`Seconds`).
`LinkInv` describes the half-done reload: while `walk_diff()` goes through the old
file, a slot belongs to an entry of the new file that has been matched, to one of
the old file not looked at yet, or to nobody (`Owned`, `Fits`); `Grouped` says
which entries have joined their group by then.  What an update that fails leaves
is covered by `AsTold`, whose sizes are those of some entry of the signature.
`Counted` is for `ClosedOnlyIfGone`: the new entries of a signature are at most those not matched
yet and the old ones already looked at, so when none is left to match, the old
file had more of that signature than the new one.

**Allocator.**  `PoolKept` says of each pool that its two lists hold each of its
places once and agree with the set of used blocks; `UsersKept` that users hold
different used blocks, through pointers that lead back to them (the header
arithmetic, in `PointerOf` and `BlockOwned`).  For the refinement a buffer is
what its user sees of it (`Views`): `alloc()`, `dealloc()` and `realloc()` are
those of `Heap`, the last whether the block has room for the new size or the
content is copied to another block.

**Timers.**  That no timer is called twice is `WithinQuota`: while no timer has an
interval of 0 (`NoInstant`) those that are due are never more than the calls the
walk has left, because a permanent timer comes back behind the start of the walk
(`RetireStep`) and one the callback sets is granted a call of its own; `OneMore`
counts.  That `walk()` leaves only timers of its own second rests on the order:
`CmpIsDifference` shows that for timers that are `Near` the conversion to `int` is
harmless and `_time_cmp` is the difference of two ranks, which grow with the second
(`RankOrder`) though not with the time within it, so that the least timer, which
exists where all are near (`FirstExists`), is of no later second than any that is
due (`OnlyThatSecond`).  Neither needs a bound on the clock or on how far ahead
timers are set.

**Recursion.**  Three functions of the models are recursive, the search of
`alloc()` through the pools (`TryFrom`), the growth of the receive buffer
(`SizeFor`) and the walk along the links of a list (`Along`).  Induction over data
is not available, so `SearchIsDefined`, `SizeForIs` and `AlongIsDefined`
first show that a function with the recursive equation exists — the least number from which on one exists is 0 — and then take a greatest
counterexample of what they claim.  The lemmas on least and greatest elements are
in `ListOpsProofs`.

### Only model-checked

* Liveness, which is beyond the prover, as is `ENABLED`: the progress in
  `ImplementsFifo`, `JoinReturns`, `DispatchedIsTaken`, `ConnectEnds`,
  `ErrorRetried`, `IdleReclaimed`, `ArmedIsSent`, `MessageHandled`,
  `RequestServed`.
* `LLRBTree` and `TimerEngine` over it (`TreeInv`, `LookupsRight`,
  `CleanUnlessEarlier`, `ImplementsTimers`): they compute with recursive operators,
  with which the prover cannot reason.  So that the engine keeps every timer for
  every size rests on a theorem about `Timers` and, for the step from the tree to
  the set, on the run `timers`.

## 6. What the models show about the code

Where the code and its words disagree; each is a run that TLC finds violated, and
the trace is the scenario.

* `app_handler_length`: `_app_thread_main` reads `clen` before `consume()` and
  passes `clen - sizeof(msgctx)` to the handler afterwards (`calypso.cpp:835`,
  `:860`, `:871`).  A message dispatched in between to an empty queue is handed
  over with a length computed from 0.  `process_appthread_msg()` has the same
  shape and is sound because it leaves its loop on 0 (`MainSendsWholeMessage`).
  (The same message, if larger than the buffer, makes `consume()` return -1, and
  the thread aborts for a queue that is not broken: `AppAbort`, after which
  `DispatchedIsTaken` and `JoinReturns` promise nothing.)
* `send_waits`: data that an application's send leaves in the send buffer is
  announced to `epoll` only after another event of the link; if the peer just
  reads, it stays.

Where a property holds only with the exception it states:

* `ConnectEnds`: `netlink_t::send()` takes data for a link that is still connecting
  and notes the time (`netlink.cpp:392`), so that an attempt an application keeps
  sending on never times out; and `check_idle_netlink()` starts at the head of the
  used list each time, so that it holds with walks that cover that list.
* `UsedAreWatched` and `HealthyUntouched` are about the used list and `recover()`;
  the idle check takes a link out of the used list with its socket open.
* `ErrorRetried` and `IdleReclaimed` hold with walks that cover the error list.  `recover()` restarts
  at its head each time and failing links keep their place, so with more of
  those than `max_recover_link_num` the ones behind are never retried.
* `EndIsTold`: when the last bytes before the peer's close are a bad message,
  `on_net_event()` returns before it tells the application of the close.
* `AnswersMatch`, `ReusedAfterAllOthers`: an answer is recognised by index and
  descriptor only.  A client link that is closed and opened again with the same
  descriptor number takes answers meant for its former connection.  A slot
  given out again — after all others that were free — may hold an accepted
  connection, or a listening link, with the descriptor of the context: the
  answer goes to the former, and the latter has no send buffer (`Network`
  lets no application send on a listening link).  `mpf_close_link` goes by the
  index alone.
* `ReloadInv`, `SlotsAccounted`: a file that cannot be parsed makes the server
  forget the links it has (`orphans`): the next good load opens the configured ones
  anew and closes none of the old, which keep their slots, are recovered when they
  fail, and take part in `AnswersMatch` like configured ones.  `update_opt()` keeps
  the sizes of the socket's buffers, in the options as in the socket, when
  `setsockopt()` fails, as it does for a link without a socket; a size of 0 leaves
  the socket as it is.  `GroupsCurrent`: link 0 joins no group until the first
  reload, `walk()` testing for an index of at least 1.
* `LostOnlyThatSecond`: a request made after a reload began, but within the second
  in which it began, is not seen.
* `ServesIfItCan`: `alloc()` skips pools at most a header larger than an
  exhausted one, and can fail although such a pool has a free block.
* `CleanUnlessEarlier`: a callback that adds a timer sorting before its own makes
  `walk()` remove an inner node, which keeps its children and makes the tree
  unsound when it is inserted again.
* `TimersKept`: `_time_cmp` subtracts the microseconds, so that of two
  timers of one second the later comes first, and `walk()` stops at it although
  the other is due (`LateWithinSecond`).  Its result is an `int`: timers more than
  35 minutes apart compare the wrong way round, and nothing is said of how late
  they are.  A permanent timer with an interval of 0 is due again as soon as
  it is put back, so that a walk that meets one does not end (`EachOnce`).

Behaviour no property forbids: an idle link in the error list keeps its
descriptor and the status `established` until `recover()` reaches it, and group
sends still pick it; `mpf_close_link` may close a connection other than the one
meant; a full input queue loses notifications; failing links starve those behind
them in the error list if a walk does not cover it; an `EPOLLOUT` armed for data that another path has sent
stays armed; inserting a key twice in the tree, or creating two pools of one
size, leaks a node.

## 7. What is not modelled

* `hash_map.h`: nothing in the server or the demo application uses it.  The
  ranks of `rbtree.h` (`get_by_rank`, `get_rank`) have no caller either.
* Statistics, logging, JSON reading, daemon start, address formatting, the demo
  application and the load generator hold no state the properties are about.
  The numbers read from the configurations are the `CONSTANTS`.
* The random choice within a group: `Network!AppSends` takes any link.
* In `Network`, `update_link()`: it changes options of a link and none of the
  state modelled there; `Reload` has it, without the backlog, which
  `update_opt()` does not touch.  The start-up and tear-down of the
  process (`init()` is the initial state, `fina()` frees memory).
* In `AppThread`, the failures of the main thread's `consume()`: what it has just
  measured is still there (`LookHolds`).  The branch for a `new[]` that returns `NULL`: `operator new`
  throws.  More than one application thread would only repeat the one modelled,
  since threads share nothing with each other.
* In `TimerEngine`, cancelling a timer: the engine has no operation for it.  The
  overflow of `global_idx_` after 2^31 timers and of `1000*interval_`, and negative
  intervals, are left out.  So are the two `break`s of `walk()` for a `remove()` or an
  `add_timer()` that fails: the key is in the tree, and its node has just come free.

The server links the timer engine without using it; only the demo application
mentions it.  It is modelled as a library.

## 8. Plan

Done: `MsgQueue`/`RingQueue` with its proofs, `AppThread`,
`ListOps`/`Lists`/`LinkedList`, `Network`, `Calypso`, `SendPath`, `RecvPath`,
`Reload`, `Heap`/`Allocator`, `LLRBTree`/`Timers`/`TimerEngine`.

The safety properties of these runs are proved as well (section 5), except those
of `LLRBTree` and of `TimerEngine` over it.

Left: the tree itself for every capacity, which needs its functions written
without recursive operators, and an induction over subtrees that the prover
does not have.
