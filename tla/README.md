# A TLA+ model of libtorque

libtorque runs one event thread per processor over a shared event queue
(epoll on Linux, kqueue on FreeBSD) and calls the application's handlers from
whichever thread retrieves the event.  This directory models the parts of the
library in which several threads, the kernel and the peer meet (the life of
the threads, the event queue, the receive buffer, TLS connections, the other
event sources), and the two that are long rather than concurrent: how the
library learns about its machine, and who owns what when a call fails half way
through a constructor.  All paths below are relative to the repository's root.

## 1. Inventory

| Component | Code | State | Operations | Talks to |
|---|---|---|---|---|
| event threads and termination | `src/libtorque/schedule.c`, `events/thread.c`, `events/sysdep.c`, `torque.c` | `ctx->ev`, each evhandler's `nexttid`, the `tguard`, pending signals, who joins whom | `spawn_thread`, `thread`, `event_thread`, `signalfd_demultiplexer`, `rxcommonsignal`, `destroy_evhandler`, `torque_block`, `torque_stop` | pthreads, signals, context |
| event queue and dispatch | `events/fd.c`, `events/sources.[ch]`, `events/thread.c`, `events/sysdep.[ch]`, `events/evq.c` | epoll set, table of evsources indexed by descriptor, each thread's batch, `errno` | `add_fd_to_evhandler`, `setup_evsource`, `kevent_retrieve`, `handle_event`, `restorefd` | epoll, callbacks |
| receive buffer | `buffers.[ch]` | `buffer`, `buftot`, `bufoff`, `bufate` | `initialize_rxbuffer`, `rxbuffer_valid`, `rxbuffer_advance`, `rxbuffer_ssl`, `growrxbuf`, `buffered_rxfxn`, `buffered_txfxn` | read(2), mremap(2), callbacks |
| TLS connections | `protos/ssl.c` | `ssl_cbstate`, the OpenSSL session, a receive buffer | `ssl_accept_rxfxn`, `accept_contrxfxn`, `accept_conttxfxn`, `ssl_rxfxn`, `ssl_txrxfxn`, `ssl_tx`, `ssl_txfxn` | OpenSSL, event queue |
| context creation and release | `torque.c`, `events/evq.c`, `events/thread.c` | `torque_ctx`: queue, evsource tables, DNS state, topology | `create_torque_ctx`, `torque_init`, `free_torque_ctx` | everything |
| signal sources, timers, path watches | `events/signal.c`, `events/timer.[ch]`, `events/path.c` | signal table, `timerfd_marshal` | `torque_addsignal`, `torque_addtimer`, `torque_addpath` | signalfd, timerfd |
| asynchronous DNS | `protos/dns.c` | one `adns_state` per context | `torque_dns_init`, `torque_addlookup_dns`, the descriptors' callbacks | adns, event queue |
| non-blocking connect | `conn.c`, `torque.c` | `torque_conncb` | `torque_addconnector`, `conn_unbuffered_txfxn` | event queue, buffer |
| processor topology and types | `hardware/topology.c`, `hardware/arch.c` | the scheduling zones, the `cpu_map`, processor types | `topologize`, `lookup_aid`, `detect_cputypes` | threads |
| processor identification, memory | `hardware/x86cpuid.c`, `hardware/memory.c`, `hardware/numa.c`, `alloc.c` | caches, TLBs, nodes, page sizes | `x86cpuid`, `add_hwmem`, `detect_memories`, `large_system_pagesize` | topology, buffer |
| tools | `src/archdetect`, `src/torquehost`, `tools` | none | clients of the library | - |

What is hard, and the properties that say it is right:

* *Termination.*  A termination signal is consumed by one thread, which
  forwards it to the next of the ring and then joins that thread; the ring is
  closed, and the join of the last link is meant to be refused by the C
  library.  `torque_block()` and `torque_stop()` join one thread only.  Right
  means: nobody joins a thread that was not told to exit, a successful join of
  one thread means that all have exited, the context is freed after them.
* *Start.*  Each thread reports through a mutex and a condition variable that
  live on the creator's stack.  Right means: no lost wakeup, no use of the
  frame after it is gone, the status that is read is the final one.
* *Dispatch.*  Edge-triggered one-shot events, several threads, callbacks that
  close descriptors whose numbers are reused.  Right means: one thread per
  descriptor, callbacks of the right incarnation, no forgotten data.
* *Buffering.*  Three cursor cases in `rxbuffer_advance()`, growth in
  mid-read, clients that release any part of their input.  Right means: the
  client sees the peer's stream, end of file only at its end, and the handler
  never sleeps on input the client has not seen.
* *TLS.*  The one-shot item has to be armed for what OpenSSL asks for, by
  whichever handler is in place, from the handshake on; state, buffer and
  descriptor go together.  Right means: one thread per connection, no freed
  state in use, the next record is served.
* *Ownership.*  Constructors of up to twelve calls, each of which can fail,
  some racing the events they have just asked for.  Right means: whatever
  fails, everything acquired is released once.
* *Detection.*  Affinity masks with gaps, processors that are numbered in
  different orders, CPUID leaves of several generations.  Right means: zones
  that partition the mask, one pinned thread per processor, caches that are
  neither lost nor counted twice.
* *Failure* of any call during start, and *EINTR* in the event loop.

`PROJECT.json` lists every hazard with its line and the properties aimed at it.

## 2. Modules

| Module | Models |
|---|---|
| `Threads` | start handshake, ring, signal forwarding, teardown; processes 0 (the caller of `torque_init()`) and 1..N (event threads) |
| `Lifecycle` | the abstract promise of `doc/termination`: started, serving, stopping, gone |
| `MCThreads` | instances of `Threads` |
| `ThreadsProofs` | proofs about `Threads`: start and teardown |
| `ShutdownProofs` | proofs about `Threads` when `torque_block()` ends the context; the refinement of `Lifecycle` |
| `EventQueue` | registration, retrieval, dispatch, re-arming on epoll |
| `MCEventQueue` | instances of `EventQueue` |
| `EventQueueProofs` | proofs about `EventQueue` |
| `RxBuffer` | the receive buffer as pure operators on a record |
| `BufferedConn` | one buffered (or TLS) connection over `RxBuffer`: both handlers, the peer, the client |
| `BufferedConnProofs` | proofs about `RxBuffer` and `BufferedConn` |
| `Ssl` | TLS connections from accept(2) to close(2) over the one-shot item: handshake, data, renegotiation, `ssl_tx()` |
| `MCSsl` | instances of `Ssl` |
| `SslProofs` | proofs about `Ssl` |
| `X86Topology` | threads per core, cores per package and place from CPUID, as pure operators |
| `Hardware` | `detect_architecture()`: types, zones, threads, devices, memory, and their release |
| `MCHardware` | machines and masks for `Hardware` |
| `HardwareProofs` | proofs about `X86Topology` and `Hardware` |
| `IntelDescriptors` | the descriptor tables of CPUID leaf 2, as data |
| `Cpuid` | `x86cpuid()`: caches, TLBs, signature, brand name |
| `MCCpuid` | processors for `Cpuid` |
| `CpuidProofs` | proofs about `Cpuid` |
| `Sources` | every constructor with the cleanup of each failure; timers, signals, lookups and connects up to their callbacks |
| `MCSources` | instances of `Sources` |
| `SourcesProofs` | proofs about `Sources` |

Operators whose name ends in `Mutant` are deliberately wrong versions of the
definition that follows them; no specification uses them.  They exist to show
that a property would notice such a bug.

### Threads

`pc` says where each process is; a label stands for the code between two
points at which other processes can notice a difference.  `next` is
`evhandler.nexttid`, `leader` is `ctx->ev`, `evh` and `ctx` tell memory that is
live from memory that is freed, `joiner` and `tgt` describe the calls of
pthread_join(3) in progress.

| Code | Actions |
|---|---|
| `detect_cputypes()`, `spawn_thread()` | `SpawnThread`, `GuardCheck`, `SpuriousWakeup`, `GuardJoin`, `AllSpawned`, `DetectCputypesErr` |
| `detect_architecture()`, `torque_init_sigmasked()` | `DetectDone`, `DetectFail` |
| `thread()` | `Link`, `CreateEvhandlerFail`, `LockFail`, `EarlyErr`, `Broadcast`, `Unlock`, `EarlyDestroy` |
| `event_thread()` and the signalfd | `PollSignal`, `PollEvent`, `HandlerReturn`, `HandlerStop`, `Demux` |
| `rxcommonsignal()`, `destroy_evhandler()` | `Kill`, `Join`, `Joined`, `Destroy` |
| `torque_block()`, `torque_stop()`, `free_torque_ctx()` | `CallBlock`, `CallStop`, `ReadLeader`, `StopKill`, `StopJoin`, `StopJoined`, `FreeCtx` |

Using memory after it is freed, or a tid after it is reaped, is undefined in C.
The model records the first such use in `fault` and stops there.

`pthread_join()` is modelled as glibc implements it (`JoinRefused`): a join of
oneself or of a thread that is joining the caller gives EDEADLK, a join of a
thread that another one is joining gives EINVAL, and longer cycles are not
detected.  Signals sent to the process are read from a signalfd by any thread,
those sent with pthread_kill(3) only by the thread they were sent to; equal
pending signals coalesce.  This is the build with `TORQUE_LINUX_SIGNALFD`.

### EventQueue

The epoll set is `reg` (which descriptors have an item), `shot` (which are
one-shot), `mask` (what they are armed for) and `ready` (the ready list); these
and the sockets are external and modelled from how the code uses them: an edge
puts an armed item on the ready list, EPOLL_CTL_ADD and EPOLL_CTL_MOD look at
the descriptor's current state, retrieval disarms a one-shot item, close(2)
removes it.  `slot` is the table of evsources.  Each opening of a number is a
new incarnation `inc`; events remember theirs, which the code cannot do, so
that the model can tell a stale event from a fresh one.

Registration is two steps, because the code writes the evsource before it calls
epoll_ctl(2) (`SetupEvsource`, `AddFdEvent`).  A thread retrieves a batch
(`Retrieve`), looks up each event's callbacks by number (`HandleRead`), runs
`buffered_rxfxn()` (`RxRead`, `RxFull`, `RxCallback`, `RxEof`, `RxRestore`,
`RxEofRestore`) or the client's own callback, goes on to the write half of the
same event (`HandleWrite`, `TxCallback`, `TxRestore`) and takes the next
(`BatchDone`).  A client callback of an unbuffered descriptor is assumed to
follow README and read until EAGAIN; a callback that returns non-zero has closed
its descriptor.  `intr` holds the threads whose `errno` is EINTR.  In the model
it never leaves: nothing on the path back to epoll_wait(2) resets `errno`.
(A callback of the application might; the model has none that does.)

### RxBuffer and BufferedConn

A byte is named by its position in the peer's stream, so that "the client sees
the stream" is an equation between `buffer[bufate + i]` and positions.
`BufferedConn` follows `buffered_rxfxn()` line by line: a full buffer is shown
before it grows, read(2) may return any part of what there is, EAGAIN shows what
is there and re-arms, zero is taken for end of file.

The `kind` of a connection says how it was registered.  `plain` is
`torque_addfd()` without a tx callback, as in `tools/testing/echoserver.c`: its
item is armed for EVREAD.  `duplex` has a tx callback, and
`add_fd_event()` arms it for EVREAD and EVWRITE (label `registered`); the event
then reports input (`ReadEvent`), room for output (`WriteEvent`) or both
(`BothEvents`).  After the last, `buffered_rxfxn()` re-arms the descriptor before
`handle_event()` goes on with the write half, and two threads may share the
buffer: the model stops at label `overlap`, and `EventQueue` (`evq_rxtx`) goes on.
For kind `tls` the handlers are `ssl_rxfxn()` and `ssl_txrxfxn()`.

The label `stranded` is the descriptor that `buffered_txfxn()` leaves unarmed when
there is nothing unreleased, at registration or after end of file, or whose
one-shot item was spent on an event that no callback takes (while `SSL_read()`
wants to write, the rx callback is NULL but EVREAD is armed; after end of file
there may be no tx callback).  This is why `SentIsShown` speaks of plain
connections only; `DuplexIsShown` says the same of the others, and fails.

### Ssl

A connection is its socket (records to read, room to write, end of file), the
position `hs` in the handshake, the `ssl_cbstate` (`sc`), the number of receive
buffers mapped for it (`maps`), its evsource (`slot`) and the mask of its
one-shot item (`armed`).  The handshake is a sequence `Flights` of records to
read and to write; SSL_accept() advances along it and stops where the socket
would block.  `last` is the last handler that saw the connection.

| Code | Actions |
|---|---|
| `torque_addssl()` | `AddSsl` |
| `ssl_accept_rxfxn()`, `ssl_accept_internal()` | `PollListener`, `Accept`, `AcceptEnds`, `CreateSslCbstate`, `AddFd` |
| SSL_accept() and its three callers | `HsAdvance`, `HsDone`, `HsBlocked`, `TlsError` |
| `handle_event()`, `restorefd()` | `Poll`, `HandleEvent`, `Arm` |
| `ssl_rxfxn()`, `ssl_txrxfxn()` | `SslRead`, `SslEof`, `SslReadBlocked`, `Callback` |
| `ssl_tx()`, `ssl_txfxn()` | `Callback`, `TxCallback` |
| `free_ssl_cbstate()` | `Fail` |

Two handlers never re-arm: `accept_conttxfxn()` and `ssl_txfxn()`.  A
connection they leave, or whose event met no callback, is stranded for good;
`ArmedForWhatIsWanted` and `InputServed` except exactly these (`Stranding`).
A listener whose `restorefd()` fails stays disarmed; nobody notices
(`AcceptEnds`).
Each finished handshake leaks the buffer `create_ssl_cbstate()` had mapped,
because `initialize_rxbuffer()` maps another over it; `BuffersAccounted` says
that this is the only one.

### X86Topology and Hardware

`X86Topology` has one operator for each function of `x86cpuid.c` that bears on
the place of a processor.  Its loops of shifts are written as what they compute
(the least power of two that is not less, the quotient by the greatest that is not
greater), and `&` and `|` as sums over bits.  `Hardware` runs `detect_architecture()` on a machine
whose real structure is known (`Place`, `Kind`), so that what the code concludes
can be compared with it.  `zones` is `ctx->sched_zone`, `types` is
`ctx->cpudescs`, `tm` is the topmap: it has an entry per processor of the mask
but is indexed by processor number, so with a gap in the mask what it gives back
is an arbitrary core (`StoredCores`).  Descriptions are compared with memcmp(3)
including padding, which is why equal processors may get different types; the
padding is a choice (`Pads`).  `tlb` is where `determine_pagesizes()` stands in
its two loops; `DetectMemories`, `DeterminePagesizes` and `AddNode` are
`detect_memories()`.  At most one call fails in a behaviour, besides
what the machine itself makes fail; `fault` is its name.

### IntelDescriptors and Cpuid

A processor is what CPUID answers, field by field, before the code's masks and
shifts; `Cpuid` keeps the decoding (a ten-bit field cut to nine bits, the type
masked with 2, the extended family shifted by 3, sizes modulo 2^32) and the
order in which entries are inserted.  Leaf 2 has sixteen bytes; one that is no
descriptor (an invalid register, the call count) is a null descriptor, which
is skipped (`Descriptor`).  A description that would divide by a line
size of zero ends at the label `sigfpe`.  `live` counts the blocks that are
allocated, `cpu.holds` those the description points to.

### Sources

A constructor is a sequence of calls, each with what the code releases when it
fails; the sequences are composed as the functions call each other (`Under`).
One action makes the next call of a constructor succeed (`CallSucceeds`), another
makes it fail (`CallFails`).  What remains is the life of a source: `Happens` is
the world, `TimerEvent`, `ConnectEvent`, `SignalEvent`, `ReadSignal` and the four
`Dns` actions are the handlers, `TorqueStop` and `StopSsl` the end.  A release of
something that is not there sets `fault`.

## 3. Runs

Passing:

| Run | Bounds | Shows |
|---|---|---|
| `threads_block` | 4 threads | The server idiom: `torque_init()`, `torque_block()`, then a signal while it joins. `InitCompletes`, `ExitsInLinkOrder`, `NoFault`, `FreedMeansReaped`, and `ImplementsLifecycle`: the whole implements the abstract life of a context, its liveness included. |
| `threads_after_init` | 4 threads | Every failure during start; signals, `torque_block()`, `torque_stop()` and callbacks that stop their context in any order after `torque_init()`: `GuardAlive`, `HandshakeOutcome`, `RingShape`, `ChainIntact`, `SuccessMeansReaped`, `TypeOK`. |
| `evq_all` | 2 threads, 1 number, 2 incarnations | All classes, tx callbacks, EINTR: `SlotBeforeItem`, `TypeOK`. |
| `evq_oneshot` | 2 threads, 2 numbers, one of them reused, 2 bytes each | One-shot classes without tx callbacks: `ExclusiveDispatch`, `NoStaleDispatch`; their buffered descriptors: `NoLostWakeup`, `DataIsRead`. |
| `rxbuffer` | page of 2, growth to 8, stream of 9 | A buffered connection with or without a tx callback, whose client releases any part of its input, or a TLS connection whose client releases all of it (as `tools/testing/torquessl.c` does): `WindowIntact`, `EofIsReal`, `SeenBeforeSleep`, `TypeOK`; `SentIsShown` on connections without a tx callback. |
| `ssl` | 2 threads, 1 connection, a handshake of 4 records, 2 records of data | A server with an rx or a tx callback, renegotiation, a slow peer, every failure: `ExclusiveHandler`, `StateOutlivesHandlers`, `ArmedForWhatIsWanted`, `BuffersAccounted`, `InputServed`, `TypeOK`. |
| `hardware` | 13 machines of up to 4 processors, all masks, 2 paddings, 2 GPUs | `TopologyRules`, `LeavesAreCores`, `LookupStaysInPackage`, `ElementsAddUp`, `OneThreadPerProcessor`, `CleanFailure`, `LargestPageFound`, with a failure at any call. |
| `cpuid` | processors of all vendors and of several ages | `CanonicalDetails` (sorted, each once, exactly what leaf 4 and leaf 2 report), `SharedByCore`, `NothingLost`, with a failure at any allocation. |
| `sources` | a context, a thread, 8 client objects of which 3 per behaviour | `OwnedOnce` and `CallbackRuns`, with a failure at almost any call. |

Runs that end in a counterexample, each a disagreement between the code and a
text of the repository (quoted in `PROJECT.json`, `findings`):

| Run | Property | What happens |
|---|---|---|
| `threads_stop_race` | `FreedMeansReaped` | `torque_stop()` sends the signal before it joins; when the round is faster the leader already joins the last thread, the second join fails, and the context is freed under running threads. |
| `evq_rxtx` | `ExclusiveDispatch` | The peer has shut down; the first event reports input and room for output. `buffered_rxfxn()` finds the end of file and re-arms for EVWRITE, `handle_event()` dispatches the write half of the same event, a second thread takes the re-armed item, and both are in the tx handler. |
| `cpuid_amd_l1` | `AmdL1Kinds` | `id_amd_caches()` decodes ECX as the code cache and EDX as the data cache; its own comment, and AMD's manual, say the opposite. |

Further configurations, not among the listed runs, reproduce other deviations
(`tlc -config <file> <module>`; each ends in a counterexample):

| Configuration | Property | What happens, and what the repository says |
|---|---|---|
| `MCThreadsCircularJoin.cfg` | `SignalMeansExit` | A signal with nobody in `torque_block()`: three threads join each other in a cycle, which EDEADLK does not cut. "We rely on EDEADLK to cut off our circular join()list" (`src/libtorque/events/thread.c:66`). |
| `MCThreadsSignalInInit.cfg` | `ChainIntact` | `rxcommonsignal()` reads `nexttid` twice; a thread that links in between is joined but never signalled. "robust semantics no matter when termination is initiated" (`doc/termination:5`). |
| `MCEventQueueEintr.cfg` | `DataIsRead` | After an EINTR, `while(ret < 0 \|\| errno == EINTR)` throws retrieved events away. Applications "needn't worry about yielding on EINTR" (`README:408`). |
| `MCEventQueueReuse.cfg` | `NoStaleDispatch` | With `torque_addfd_concurrent()` an old event meets the callbacks of the number's next owner. "and thus no events exist for it" (`src/libtorque/events/sources.h:69`). |
| `BufferedConnDuplex.cfg` | `DuplexIsShown` | A connection with a tx callback is armed for writing at once; the first EVWRITE finds an empty buffer, `txback()` does not re-arm (`src/libtorque/buffers.c:22`), and what the peer sends is never read. "Watch for events on the specified file descriptor, and invoke the callbacks" (`src/libtorque/torque.h:99`). |
| `BufferedConnTlsPartial.cfg` | `WindowIntact` | `rxbuffer_ssl()` stores at the release cursor and overwrites unreleased input (`src/libtorque/buffers.h:18`). |
| `MCSslTxBlocks.cfg` | `ExclusiveHandler` | `ssl_tx()` re-arms the descriptor while the callback that called it still runs. "No more than one libtorque thread will dispatch a given event's handler at once" (`README:357`). |
| `MCHardwareMixed.cfg` | `LeafHomogeneous` | All processors of an AMD machine get APIC ID 0 and fall into one zone, whatever their types. "a leaf node cannot encompass heterogeneous setups" (`src/libtorque/internal.h:28`). |

The passing runs therefore state, in their configurations, the conditions under
which the code keeps its promises; the failing configurations show that they are
needed:

* `NoFault` and `FreedMeansReaped` are checked for signals that arrive while
  `torque_block()` is inside pthread_join(3).  Earlier signals may let all
  threads exit first, and then `torque_block()` reads the leader's freed
  evhandler (set `SignalPhases` to `AfterInit` and N to 1 to see it), and
  `torque_stop()` has the race of `threads_stop_race`.  A callback that calls
  `torque_stop()` comes back to a loop over the freed context (set `Apis` to
  `AnyApi`); README:393 allows such calls.
* `ExclusiveDispatch` needs registrations without a tx callback (`evq_rxtx`),
  `NoStaleDispatch` one-shot registrations (`MCEventQueueReuse.cfg`).
* `DataIsRead` needs epoll_wait(2) not to be interrupted
  (`MCEventQueueEintr.cfg`), and is stated for buffered descriptors: nothing ever
  re-arms the one-shot item of `torque_addfd_unbuffered()`, so for those it fails
  at the second arrival.
* `SentIsShown` is stated for connections without a tx callback
  (`BufferedConnDuplex.cfg`).
* `WindowIntact` on TLS connections needs clients that release all they are
  shown (`BufferedConnTlsPartial.cfg`).
* `ssl` has callbacks whose `ssl_tx()` does not block (`TxBlocks`) and servers
  with one of the two callbacks; with both, `ssl_rxfxn()` re-arms before the
  write half is dispatched, as in `evq_rxtx`.
* `sources` excludes five constants for which `OwnedOnce` or `CallbackRuns` fails:
  a timer with an interval (put it into `Periodic`: `timer_curry()` frees the
  marshal at the first expiry); SIGRTMAX (let `Signo` be `SigMax`: the table has
  no entry for it); `<<"lookup", "load">>` in `Faults` (the answer may be
  delivered and its marshal freed before `load_dns_fds()` fails and frees it
  again); `<<"lookup", "processany">>` and `<<"lookup", "restore">>` (the resolver's
  socket stays disarmed, and later answers have no handler).
* `OwnedOnce` lists the leaks it tolerates (`Leaked`): the common signalfd when
  sigaction(2) fails, the `torque_rxbufcb` of a descriptor that cannot be added,
  the timerfd of an expired timer, the `torque_conncb` of a failed connect, the
  stack of every thread.
* `LeavesAreCores` needs leaf 0xb, powers of two and a mask without gaps
  (`Told`).  `OneThreadPerProcessor` cannot promise the caller's affinity when
  reading or restoring it is what failed: the error path then restores an
  uninitialized mask.  `CleanFailure` excepts the threads when the devices or the
  memory fail: `detect_architecture()` does not reap them.
* `CanonicalDetails` compares without the sharing count, as the code does.

*Why the bounds are enough.*  Three threads give a ring with a leader, a last
and a middle thread, so that a join cycle exists that glibc does not detect;
four add a pair of middle threads, whose exits could be swapped.  Two threads
and two numbers give two handlers on one descriptor and two descriptors in one
batch; a second incarnation of one of them gives reuse; two bytes per
incarnation let one arrive while the first is handled, between any two steps of
read, callback and re-arming.  (`evq_all`, with three classes and tx callbacks,
makes do with one number and one byte.)  A page of two bytes that doubles twice, with a
stream that is longer, meets all three cases of `rxbuffer_advance()`, growth,
and growth refused.  A TLS connection with two threads has one thread in a
handler and one that could enter it; four flights make the handshake block in
either direction, first and again.  Four processors are two packages of two
cores, two cores of two threads and every mask with or without a gap; the third
core of a package gives a count that is no power of two.  Three client objects
at a time give two lookups that share the resolver and a third source beside
them.  Symmetry is not used: threads are ordered by their linking, and where they
are not the state spaces are small.

*Deadlock* is checked in `threads_block`.  Elsewhere an idle system (all
threads in epoll_wait(2), nothing sent) is a legitimate end, as is the first
fault of `Threads`.

*Fairness.*  `Threads`: threads that can run do run, callbacks return (README:
handlers must not block), and a level-triggered signalfd that stays readable is
eventually reported, because epoll serves its ready list in turn; this last one
is strong fairness of `PollSignal`, since a thread busy with other events is
not always at epoll_wait(2).  A spurious return of pthread_cond_wait(3) may happen
at any time and is not fair: POSIX allows it and does not promise it, so that
`InitCompletes` fails as soon as a broadcast is missing.  `EventQueue`: dispatch and retrieval of each
thread.  `BufferedConn`: the handler, room for output on
a socket armed for it, and the return of callbacks.  `Ssl`: the
steps of each thread; retrieval of each armed and ready connection, strongly,
because the threads are not always at epoll_wait(2) but its ready list is a queue;
and a peer that reads what it is sent, without which a handshake that waits to
write may wait for ever.
`Sources`: a constructor that has begun, the resolver's handler, and each other
source's handler.  Nothing else is assumed of peers, and no fairness of signals,
timers, name servers or the application.

## 4. Theorems

Checked by TLAPS, for every value of the constants that meets the stated
condition: every number of threads, processors, descriptors, connections,
objects and reuses, every stream and handshake.  Each inductive invariant was
first checked by TLC on the instance of the run its property belongs to.

### Threads (`ThreadsProofs`, `ShutdownProofs`)

* `Typing`: `Spec => []TypeOK`.  `TypeOK` is inductive.
* `Handshake`: `Spec => [](GuardAlive /\ HandshakeOutcome /\ RingShape)`, for
  every N, every failure and every timing of signals and teardown
  (`GuardOutlivesThread` and `HandshakeTold` are its parts).  The inductive
  invariant `HInv` adds who holds the guard's lock (`HLock`), what
  the status says of the thread being waited for (`HStatus`), which threads are
  linked at each label of process 0 (`HCount`), the ring pointwise (`HRing`)
  and that every tid passed to pthread_join(3) is in the ring (`HTgt`).
  `GuardAlive` alone is not inductive: it needs the lock and the status to rule
  out that process 0 leaves the loop while the thread is inside.
* `Teardown`: under `Disciplined` (signals only after `torque_init()`, and no
  `torque_stop()` from a callback; `MCThreadsSignalInInit.cfg` shows that the
  first is needed, `threads_after_init` that on four threads the second is not),
  `Spec => [](ChainIntact /\ SuccessMeansReaped)` (`ChainKept` is its first
  part).  The invariant `TInv` adds that nothing terminates during init
  (`TQuiet`), that a thread is joined only by its predecessor or process 0
  (`TJoin`), what process 0 holds (`TMain`), and that a thread other than the
  first exits only after its successor has (`TOrder`): this order is why joining
  one thread is enough.
* `ShutdownSafe`, `FreedLast`, `LinkOrder`: under `Orderly` (`torque_init()`
  succeeds, the application calls `torque_block()` only, signals arrive once it
  is inside pthread_join(3)), `NoFault`, `FreedMeansReaped` and the action
  property `ExitsInLinkOrder`.  `threads_stop_race` and the settings named in
  section 3 show that the condition is needed.  The invariant is `HInv`, `TInv`
  and `BInv`: no error path is taken and only `torque_block()` frees (`BMain`);
  nobody terminates before process 0 has joined the last thread, so that it and
  not the leader is the one that reaps it (`BQuiet`); and who has reaped whom,
  with every evhandler in place until its thread exits (`BReaped`).  `NoFault`
  needs all three: a fault is the use of what somebody else has freed.
* `ShutdownRefinesLifecycle`: under `Orderly` the initial states and each step of
  `Threads` are, under the mapping of `ImplementsLifecycle`, an initial state, a
  step or a stutter of `Lifecycle`.  One lemma per action, from the same
  invariant.  The fairness of `Lifecycle`, the other half of
  `ImplementsLifecycle`, is left to `threads_block`.

### Event queue (`EventQueueProofs`)

* `QueueTyping` and `SlotSafe`: `TypeOK` and `SlotBeforeItem` for all classes, tx
  callbacks and interruptions.  The invariant `RegInv` adds that a slot belongs
  to its incarnation from `setup_evsource()` until the item is added.
* `DispatchExclusive`, `DispatchFresh`: `ExclusiveDispatch` and `NoStaleDispatch`
  under `OneShot` (no concurrent registrations, no tx callbacks; `evq_rxtx` and
  `MCEventQueueReuse.cfg` show why).  The invariant `OwnInv` says for each
  descriptor who has it: the item while it is armed, else at most one event in
  one thread's batch or one running handler, never both (`OItem`, `OEvent`,
  `OHandler`, `OOnce`).
* `WakeupKept`: `NoLostWakeup` if, further, epoll_wait(2) is not interrupted
  (`Uninterrupted`; `MCEventQueueEintr.cfg`).  `WakeInv` adds that an armed item
  with input is on the ready list, that a disarmed buffered descriptor is in
  some thread's hands, and that a handler leaves a descriptor to its write side
  only at the end of file.

### Receive buffer (`BufferedConnProofs`)

* `Buffering`: if clients of TLS connections release all they are shown (`Sane`;
  `BufferedConnTlsPartial.cfg`), `Spec => [](TypeOK /\ WindowIntact /\ EofIsReal
  /\ SeenBeforeSleep)` for every page size and stream; `BufferTyping`,
  `EofSound` and `SeenFirst` are its parts.  It rests on one lemma
  per operation of the buffer (`AdvanceWindow`, `ReadWindow`, `GrowWindow`,
  `SslReadWindow`), and on `RoomToRead`: read(2) is never asked for nothing.

### TLS connections (`SslProofs`)

* `SslTyping`, `HandlersExclusive`, `StateSafe`, `ArmedRight`, `BuffersExact`:
  `TypeOK`, `ExclusiveHandler`, `StateOutlivesHandlers`, `ArmedForWhatIsWanted` and
  `BuffersAccounted` under `OneCallback` (a server has an rx or a tx callback, and
  `ssl_tx()` does not block; `MCSslTxBlocks.cfg` shows that the latter is needed,
  `evq_rxtx` the former).  One invariant, `SslInv`, carries all five: a
  connection is taken by one thread or by its item, never both (`Alone`,
  `OwnerOK`); what the thread at each label knows of the handler, the slot and
  the handshake (`ThreadOK`); how state, slot, mappings and handshake go together
  (`ConnOK`); and that what no thread has taken is armed for what OpenSSL waits
  for (`ArmedOK`).  None of the five is inductive alone: a handler frees the
  state because it is alone, and it is alone because it armed the item last.

### Ownership (`SourcesProofs`)

* `Ownership`: `OwnedOnce` under `Tame` (no timer has an interval, no signal has
  the number SIGRTMAX, `load_dns_fds()` does not fail once the query is out;
  section 3 says what happens otherwise).  Clients may register any number of
  objects of every kind, and any set of the other calls may fail.  The invariant
  `SInv` tells from an object's place what it owns (`Held`): under construction,
  what the error path of its next call would release or leave.  The constructors
  are built from those of their callees (`Under`, `\o`), so that first they are
  computed as tables (`InitTable`, `ThreadTable`); a lemma for each of the nine
  then shows that each call adds what it yields and that every error path
  releases what is there (`Exact`).  `PlaceOK` adds that a timer or a connect
  with an event is pending, so that no event frees a marshal twice.

### Detection (`HardwareProofs`)

For every set of machines, masks, paddings, devices and TLBs and every choice of
calls that fail.

* `OneThreadAlways`, `CleanFailureAlways`, `ElementsAlways`:
  `OneThreadPerProcessor`, `CleanFailure` and `ElementsAddUp`.  The invariant
  `Base` says how far the loop over the mask has come: the threads spawned are
  those on the processors before `aid` (`Spawned`), the caller is pinned to `aid`
  while that one is looked at (`PinnedNow`), what is allocated is one description
  per type and the one in hand (`Alive`), the elements of the types are the
  threads, the devices and the processor in hand (`Summed`), no two types are
  equal (`Distinct`), and what the error paths have released at each label
  (`Released`, `Restored`).  `ElementsAddUp` alone is not inductive: between
  `match_cputype()` and `spawn_thread()` a processor is counted that has no
  thread yet, and `Alive` is what makes `live = 0` follow after the release.
* `TopologyAlways`, `LookupAlways`: `TopologyRules` and `LookupStaysInPackage`.
  `ZonesInv` adds to `Base` that zones and their subzones are sorted by ID,
  disjoint, non-empty, and each the union of its children (`Shape`); that together
  they hold the processors done so far (`PlacedNow`); that the types of
  a zone and of its subzones are types of its processors (`KindsNow`); and, where
  the code can tell the places (`Told`), that IDs and topmap are what
  `x86topology()` says (`CoresNow`).  One lemma for each operator of
  `topologize()`: sorted insertion (`InsertGroupFact`), the search
  (`GroupFact`), joining and splitting (`JoinLeaf`, `SplitFact`, `PackageJoin`).
  The rules hold whatever core the unwritten entries of the topmap give back.
* `LeavesAlways`: `LeavesAreCores`.  From `ZonesInv` and the arithmetic of
  `X86Topology`: with counts that are powers of two, `apic & (n - 1)` is the
  remainder by n (`AndFact`) and the shifts are the quotient (`PowerFact`).  The
  code takes the logical processors of a package for its cores, so its packages
  are not the machine's; it still tells two cores apart, because quotient and
  remainder determine the core's number (`Division`, `SameCoreFact`).
* `LargestPageAlways`: `LargestPageFound`.  `PagesNow` says that the list is
  increasing, has only sizes of the system or of some TLB, and that of every TLB
  looked at it has the size or a larger one; the last is what
  `match_pagesize()`, which takes a size for known when a larger one is, keeps.

### Processor identification (`CpuidProofs`)

* `NothingLostAlways`, `SharedByCoreAlways`: `NothingLost` and `SharedByCore` for
  every processor.  `Base` says that both arrays are sorted and each entry is
  shared by at least `tpc` processors or is an AMD L3 (`CpuFine`), and the same of
  the reports that are still to be added.  The arrays have to be looked at while
  `tpc` changes: `id_intel_caches()` divides it, which only makes it smaller.
* `CanonicalAlways`: `CanonicalDetails`.  `Canon` says what the array of an Intel
  processor holds in mid-loop: during leaf 4 just the subleaves of the levels
  below the current one, and of this one those before `sub`, with `maxdc` no less
  than any level met (`Four`); during leaf 2 all of leaf 4 with its
  multiplicities, others once and only from leaf 2, and every cache of leaf 2
  either there or still to come (`Two`).  That insertion adds one to the count of
  its key and nothing to others is `InsertCount`, by a bijection between index
  sets; that a descriptor has one row is `RowsDistinct`.

Facts about the least or the greatest element of a set of numbers, on which
`Min`, `Max` and the searches rest, come from well-foundedness (`Least`, by
`WFMin` and `NatLessThanWellFounded`); they need no induction scheme.

### Assumptions

Those of the modules: N is at least one, the page is not empty, descriptors and
connections are non-empty sets (a thread's record always names one), a context is
among the objects, the choices of failures and calls are among those the model
knows.  A machine (`HardwareAssumption`) has at least one thread per core, core and
package, at most 128 threads per core and 128 cores per package (their product
then fits the 16 bits in which CPUID reports it), no more than `MaxCpu` processors,
and a kind for each package whose TLBs are known.  A processor (`ProcessorsAssumption`) reports unsigned fields, the count of
leaf 1 in 8 bits, and a leaf 4 that ends at the null subleaf.  TLC evaluates them
on every run.

### Model-checked only

* All liveness: `InitCompletes`, `SignalMeansExit`, `DataIsRead`, `SentIsShown`,
  `InputServed`, `CallbackRuns`, and the fairness of `Lifecycle`.  Liveness under
  fairness is out of this prover's reach.
* The safety properties outside the conditions above, where the failing
  configurations show that they do not hold.

Every other invariant and action property of the passing runs is the subject of a
theorem.  Induction over data and recursive operators are out of the
prover's reach too; no module that is proved about needs them.

## 5. Not modelled

* kqueue, and the builds without signalfd or timerfd (`check_for_termination()`,
  setitimer(2)): they replace the modelled paths on other systems.
* Path watches: `add_fswatch_to_evhandler()` always fails.
* The CUDA driver, OpenSSL, adns, the kernel: external, modelled from how the
  code uses them.  `adns_tx_callback()`: the resolver's one datagram socket is
  never polled for writing.  OpenSSL's lock callbacks are pthread calls.
* Feature flags of `x86cpuid.c` that nothing reads, the amount of memory, the
  clock and core counts of GPUs.
* `src/archdetect`, `src/torquehost` and `tools`: they print what the library
  reports and call it as the models' clients do.
* Errors of the pthread attribute, mutex and condition calls in `spawn_thread()`
  after pthread_create(3), which would make it join a thread that is running: with
  the arguments they are given they return zero.
* In `Ssl`, a client whose callback returns zero when it is shown end of file, so
  that `ssl_rxfxn()` calls it again and again (`BufferedConn` has it,
  `SslReadZero`): the clients of `Ssl` return non-zero, as
  `tools/testing/torquessl.c` does.
* What an out-of-bounds entry of the topmap overwrites (section 2, Hardware).
* Accessors (`torque_get_topology()`, `torque_cpu_getdesc()`, ...), statistics,
  and the declarations of `torque.h`.

## 6. Plan

Done: the components of section 1 from the threads to the processor
identification are modelled and checked, and the safety properties of all passing
runs are proved.  What could follow:

1. The kqueue build and the builds without signalfd or timerfd, as alternatives
   of the actions of `Threads`, `EventQueue` and `Sources` that they replace.
2. The conditions of section 4 (`Disciplined`, `Orderly`, `OneShot`, `OneCallback`,
   `Tame`, `Sane`), one by one, as the code they excuse is repaired: each failing
   configuration then becomes a passing run and its condition leaves the theorems.
3. Liveness, if a prover for fairness becomes available: the ranking arguments
   for `DataIsRead` and `InputServed` are the invariants `WakeInv` and `ArmedOK`.
