------------------------------ MODULE Threads ------------------------------
(***************************************************************************)
(* The event threads of one torque_ctx: how torque_init() spawns them, how *)
(* they link themselves into the ring of evhandlers, how a termination     *)
(* signal travels round that ring, and how torque_block(), torque_stop()   *)
(* and a failing torque_init() join them and free the context.             *)
(*                                                                         *)
(* schedule.c (spawn_thread, thread, reap_threads, block_threads),         *)
(* events/thread.c (event_thread, rxcommonsignal, destroy_evhandler),      *)
(* events/sysdep.c (signalfd_demultiplexer), torque.c (torque_block,       *)
(* torque_stop, free_torque_ctx), hardware/arch.c (detect_cputypes).       *)
(* This is the signalfd build (TORQUE_LINUX_SIGNALFD).                     *)
(*                                                                         *)
(* Process 0 is the thread that called torque_init(); threads 1..N are     *)
(* numbered in the order in which they are spawned.  SIGTERM and SIGINT    *)
(* are handled and forwarded alike, so one bit says whether one of them is *)
(* pending.                                                                *)
(***************************************************************************)
EXTENDS Naturals, FiniteSets

CONSTANTS
    N,             \* processors in the affinity mask: one thread each
    SignalPhases,  \* steps of process 0 during which a signal may arrive
    Apis,          \* which teardown calls the application makes
    FailPoints     \* which resource failures may happen

Main == 0
Thread == 1 .. N
Proc == 0 .. N
None == N + 1      \* no thread: ctx->ev == NULL, an unset tid

\* Where the thread that called torque_init() is before the context is
\* handed to the application ...
InitLabels == {"spawn", "gcheck", "gsleep", "gjoin", "detect"}

\* ... and inside torque_block() or torque_stop() (or the error path of
\* torque_init()); an event thread is in the latter when its callback stops
\* its own context.
StopLabels == {"reap", "skill", "sjoin", "sjoining", "sfree"}
MainLabels == InitLabels \cup {"run", "block", "done"} \cup StopLabels

\* thread() up to the hand-off to event_thread()
GuardLabels == {"start", "early", "bcast", "unlock"}
\* rxcommonsignal()
TermLabels == {"kill", "join", "joining", "destroy"}
GoneLabels == {"exited", "reaped"}
ThreadLabels == {"none", "edestroy", "poll", "handler", "demux"}
                  \cup GuardLabels \cup TermLabels \cup GoneLabels \cup StopLabels

ApiNames == {"block", "stop", "handlerstop"}
FailNames == {"spawn", "thread", "mutex", "detect"}

ASSUME NAssumption == N \in Nat \ {0}
ASSUME PhaseAssumption == SignalPhases \subseteq MainLabels
ASSUME ChoiceAssumption == Apis \subseteq ApiNames /\ FailPoints \subseteq FailNames

VARIABLES
    pc,        \* where each process is
    started,   \* threads created so far by detect_cputypes()
    glock,     \* holder of tguard.lock
    gstatus,   \* tguard.status
    leader,    \* ctx->ev: the evhandler of the first thread that linked
    next,      \* evhandler.nexttid of each thread
    evh,       \* each thread's evhandler: none, live or freed
    joiner,    \* who called pthread_join() on each thread
    procpend,  \* a termination signal is pending on the process
    thrpend,   \* a termination signal is pending on the thread
    tgt,       \* the tid a process inside pthread_join() passed to it
    joinok,    \* process 0's pthread_join() of the ring succeeded
    handed,    \* torque_init() has returned the ctx to the application
    ctx,       \* the torque_ctx: live or freed
    fault      \* first use of memory or a tid that is no longer valid

guardvars == <<glock, gstatus>>
ringvars == <<leader, next, evh>>
sigvars == <<procpend, thrpend>>
joinvars == <<joiner, tgt>>
vars == <<pc, started, guardvars, ringvars, sigvars, joinvars, joinok, handed, ctx, fault>>

Linked == {t \in Thread : next[t] # None}
Gone(t) == pc[t] \in GoneLabels
Goto(p, l) == pc' = [pc EXCEPT ![p] = l]

\* A step that touches something already released is undefined in C: the
\* model stops at the first one and names it.
Uses(valid, kind) == fault' = IF valid THEN fault ELSE kind

Init ==
    /\ pc = [p \in Proc |-> IF p = Main THEN "spawn" ELSE "none"]
    /\ started = 0
    /\ glock = None /\ gstatus = "UNLAUNCHED"
    /\ leader = None
    /\ next = [t \in Thread |-> None]
    /\ evh = [t \in Thread |-> "none"]
    /\ joiner = [t \in Thread |-> None]
    /\ tgt = [p \in Proc |-> None]
    /\ procpend = FALSE /\ thrpend = [t \in Thread |-> FALSE]
    /\ joinok = FALSE /\ handed = FALSE /\ ctx = "live" /\ fault = "none"

-----------------------------------------------------------------------------
(* Process 0 inside torque_init(): detect_cputypes() and spawn_thread().    *)

\* Mutant: one processor too many
SpawnThreadMutant ==
    /\ pc[Main] = "spawn" /\ started <= N
    /\ started' = started + 1
    /\ pc' = [pc EXCEPT ![Main] = "gcheck", ![started + 1] = "start"]
    /\ gstatus' = "UNLAUNCHED"
    /\ UNCHANGED <<glock, ringvars, sigvars, joinvars, joinok, handed, ctx, fault>>

\* pthread_create() in spawn_thread(), with the new tguard on process 0's stack
SpawnThread ==
    /\ pc[Main] = "spawn" /\ started < N
    /\ started' = started + 1
    /\ pc' = [pc EXCEPT ![Main] = "gcheck", ![started + 1] = "start"]
    /\ gstatus' = "UNLAUNCHED"
    /\ UNCHANGED <<glock, ringvars, sigvars, joinvars, joinok, handed, ctx, fault>>

\* Any "goto err" of detect_cputypes(): processor detection, topologize(),
\* spawn_thread() before pthread_create(), or unpin_thread() after the loop.
DetectCputypesErr ==
    /\ pc[Main] = "spawn" /\ "spawn" \in FailPoints
    /\ Goto(Main, "reap")
    /\ UNCHANGED <<started, guardvars, ringvars, sigvars, joinvars, joinok, handed, ctx, fault>>

AllSpawned ==
    /\ pc[Main] = "spawn" /\ started = N
    /\ Goto(Main, "detect")
    /\ UNCHANGED <<started, guardvars, ringvars, sigvars, joinvars, joinok, handed, ctx, fault>>

\* Mutant: the status is read without the lock
GuardCheckUnlockedMutant ==
    /\ pc[Main] = "gcheck"
    /\ Goto(Main, CASE gstatus = "UNLAUNCHED" -> "gsleep"
                    [] gstatus = "STARTED" -> "spawn"
                    [] gstatus = "PREFAIL" -> "gjoin")
    /\ UNCHANGED <<started, guardvars, ringvars, sigvars, joinvars, joinok, handed, ctx, fault>>

\* spawn_thread()'s loop: with the lock held either the status is final, or
\* pthread_cond_wait() releases the lock and sleeps in one step.
GuardCheck ==
    /\ pc[Main] = "gcheck" /\ glock = None
    /\ Goto(Main, CASE gstatus = "UNLAUNCHED" -> "gsleep"
                    [] gstatus = "STARTED" -> "spawn"
                    [] gstatus = "PREFAIL" -> "gjoin")
    /\ UNCHANGED <<started, guardvars, ringvars, sigvars, joinvars, joinok, handed, ctx, fault>>

\* POSIX lets pthread_cond_wait() return without a broadcast
SpuriousWakeup ==
    /\ pc[Main] = "gsleep"
    /\ Goto(Main, "gcheck")
    /\ UNCHANGED <<started, guardvars, ringvars, sigvars, joinvars, joinok, handed, ctx, fault>>

\* spawn_thread() joins a thread that reported PREFAIL and returns an error,
\* which detect_cputypes() turns into its error path.  It would also join a
\* running thread if an attribute, mutex or condition call on the tguard
\* returned an error; with these arguments they return zero.
GuardJoin ==
    /\ pc[Main] = "gjoin" /\ pc[started] = "exited"
    /\ pc' = [pc EXCEPT ![Main] = "reap", ![started] = "reaped"]
    /\ joiner' = [joiner EXCEPT ![started] = Main]
    /\ UNCHANGED <<started, guardvars, ringvars, sigvars, tgt, joinok, handed, ctx, fault>>

\* detect_cuda() and detect_memories() succeed: the application gets the ctx
DetectDone ==
    /\ pc[Main] = "detect"
    /\ Goto(Main, "run")
    /\ handed' = TRUE
    /\ UNCHANGED <<started, guardvars, ringvars, sigvars, joinvars, joinok, ctx, fault>>

\* ... or fail: torque_init_sigmasked() frees the context, and nothing on
\* that path reaps the threads, which are all running.
DetectFail ==
    /\ pc[Main] = "detect" /\ "detect" \in FailPoints
    /\ Goto(Main, "sfree")
    /\ UNCHANGED <<started, guardvars, ringvars, sigvars, joinvars, joinok, handed, ctx, fault>>

-----------------------------------------------------------------------------
(* thread(): from pthread_create() to event_thread().                       *)

\* Mutant: the new thread points at the leader, not at the leader's successor
LinkMutant(t) ==
    /\ pc[t] = "start" /\ glock = None
    /\ glock' = t /\ gstatus' = "STARTED"
    /\ evh' = [evh EXCEPT ![t] = "live"]
    /\ leader' = IF leader = None THEN t ELSE leader
    /\ next' = IF leader = None THEN [next EXCEPT ![t] = t]
               ELSE [next EXCEPT ![t] = leader, ![leader] = t]
    /\ Goto(t, "bcast")
    /\ UNCHANGED <<started, sigvars, joinvars, joinok, handed, ctx, fault>>

\* create_evhandler() and, with the tguard locked, insertion into the ring:
\* the leader's nexttid is always the thread that linked last.
Link(t) ==
    /\ pc[t] = "start" /\ glock = None
    /\ glock' = t /\ gstatus' = "STARTED"
    /\ evh' = [evh EXCEPT ![t] = "live"]
    /\ leader' = IF leader = None THEN t ELSE leader
    /\ next' = IF leader = None
               THEN [next EXCEPT ![t] = t]
               ELSE [next EXCEPT ![t] = next[leader], ![leader] = t]
    /\ Uses(leader = None \/ evh[leader] = "live", "leader")
    /\ Goto(t, "bcast")
    /\ UNCHANGED <<started, sigvars, joinvars, joinok, handed, ctx>>

\* pthread_setcancelstate() or create_evhandler() fails: ev is NULL
CreateEvhandlerFail(t) ==
    /\ pc[t] = "start" /\ "thread" \in FailPoints
    /\ Goto(t, "early")
    /\ UNCHANGED <<started, guardvars, ringvars, sigvars, joinvars, joinok, handed, ctx, fault>>

\* pthread_mutex_lock() fails: ev is destroyed here, and its pointer kept
LockFail(t) ==
    /\ pc[t] = "start" /\ "mutex" \in FailPoints
    /\ evh' = [evh EXCEPT ![t] = "freed"]
    /\ Goto(t, "early")
    /\ UNCHANGED <<started, guardvars, leader, next, sigvars, joinvars, joinok, handed, ctx, fault>>

\* Mutant: the failure is reported as a success
EarlyErrMutant(t) ==
    /\ pc[t] = "early" /\ glock = None
    /\ glock' = t /\ gstatus' = "STARTED"
    /\ Goto(t, "bcast")
    /\ UNCHANGED <<started, ringvars, sigvars, joinvars, joinok, handed, ctx, fault>>

\* earlyerr: report the failure through the tguard
EarlyErr(t) ==
    /\ pc[t] = "early" /\ glock = None
    /\ glock' = t /\ gstatus' = "PREFAIL"
    /\ Goto(t, "bcast")
    /\ UNCHANGED <<started, ringvars, sigvars, joinvars, joinok, handed, ctx, fault>>

\* Mutant: the broadcast is left out
BroadcastMutant(t) ==
    /\ pc[t] = "bcast"
    /\ Goto(t, "unlock")
    /\ UNCHANGED <<started, guardvars, ringvars, sigvars, joinvars, joinok, handed, ctx, fault>>

\* pthread_cond_broadcast(): a sleeping process 0 will contend for the lock
Broadcast(t) ==
    /\ pc[t] = "bcast"
    /\ pc' = [pc EXCEPT ![t] = "unlock",
                        ![Main] = IF @ = "gsleep" THEN "gcheck" ELSE @]
    /\ UNCHANGED <<started, guardvars, ringvars, sigvars, joinvars, joinok, handed, ctx, fault>>

Unlock(t) ==
    /\ pc[t] = "unlock"
    /\ glock' = None
    /\ Goto(t, IF gstatus = "STARTED" THEN "poll" ELSE "edestroy")
    /\ UNCHANGED <<started, gstatus, ringvars, sigvars, joinvars, joinok, handed, ctx, fault>>

\* the trailing destroy_evhandler() of earlyerr: a no-op on NULL
EarlyDestroy(t) ==
    /\ pc[t] = "edestroy"
    /\ Uses(evh[t] # "freed", "double")
    /\ Goto(t, "exited")
    /\ UNCHANGED <<started, guardvars, ringvars, sigvars, joinvars, joinok, handed, ctx>>

-----------------------------------------------------------------------------
(* event_thread(): the loop, the signal demultiplexer and rxcommonsignal(). *)

\* epoll_wait() reports the level-triggered common signalfd.  A thread that
\* sleeps in epoll_wait() when the ctx is freed (and the descriptors closed)
\* sleeps on.
PollSignal(t) ==
    /\ pc[t] = "poll" /\ ctx = "live"
    /\ thrpend[t] \/ procpend
    /\ Goto(t, "demux")
    /\ UNCHANGED <<started, guardvars, ringvars, sigvars, joinvars, joinok, handed, ctx, fault>>

\* epoll_wait() reports an application event and its callback runs; there
\* are none before torque_init() has returned the ctx to register them with
PollEvent(t) ==
    /\ pc[t] = "poll" /\ ctx = "live" /\ handed
    /\ Goto(t, "handler")
    /\ UNCHANGED <<started, guardvars, ringvars, sigvars, joinvars, joinok, handed, ctx, fault>>

\* The callback returns to the loop, which reads e->evq inside the ctx
HandlerReturn(t) ==
    /\ pc[t] = "handler"
    /\ Uses(ctx = "live", "ctx")
    /\ Goto(t, "poll")
    /\ UNCHANGED <<started, guardvars, ringvars, sigvars, joinvars, joinok, handed, ctx>>

\* The callback calls torque_stop() on its own context
HandlerStop(t) ==
    /\ pc[t] = "handler" /\ "handlerstop" \in Apis /\ ctx = "live"
    /\ Goto(t, "reap")
    /\ UNCHANGED <<started, guardvars, ringvars, sigvars, joinvars, joinok, handed, ctx, fault>>

\* signalfd_demultiplexer(): read() takes the thread's own pending signal
\* before the process's; EAGAIN when another thread was faster.
Demux(t) ==
    /\ pc[t] = "demux"
    /\ Goto(t, IF thrpend[t] \/ procpend THEN "kill" ELSE "poll")
    /\ thrpend' = [thrpend EXCEPT ![t] = FALSE]
    /\ procpend' = (procpend /\ thrpend[t])
    /\ Uses(ctx = "live", "ctx")
    /\ UNCHANGED <<started, guardvars, ringvars, joinvars, joinok, handed, ctx>>

\* Mutant: the signal is not forwarded
KillMutant(t) ==
    /\ pc[t] = "kill"
    /\ Goto(t, "join")
    /\ UNCHANGED <<started, guardvars, ringvars, sigvars, joinvars, joinok, handed, ctx, fault>>

\* rxcommonsignal(): pthread_kill(e->nexttid,sig)
Kill(t) ==
    /\ pc[t] = "kill"
    /\ Uses(pc[next[t]] # "reaped", "tid")
    /\ thrpend' = [thrpend EXCEPT ![next[t]] = ~Gone(next[t])]
    /\ Goto(t, "join")
    /\ UNCHANGED <<started, guardvars, ringvars, procpend, joinvars, joinok, handed, ctx>>

\* glibc's pthread_join() refuses (EDEADLK) to join oneself or a thread that
\* is joining the caller, and (EINVAL) a thread another one is joining.  It
\* detects no longer cycle.
JoinRefused(p, t) ==
    \/ p = t
    \/ p \in Thread /\ joiner[p] = t
    \/ joiner[t] # None

\* Mutant: the thread exits without joining its successor
JoinMutant(t) ==
    /\ pc[t] = "join"
    /\ Goto(t, "destroy")
    /\ UNCHANGED <<started, guardvars, ringvars, sigvars, joinvars, joinok, handed, ctx, fault>>

\* pthread_join(e->nexttid): nexttid is read a second time
Join(t) ==
    /\ pc[t] = "join"
    /\ Uses(pc[next[t]] # "reaped", "tid")
    /\ IF JoinRefused(t, next[t])
       THEN Goto(t, "destroy") /\ UNCHANGED joinvars
       ELSE /\ joiner' = [joiner EXCEPT ![next[t]] = t]
            /\ tgt' = [tgt EXCEPT ![t] = next[t]]
            /\ Goto(t, "joining")
    /\ UNCHANGED <<started, guardvars, ringvars, sigvars, joinok, handed, ctx>>

\* Mutant: a successful join is retried
JoinedMutant(t) ==
    /\ pc[t] = "joining" /\ pc[tgt[t]] = "exited"
    /\ pc' = [pc EXCEPT ![t] = "join", ![tgt[t]] = "reaped"]
    /\ UNCHANGED <<started, guardvars, ringvars, sigvars, joinvars, joinok, handed, ctx, fault>>

Joined(t) ==
    /\ pc[t] = "joining" /\ pc[tgt[t]] = "exited"
    /\ pc' = [pc EXCEPT ![t] = "destroy", ![tgt[t]] = "reaped"]
    /\ UNCHANGED <<started, guardvars, ringvars, sigvars, joinvars, joinok, handed, ctx, fault>>

\* destroy_evhandler() prints statistics from the ctx's topology, frees the
\* evhandler, and pthread_exit() follows
Destroy(t) ==
    /\ pc[t] = "destroy"
    /\ Uses(ctx = "live", "ctx")
    /\ evh' = [evh EXCEPT ![t] = "freed"]
    /\ thrpend' = [thrpend EXCEPT ![t] = FALSE]
    /\ Goto(t, "exited")
    /\ UNCHANGED <<started, guardvars, leader, next, procpend, joinvars, joinok, handed, ctx>>

-----------------------------------------------------------------------------
(* torque_block() and torque_stop(), by process 0 or by a callback.         *)

CallBlock ==
    /\ pc[Main] = "run" /\ "block" \in Apis /\ ctx = "live"
    /\ Goto(Main, "block")
    /\ UNCHANGED <<started, guardvars, ringvars, sigvars, joinvars, joinok, handed, ctx, fault>>

CallStop ==
    /\ pc[Main] = "run" /\ "stop" \in Apis /\ ctx = "live"
    /\ Goto(Main, "reap")
    /\ UNCHANGED <<started, guardvars, ringvars, sigvars, joinvars, joinok, handed, ctx, fault>>

\* block_threads() and reap_threads() read ctx->ev->nexttid
ReadLeader(p) ==
    /\ pc[p] \in {"block", "reap"}
    /\ Uses(ctx = "live" /\ (leader = None \/ evh[leader] = "live"), "leader")
    /\ IF leader = None
       THEN Goto(p, "sfree") /\ UNCHANGED tgt
       ELSE /\ tgt' = [tgt EXCEPT ![p] = next[leader]]
            /\ Goto(p, IF pc[p] = "block" THEN "sjoin" ELSE "skill")
    /\ UNCHANGED <<started, guardvars, ringvars, sigvars, joiner, joinok, handed, ctx>>

\* reap_thread(): kill(getpid(),EVTHREAD_TERM)
StopKill(p) ==
    /\ pc[p] = "skill"
    /\ procpend' = TRUE
    /\ Goto(p, "sjoin")
    /\ UNCHANGED <<started, guardvars, ringvars, thrpend, joinvars, joinok, handed, ctx, fault>>

\* block_thread(): pthread_join(tid); when it is refused the caller records
\* an error and frees the context all the same
StopJoin(p) ==
    /\ pc[p] = "sjoin"
    /\ Uses(pc[tgt[p]] # "reaped", "tid")
    /\ IF JoinRefused(p, tgt[p])
       THEN Goto(p, "sfree") /\ UNCHANGED joiner
       ELSE /\ joiner' = [joiner EXCEPT ![tgt[p]] = p]
            /\ Goto(p, "sjoining")
    /\ UNCHANGED <<started, guardvars, ringvars, sigvars, tgt, joinok, handed, ctx>>

\* Mutant: the join does not wait
StopJoinedMutant(p) ==
    /\ pc[p] = "sjoining"
    /\ Goto(p, "sfree")
    /\ UNCHANGED <<started, guardvars, ringvars, sigvars, joinvars, joinok, handed, ctx, fault>>

StopJoined(p) ==
    /\ pc[p] = "sjoining" /\ pc[tgt[p]] = "exited"
    /\ pc' = [pc EXCEPT ![p] = "sfree", ![tgt[p]] = "reaped"]
    /\ joinok' = (joinok \/ p = Main)
    /\ UNCHANGED <<started, guardvars, ringvars, sigvars, joinvars, handed, ctx, fault>>

\* free_torque_ctx(); a callback goes on to return to the event loop
FreeCtx(p) ==
    /\ pc[p] = "sfree"
    /\ Uses(ctx = "live", "double")
    /\ ctx' = "freed"
    /\ Goto(p, IF p = Main THEN "done" ELSE "handler")
    /\ UNCHANGED <<started, guardvars, ringvars, sigvars, joinvars, joinok, handed>>

-----------------------------------------------------------------------------
\* Somebody sends the process SIGTERM or SIGINT; a second one coalesces
Signal ==
    /\ pc[Main] \in SignalPhases /\ ~procpend
    /\ procpend' = TRUE
    /\ UNCHANGED <<pc, started, guardvars, ringvars, thrpend, joinvars, joinok, handed, ctx, fault>>

InitStep == \/ SpawnThread \/ DetectCputypesErr \/ AllSpawned
            \/ GuardCheck \/ GuardJoin \/ DetectDone \/ DetectFail

StopStep(p) == \/ ReadLeader(p) \/ StopKill(p) \/ StopJoin(p)
               \/ StopJoined(p) \/ FreeCtx(p)

StartStep(t) == \/ Link(t) \/ CreateEvhandlerFail(t) \/ LockFail(t)
                \/ EarlyErr(t) \/ Broadcast(t) \/ Unlock(t) \/ EarlyDestroy(t)

LoopStep(t) == \/ PollSignal(t) \/ PollEvent(t)
               \/ HandlerReturn(t) \/ HandlerStop(t) \/ Demux(t)

TermStep(t) == Kill(t) \/ Join(t) \/ Joined(t) \/ Destroy(t)

MainStep == InitStep \/ SpuriousWakeup \/ CallBlock \/ CallStop \/ StopStep(Main)
ThreadStep(t) == StartStep(t) \/ LoopStep(t) \/ TermStep(t) \/ StopStep(t)

\* Process 0 has returned from the teardown and no thread is left
Terminated ==
    /\ pc[Main] = "done" /\ \A t \in Thread : Gone(t) \/ pc[t] = "none"
    /\ UNCHANGED vars

Next == \/ /\ fault = "none"
           /\ MainStep \/ Signal \/ \E t \in Thread : ThreadStep(t)
        \/ Terminated

\* Threads are scheduled fairly; callbacks return ("it is critical that
\* handlers not block", README); epoll's ready list is served round robin, so
\* a level-triggered signalfd that stays readable is eventually reported,
\* however many other events there are.  Nothing obliges anyone to send a
\* signal, or the application to tear the context down; and nothing but a
\* broadcast obliges pthread_cond_wait() to return (SpuriousWakeup may happen
\* and is not fair), so a wakeup that is lost stays lost.
Fairness ==
    /\ WF_vars(fault = "none" /\ (InitStep \/ StopStep(Main)))
    /\ \A t \in Thread :
         /\ WF_vars(fault = "none" /\ (StartStep(t) \/ TermStep(t) \/ StopStep(t)))
         /\ WF_vars(fault = "none" /\ (HandlerReturn(t) \/ Demux(t)))
         /\ SF_vars(fault = "none" /\ PollSignal(t))

Spec == Init /\ [][Next]_vars
FairSpec == Spec /\ Fairness

-----------------------------------------------------------------------------
(* Properties.                                                              *)

\* Every variable stays within its range; in particular the tguard's lock is
\* held only by threads (process 0 never keeps it across a step).
TypeOK ==
    /\ pc \in [Proc -> MainLabels \cup ThreadLabels]
    /\ started \in 0 .. N
    /\ glock \in Thread \cup {None}
    /\ gstatus \in {"UNLAUNCHED", "PREFAIL", "STARTED"}
    /\ leader \in Thread \cup {None}
    /\ next \in [Thread -> Thread \cup {None}]
    /\ evh \in [Thread -> {"none", "live", "freed"}]
    /\ joiner \in [Thread -> Proc \cup {None}]
    /\ tgt \in [Proc -> Thread \cup {None}]
    /\ procpend \in BOOLEAN /\ thrpend \in [Thread -> BOOLEAN]
    /\ joinok \in BOOLEAN /\ handed \in BOOLEAN
    /\ ctx \in {"live", "freed"}
    /\ fault \in {"none", "leader", "double", "ctx", "tid"}

\* While thread() still uses the tguard (which lives on the stack of
\* spawn_thread()), process 0 is inside the wait loop for that very thread,
\* so the frame, the mutex and the condition variable exist.  The comment
\* before event_thread() in thread() relies on this.
GuardAlive ==
    \A t \in Thread : pc[t] \in GuardLabels =>
        /\ pc[Main] \in {"gcheck", "gsleep"} /\ started = t

\* When process 0 has left the handshake for thread t, thread t is in the
\* ring or has reported its failure: spawn_thread() never takes one for the
\* other, nor reads the status before the thread wrote it.
HandshakeOutcome ==
    /\ pc[Main] = "spawn" => Linked = 1 .. started
    /\ pc[Main] \in {"gjoin"} => Linked = 1 .. (started - 1)

\* The ring: the leader's nexttid is the thread that linked last, and every
\* other thread's nexttid the one that linked before it, so that forwarding
\* along nexttid from any thread reaches every other.
RingShape ==
    /\ leader = None => Linked = {}
    /\ leader # None =>
         /\ leader = 1 /\ next[1] \in Linked
         /\ Linked = 1 .. next[1]
         /\ \A t \in Linked \ {1} : next[t] = t - 1

\* A thread that has forwarded the signal waits only for a thread that has
\* the signal pending, is terminating, or is gone: rxcommonsignal() never
\* joins a thread that was not told to exit.
ChainIntact ==
    \A t \in Thread : pc[t] \in {"join", "joining"} =>
        LET n == next[t] IN thrpend[n] \/ pc[n] \in TermLabels \/ Gone(n)

\* When pthread_join() in torque_block() or torque_stop() succeeds, every
\* thread of the ring has exited, not only the one that was joined.
SuccessMeansReaped == joinok => \A t \in Linked : Gone(t)

\* The context is freed only when all of its threads have exited.
FreedMeansReaped == ctx = "freed" => \A t \in Linked : Gone(t)

\* Nobody touches a freed context, a freed evhandler or a reaped tid.
NoFault == fault = "none"

\* Threads exit in the order in which they linked, which is why process 0,
\* which joins the last one only, has waited for all of them.
ExitsInLinkOrder ==
    [][\A t \in Linked : (pc[t] = "destroy" /\ pc'[t] = "exited")
          => \A s \in Linked : s < t => Gone(s)]_vars

\* torque_init() gets every thread through the handshake, whatever the
\* interleaving of status check, sleep and broadcast: no wakeup is lost, as
\* only the broadcast is sure to end a sleep in pthread_cond_wait().
InitCompletes == pc[Main] = "spawn" ~> pc[Main] = "run"

\* A thread that takes a termination signal brings all of them down ("Progress
\* is thus assured", rxcommonsignal()).
SignalMeansExit ==
    (\E t \in Thread : pc[t] = "kill") ~> (\A t \in Linked : Gone(t))

(* The abstract life of a context: alive and phase as functions of the state. *)
Alive == {t \in Thread : pc[t] # "none" /\ ~Gone(t)}
Phase == CASE ctx = "freed" -> "gone"
           [] ctx = "live" /\ (\E t \in Linked : pc[t] \in TermLabels \/ Gone(t)) -> "stopping"
           [] OTHER -> IF pc[Main] \in InitLabels THEN "init" ELSE "serving"
Abstract == INSTANCE Lifecycle WITH alive <- Alive, phase <- Phase

\* Threads implements Lifecycle: with torque_block() waiting, what the ring of
\* pthread_kill() and pthread_join() calls does is an orderly shutdown.
ImplementsLifecycle == Abstract!LSpec

=============================================================================
