--------------------------- MODULE ShutdownProofs ---------------------------
(***************************************************************************)
(* The orderly shutdown of Threads, for every number of processors N: the  *)
(* application waits in torque_block(), and whoever ends it does so by a   *)
(* signal to the process.                                                  *)
(***************************************************************************)
EXTENDS ThreadsProofs

\* torque_init() succeeded, the application calls nothing but torque_block(),
\* and signals arrive once that is inside pthread_join().
Orderly ==
    /\ SignalPhases \subseteq {"sjoining", "sfree", "done"}
    /\ Apis \subseteq {"block"} /\ FailPoints = {}

\* Process 0 from its pthread_join() on.
Joining == {"sjoining", "sfree", "done"}

\* No failure, so no error path: only torque_block() frees the context.
BMain ==
    /\ pc[Main] \in (InitLabels \ {"gjoin"}) \cup {"run", "block", "sjoin"} \cup Joining
    /\ gstatus # "PREFAIL" /\ \A t \in Thread : pc[t] \notin {"early", "edestroy"}
    /\ pc[Main] \in {"detect", "run", "block", "sjoin"} \cup Joining => leader # None /\ next[1] = N
    /\ pc[Main] \in {"sfree", "done"} => joinok
    /\ ctx = "freed" <=> pc[Main] = "done"

\* Nobody terminates before process 0 is inside pthread_join() of the last
\* thread: the leader will not be the one that joins it.
BQuiet ==
    /\ pc[Main] \notin Joining =>
         /\ ~procpend /\ ~joinok
         /\ \A t \in Thread : /\ ~thrpend[t] /\ joiner[t] = None
                              /\ pc[t] \notin TermLabels \cup GoneLabels \cup {"demux"}
    /\ pc[Main] \in Joining => joiner[N] = Main

\* A thread was reaped by the one that linked after it, the last by process 0;
\* a thread of the ring keeps its evhandler until it exits.
BReaped ==
    /\ \A t \in Thread : pc[t] = "reaped" =>
         IF t = N THEN joinok ELSE pc[t + 1] \in {"destroy"} \cup GoneLabels
    /\ \A t \in Thread : next[t] # None /\ pc[t] \notin GoneLabels => evh[t] = "live"

BInv == BMain /\ BQuiet /\ BReaped /\ NoFault
\* An orderly shutdown is a disciplined one.
LEMMA Calm == Orderly => Disciplined
BY DEF Orderly, Disciplined, InitLabels

\* Initially nobody terminates.
LEMMA ShutdownInit == Orderly /\ Init => BInv
<1> SUFFICES ASSUME Init PROVE BInv
  OBVIOUS
<1> QED
  BY NAssumption
  DEF Init, BInv, BMain, BQuiet, BReaped, NoFault, Joining, InitLabels, TermLabels, GoneLabels,
      Main, Proc, Thread, None

\* Once process 0's join has returned, every thread is gone.
LEMMA AllGone ==
    ASSUME HInv, TInv, BInv, pc[Main] \in {"sfree", "done"}
    PROVE  \A t \in Thread : pc[t] \in GoneLabels
<1> USE NAssumption DEF Main, Thread, None
<1>1. joinok /\ next[1] = N /\ leader # None  BY DEF BInv, BMain, Joining
<1>2. SuccessMeansReaped  BY TeardownSafe
<1>3. \A t \in Thread : next[t] # None  BY <1>1 DEF HInv, HRing
<1> QED BY <1>1, <1>2, <1>3 DEF SuccessMeansReaped, Linked, Gone

\* Which actions an orderly shutdown has.
LEMMA OrderlySteps ==
    ASSUME Orderly, HInv, TInv, BInv, Next, ~UNCHANGED vars
    PROVE  \/ SpawnThread \/ AllSpawned \/ GuardCheck \/ SpuriousWakeup \/ DetectDone
           \/ CallBlock \/ (pc[Main] = "block" /\ ReadLeader(Main)) \/ StopJoin(Main) \/ StopJoined(Main) \/ FreeCtx(Main)
           \/ Signal
           \/ \E t \in Thread : \/ Link(t) \/ Broadcast(t) \/ Unlock(t)
                                \/ PollSignal(t) \/ PollEvent(t) \/ HandlerReturn(t) \/ Demux(t)
                                \/ TermStep(t)
<1>o. FailPoints = {} /\ "stop" \notin Apis /\ "handlerstop" \notin Apis  BY DEF Orderly
<1>m. pc[Main] \notin {"gjoin", "reap", "skill"}
  BY DEF BInv, BMain, InitLabels, Joining
<1>e. \A t \in Thread : pc[t] \notin {"early", "edestroy"} \cup StopLabels \cup {"block"}
  BY DEF BInv, BMain, TInv, TJoin
<1>1. ~DetectCputypesErr /\ ~DetectFail /\ ~CallStop  BY <1>o DEF DetectCputypesErr, DetectFail, CallStop
<1>2. ~GuardJoin /\ ~StopKill(Main)  BY <1>m DEF GuardJoin, StopKill
<1>3. ReadLeader(Main) => pc[Main] = "block"  BY <1>m DEF ReadLeader
<1>4. ASSUME NEW t \in Thread
      PROVE  /\ ~CreateEvhandlerFail(t) /\ ~LockFail(t) /\ ~EarlyErr(t) /\ ~EarlyDestroy(t)
             /\ ~HandlerStop(t) /\ ~StopStep(t)
  <2>1. ~CreateEvhandlerFail(t) /\ ~LockFail(t) /\ ~HandlerStop(t)
    BY <1>o DEF CreateEvhandlerFail, LockFail, HandlerStop
  <2>2. ~EarlyErr(t) /\ ~EarlyDestroy(t)  BY <1>e DEF EarlyErr, EarlyDestroy
  <2>3. ~StopStep(t)
    BY <1>e DEF StopStep, ReadLeader, StopKill, StopJoin, StopJoined, FreeCtx, StopLabels
  <2> QED BY <2>1, <2>2, <2>3
<1>5. ~Terminated  BY DEF Terminated
<1> QED
  BY <1>1, <1>2, <1>3, <1>4, <1>5
  DEF Next, MainStep, InitStep, ThreadStep, StartStep, LoopStep, StopStep
\* The ranges the steps rely on.
LEMMA Typed ==
    ASSUME HInv
    PROVE  /\ pc \in [Proc -> MainLabels \cup ThreadLabels] /\ started \in 0 .. N
           /\ leader \in Thread \cup {None} /\ next \in [Thread -> Thread \cup {None}]
           /\ evh \in [Thread -> {"none", "live", "freed"}]
           /\ joiner \in [Thread -> Proc \cup {None}]
           /\ tgt \in [Proc -> Thread \cup {None}]
           /\ thrpend \in [Thread -> BOOLEAN]
           /\ gstatus \in {"UNLAUNCHED", "PREFAIL", "STARTED"} /\ ctx \in {"live", "freed"}
BY DEF HInv, TypeOK

\* Every step keeps process 0 off the error paths.
LEMMA BMainNext ==
    ASSUME Orderly, HInv, TInv, BInv, Next, ~UNCHANGED vars
    PROVE  BMain'
<1> USE NAssumption DEF Main, Proc, Thread, None
<1>t. /\ pc \in [Proc -> MainLabels \cup ThreadLabels] /\ started \in 0 .. N
      /\ leader \in Thread \cup {None} /\ next \in [Thread -> Thread \cup {None}]
      /\ joiner \in [Thread -> Proc \cup {None}]
      /\ gstatus \in {"UNLAUNCHED", "PREFAIL", "STARTED"} /\ ctx \in {"live", "freed"}
  BY Typed
<1>h. BMain /\ BQuiet  BY DEF BInv
<1>r. HRing /\ HCount /\ HStatus /\ GuardAlive  BY DEF HInv
<1>m. TMain  BY DEF TInv
<1> USE DEF BMain, Joining, InitLabels, Goto, guardvars, ringvars, sigvars, joinvars
<1>1. CASE SpawnThread  BY <1>1, <1>t, <1>h DEF SpawnThread
<1>2. CASE AllSpawned
  <2>1. \A t \in Thread : next[t] # None  BY <1>2, <1>r DEF AllSpawned, HCount
  <2>2. leader # None /\ next[1] = N  BY <2>1, <1>t, <1>r DEF HRing
  <2> QED BY <1>2, <1>t, <1>h, <2>2 DEF AllSpawned
<1>3. CASE GuardCheck \/ SpuriousWakeup \/ DetectDone \/ CallBlock
  <2>1. CASE GuardCheck  BY <2>1, <1>t, <1>h DEF GuardCheck
  <2>2. CASE SpuriousWakeup  BY <2>2, <1>t, <1>h DEF SpuriousWakeup
  <2>3. CASE DetectDone  BY <2>3, <1>t, <1>h DEF DetectDone
  <2>4. CASE CallBlock  BY <2>4, <1>t, <1>h DEF CallBlock
  <2> QED BY <1>3, <2>1, <2>2, <2>3, <2>4
<1>4. CASE pc[Main] = "block" /\ ReadLeader(Main)  BY <1>4, <1>t, <1>h DEF ReadLeader
<1>5. CASE StopJoin(Main)
  <2>1. pc[Main] = "sjoin" /\ leader # None /\ next[1] = N /\ tgt[Main] = N
    BY <1>5, <1>h, <1>m DEF StopJoin, TMain
  <2>2. ~JoinRefused(Main, tgt[Main])  BY <2>1, <1>h DEF JoinRefused, BQuiet
  <2>3. pc' = [pc EXCEPT ![Main] = "sjoining"] /\ UNCHANGED <<gstatus, leader, next, joinok, ctx>>
    BY <1>5, <2>2 DEF StopJoin
  <2> QED BY <2>1, <2>3, <1>t, <1>h
<1>6. CASE StopJoined(Main)
  <2>1. tgt[Main] \in Thread  BY <1>6, <1>m, <1>h DEF StopJoined, TMain
  <2>2. /\ pc'[Main] = "sfree" /\ \A s \in Thread : pc'[s] \in {pc[s], "reaped"}
        /\ UNCHANGED <<gstatus, leader, next, ctx>> /\ pc[Main] = "sjoining"
    BY <1>6, <2>1, <1>t DEF StopJoined
  <2>3. joinok'  BY <1>6, Zenon DEF StopJoined
  <2> QED BY <2>2, <2>3, <1>h
<1>7. CASE FreeCtx(Main)  BY <1>7, <1>t, <1>h DEF FreeCtx
<1>8. CASE Signal  BY <1>8, <1>t, <1>h DEF Signal
<1>9. ASSUME NEW t \in Thread, Link(t) \/ Broadcast(t) \/ Unlock(t) PROVE BMain'
  <2>1. CASE Link(t)
    <3>1. pc[Main] \in {"gcheck", "gsleep"}  BY <2>1, <1>r DEF Link, GuardAlive, GuardLabels
    <3> QED BY <2>1, <3>1, <1>t, <1>h DEF Link
  <2>2. CASE Broadcast(t)  BY <2>2, <1>t, <1>h DEF Broadcast
  <2>3. CASE Unlock(t)
    <3>1. gstatus = "STARTED"  BY <2>3, <1>t, <1>h, <1>r DEF Unlock, HStatus
    <3> QED BY <2>3, <3>1, <1>t, <1>h DEF Unlock
  <2> QED BY <1>9, <2>1, <2>2, <2>3
<1>10. ASSUME NEW t \in Thread, PollSignal(t) \/ PollEvent(t) \/ HandlerReturn(t) \/ Demux(t) PROVE BMain'
  <2>1. CASE PollSignal(t)  BY <2>1, <1>t, <1>h DEF PollSignal
  <2>2. CASE PollEvent(t)  BY <2>2, <1>t, <1>h DEF PollEvent
  <2>3. CASE HandlerReturn(t)  BY <2>3, <1>t, <1>h DEF HandlerReturn
  <2>4. CASE Demux(t)  BY <2>4, <1>t, <1>h DEF Demux
  <2> QED BY <1>10, <2>1, <2>2, <2>3, <2>4
<1>11. ASSUME NEW t \in Thread, TermStep(t) PROVE BMain'
  <2>1. CASE Kill(t)  BY <2>1, <1>t, <1>h DEF Kill
  <2>2. CASE Join(t)
    <3>1. /\ \A s \in Proc : s # t => pc'[s] = pc[s]
          /\ pc'[t] \in {"destroy", "joining"}
          /\ UNCHANGED <<gstatus, leader, next, joinok, ctx>>
      BY <2>2, <1>t DEF Join
    <3> QED BY <3>1, <1>t, <1>h
  <2>3. CASE Joined(t)
    <3>1. /\ pc'[Main] = pc[Main] /\ \A s \in Thread : pc'[s] \in {pc[s], "destroy", "reaped"}
          /\ UNCHANGED <<gstatus, leader, next, joinok, ctx>>
      <4>1. tgt[t] \in Thread  BY <2>3 DEF Joined, HInv, HTgt
      <4> QED BY <2>3, <4>1, <1>t DEF Joined
    <3> QED BY <3>1, <1>t, <1>h
  <2>4. CASE Destroy(t)  BY <2>4, <1>t, <1>h DEF Destroy
  <2> QED BY <1>11, <2>1, <2>2, <2>3, <2>4 DEF TermStep
<1> QED BY <1>1, <1>2, <1>3, <1>4, <1>5, <1>6, <1>7, <1>8, <1>9, <1>10, <1>11, OrderlySteps
\* Nobody terminates before process 0 is inside pthread_join().
LEMMA BQuietNext ==
    ASSUME Orderly, HInv, TInv, BInv, Next, ~UNCHANGED vars
    PROVE  BQuiet'
<1> USE NAssumption DEF Main, Proc, Thread, None
<1>t. /\ pc \in [Proc -> MainLabels \cup ThreadLabels] /\ started \in 0 .. N
      /\ leader \in Thread \cup {None} /\ next \in [Thread -> Thread \cup {None}]
      /\ joiner \in [Thread -> Proc \cup {None}]
      /\ thrpend \in [Thread -> BOOLEAN]
  BY Typed
<1>h. BMain /\ BQuiet  BY DEF BInv
<1>r. HTgt /\ HCount /\ HStatus /\ GuardAlive  BY DEF HInv
<1>m. TMain  BY DEF TInv
<1> DEFINE Same == /\ pc'[Main] \in Joining <=> pc[Main] \in Joining
                   /\ joiner'[N] = joiner[N]
                   /\ pc[Main] \notin Joining =>
                        /\ UNCHANGED <<procpend, thrpend, joiner, joinok>>
                        /\ \A t \in Thread : pc'[t] = pc[t]
                              \/ pc'[t] \notin TermLabels \cup GoneLabels \cup {"demux"}
<1>f. Same => BQuiet'  BY <1>h DEF BQuiet
<1>s. ASSUME NEW t \in Thread, pc[t] \in TermLabels \cup GoneLabels \cup {"demux"}
      PROVE  pc[Main] \in Joining
  BY <1>s, <1>h DEF BQuiet
<1> USE DEF Joining, TermLabels, GoneLabels, Goto, guardvars, ringvars, sigvars, joinvars
<1>1. CASE SpawnThread
  <2>1. Same  BY <1>1, <1>t DEF SpawnThread
  <2> QED BY <2>1, <1>f
<1>2. CASE AllSpawned
  <2>1. Same  BY <1>2, <1>t DEF AllSpawned
  <2> QED BY <2>1, <1>f
<1>3. CASE GuardCheck \/ SpuriousWakeup \/ DetectDone \/ CallBlock
  <2>1. CASE GuardCheck
    <3>1. pc'[Main] \in {"gsleep", "spawn", "gjoin"}  BY <2>1, <1>t, <1>h DEF GuardCheck, HInv, TypeOK
    <3>2. pc[Main] = "gcheck" /\ \A t \in Thread : pc'[t] = pc[t]  BY <2>1, <1>t DEF GuardCheck
    <3>3. UNCHANGED <<procpend, thrpend, joiner, joinok>>  BY <2>1 DEF GuardCheck
    <3>4. Same  BY <3>1, <3>2, <3>3
    <3> QED BY <3>4, <1>f
  <2>2. CASE SpuriousWakeup
    <3>1. Same  BY <2>2, <1>t DEF SpuriousWakeup
    <3> QED BY <3>1, <1>f
  <2>3. CASE DetectDone
    <3>1. Same  BY <2>3, <1>t DEF DetectDone
    <3> QED BY <3>1, <1>f
  <2>4. CASE CallBlock
    <3>1. Same  BY <2>4, <1>t DEF CallBlock
    <3> QED BY <3>1, <1>f
  <2> QED BY <1>3, <2>1, <2>2, <2>3, <2>4
<1>4. CASE pc[Main] = "block" /\ ReadLeader(Main)
  <2>0. leader # None  BY <1>4, <1>h DEF BMain
  <2>1. Same  BY <1>4, <2>0, <1>t DEF ReadLeader
  <2> QED BY <2>1, <1>f
<1>5. CASE StopJoin(Main)
  <2>1. pc[Main] = "sjoin" /\ leader # None /\ next[1] = N /\ tgt[Main] = N
    BY <1>5, <1>h, <1>m DEF StopJoin, TMain, BMain
  <2>2. ~JoinRefused(Main, tgt[Main])  BY <2>1, <1>h DEF JoinRefused, BQuiet
  <2>3. pc' = [pc EXCEPT ![Main] = "sjoining"] /\ joiner' = [joiner EXCEPT ![N] = Main]
    BY <1>5, <2>1, <2>2 DEF StopJoin
  <2>4. pc'[Main] = "sjoining" /\ joiner'[N] = Main  BY <2>3, <1>t
  <2> QED BY <2>4 DEF BQuiet
<1>6. CASE StopJoined(Main)
  <2>0. tgt[Main] \in Thread  BY <1>6, <1>m, <1>h DEF StopJoined, TMain, BMain
  <2>1. Same  BY <1>6, <2>0, <1>t DEF StopJoined
  <2> QED BY <2>1, <1>f
<1>7. CASE FreeCtx(Main)
  <2>1. Same  BY <1>7, <1>t DEF FreeCtx
  <2> QED BY <2>1, <1>f
<1>8. CASE Signal
  <2>0. pc[Main] \in Joining  BY <1>8 DEF Signal, Orderly
  <2>1. Same  BY <1>8, <2>0, <1>t DEF Signal
  <2> QED BY <2>1, <1>f
<1>9. ASSUME NEW t \in Thread, Link(t) \/ Broadcast(t) \/ Unlock(t) PROVE BQuiet'
  <2>1. CASE Link(t)
    <3>1. Same  BY <2>1, <1>t DEF Link
    <3> QED BY <3>1, <1>f
  <2>2. CASE Broadcast(t)
    <3>1. Same  BY <2>2, <1>t DEF Broadcast
    <3> QED BY <3>1, <1>f
  <2>3. CASE Unlock(t)
    <3>1. Same  BY <2>3, <1>t DEF Unlock
    <3> QED BY <3>1, <1>f
  <2> QED BY <1>9, <2>1, <2>2, <2>3
<1>10. ASSUME NEW t \in Thread, PollSignal(t) \/ PollEvent(t) \/ HandlerReturn(t) \/ Demux(t) PROVE BQuiet'
  <2>1. CASE PollSignal(t)
    <3>0. pc[Main] \in Joining  BY <2>1, <1>h DEF PollSignal, BQuiet
    <3>1. Same  BY <2>1, <3>0, <1>t DEF PollSignal
    <3> QED BY <3>1, <1>f
  <2>2. CASE PollEvent(t)
    <3>1. Same  BY <2>2, <1>t DEF PollEvent
    <3> QED BY <3>1, <1>f
  <2>3. CASE HandlerReturn(t)
    <3>1. Same  BY <2>3, <1>t DEF HandlerReturn
    <3> QED BY <3>1, <1>f
  <2>4. CASE Demux(t)
    <3>0. pc[Main] \in Joining  BY <2>4, <1>s DEF Demux
    <3>1. Same  BY <2>4, <3>0, <1>t DEF Demux
    <3> QED BY <3>1, <1>f
  <2> QED BY <1>10, <2>1, <2>2, <2>3, <2>4
<1>11. ASSUME NEW t \in Thread, TermStep(t) PROVE BQuiet'
  <2>0. pc[Main] \in Joining  BY <1>11, <1>s DEF TermStep, Kill, Join, Joined, Destroy
  <2>1. CASE Kill(t)
    <3>1. Same  BY <2>1, <2>0, <1>t DEF Kill
    <3> QED BY <3>1, <1>f
  <2>2. CASE Join(t)
    <3>1. joiner[N] = Main  BY <2>0, <1>h DEF BQuiet
    <3>2. joiner'[N] = joiner[N] /\ pc'[Main] = pc[Main]
      <4>1. CASE JoinRefused(t, next[t])  BY <2>2, <4>1, <1>t DEF Join
      <4>2. CASE ~JoinRefused(t, next[t])
        <5>1. joiner[next[t]] = None /\ joiner' = [joiner EXCEPT ![next[t]] = t]
              /\ pc' = [pc EXCEPT ![t] = "joining"]
          BY <2>2, <4>2 DEF Join, JoinRefused
        <5>2. next[t] # N  BY <5>1, <3>1
        <5> QED BY <5>1, <5>2, <1>t
      <4> QED BY <4>1, <4>2
    <3>3. Same  BY <2>0, <3>2
    <3> QED BY <3>3, <1>f
  <2>3. CASE Joined(t)
    <3>0. tgt[t] \in Thread  BY <2>3, <1>r DEF Joined, HTgt
    <3>1. Same  BY <2>3, <3>0, <2>0, <1>t DEF Joined
    <3> QED BY <3>1, <1>f
  <2>4. CASE Destroy(t)
    <3>1. Same  BY <2>4, <2>0, <1>t DEF Destroy
    <3> QED BY <3>1, <1>f
  <2> QED BY <1>11, <2>1, <2>2, <2>3, <2>4 DEF TermStep
<1> QED BY <1>1, <1>2, <1>3, <1>4, <1>5, <1>6, <1>7, <1>8, <1>9, <1>10, <1>11, OrderlySteps
\* Who reaped whom, and which evhandlers are live.
LEMMA BReapedNext ==
    ASSUME Orderly, HInv, TInv, BInv, Next, ~UNCHANGED vars
    PROVE  BReaped'
<1> USE NAssumption DEF Main, Proc, Thread, None
<1>t. /\ pc \in [Proc -> MainLabels \cup ThreadLabels] /\ started \in 0 .. N
      /\ leader \in Thread \cup {None} /\ next \in [Thread -> Thread \cup {None}]
      /\ joiner \in [Thread -> Proc \cup {None}]
      /\ evh \in [Thread -> {"none", "live", "freed"}]
  BY Typed
<1>h. BMain /\ BQuiet /\ BReaped  BY DEF BInv
<1>r. HRing /\ HTgt /\ HCount /\ HLock /\ GuardAlive  BY DEF HInv
<1>m. TMain /\ TJoin  BY DEF TInv
<1> USE DEF GoneLabels
\* no thread is reaped, none leaves "destroy" but to exit, no evhandler is
\* freed but by a thread that exits
<1> DEFINE Same == /\ joinok => joinok'
                   /\ \A t \in Thread : pc'[t] = "reaped" => pc[t] = "reaped"
                   /\ \A t \in Thread : pc[t] \in {"destroy"} \cup GoneLabels => pc'[t] \in {"destroy"} \cup GoneLabels
                   /\ \A t \in Thread : next'[t] # None /\ pc'[t] \notin GoneLabels =>
                        \/ evh'[t] = "live"
                        \/ next[t] # None /\ pc[t] \notin GoneLabels /\ evh'[t] = evh[t]
<1>f. Same => BReaped'
  <2> SUFFICES ASSUME Same PROVE BReaped'
    OBVIOUS
  <2>1. ASSUME NEW t \in Thread, pc'[t] = "reaped"
        PROVE  IF t = N THEN joinok' ELSE pc'[t + 1] \in {"destroy"} \cup GoneLabels
    <3>1. IF t = N THEN joinok ELSE pc[t + 1] \in {"destroy"} \cup GoneLabels
      BY <2>1, <1>h DEF BReaped
    <3>2. CASE t = N  BY <3>1, <3>2
    <3>3. CASE t # N
      <4>1. t + 1 \in Thread  BY <3>3
      <4> QED BY <3>1, <3>3, <4>1
    <3> QED BY <3>2, <3>3
  <2>2. ASSUME NEW t \in Thread, next'[t] # None, pc'[t] \notin GoneLabels PROVE evh'[t] = "live"
    BY <2>2, <1>h DEF BReaped
  <2> QED BY <2>1, <2>2 DEF BReaped
<1> USE DEF Goto, guardvars, ringvars, sigvars, joinvars
<1>1. CASE SpawnThread
  <2>1. started + 1 \in Thread /\ pc[started + 1] = "none" /\ next[started + 1] = None
    BY <1>1, <1>t, <1>r DEF SpawnThread, HLock, HCount
  <2>2. Same  BY <1>1, <2>1, <1>t DEF SpawnThread
  <2> QED BY <2>2, <1>f
<1>2. CASE AllSpawned \/ GuardCheck \/ SpuriousWakeup \/ DetectDone \/ CallBlock
           \/ (pc[Main] = "block" /\ ReadLeader(Main)) \/ StopJoin(Main) \/ FreeCtx(Main) \/ Signal
  <2>1. UNCHANGED <<next, evh, joinok>>
    BY <1>2 DEF AllSpawned, GuardCheck, SpuriousWakeup, DetectDone, CallBlock, ReadLeader, StopJoin,
                FreeCtx, Signal
  <2>2. \A t \in Thread : pc'[t] = pc[t]
    BY <1>2, <1>t DEF AllSpawned, GuardCheck, SpuriousWakeup, DetectDone, CallBlock, ReadLeader, StopJoin,
                FreeCtx, Signal
  <2>3. Same  BY <2>1, <2>2
  <2> QED BY <2>3, <1>f
<1>6. CASE StopJoined(Main)
  <2>0. tgt[Main] = N /\ pc[N] = "exited"
    BY <1>6, <1>m, <1>h DEF StopJoined, TMain, BMain, Joining
  <2>1. joinok'  BY <1>6, Zenon DEF StopJoined
  <2>2. /\ pc'[N] = "reaped" /\ \A s \in Thread \ {N} : pc'[s] = pc[s]
        /\ UNCHANGED <<next, evh>>
    BY <1>6, <2>0, <1>t DEF StopJoined
  <2>3. ASSUME NEW t \in Thread, pc'[t] = "reaped"
        PROVE  IF t = N THEN joinok' ELSE pc'[t + 1] \in {"destroy"} \cup GoneLabels
    <3>1. CASE t = N  BY <3>1, <2>1
    <3>2. CASE t # N
      <4>1. t + 1 \in Thread /\ pc[t + 1] \in {"destroy"} \cup GoneLabels
        BY <2>2, <2>3, <3>2, <1>h DEF BReaped
      <4> QED BY <2>0, <2>2, <3>2, <4>1
    <3> QED BY <3>1, <3>2
  <2>4. \A t \in Thread : next'[t] # None /\ pc'[t] \notin GoneLabels => evh'[t] = "live"
    BY <2>0, <2>2, <1>h DEF BReaped
  <2> QED BY <2>3, <2>4 DEF BReaped
<1>9. ASSUME NEW t \in Thread, Link(t) \/ Broadcast(t) \/ Unlock(t) PROVE BReaped'
  <2>1. CASE Link(t)
    <3>1. /\ pc[t] = "start" /\ pc' = [pc EXCEPT ![t] = "bcast"] /\ evh' = [evh EXCEPT ![t] = "live"]
          /\ UNCHANGED joinok
      BY <2>1 DEF Link
    <3>2. \A s \in Thread : s # t /\ next'[s] # None => next[s] # None
      <4>1. CASE leader = None  BY <2>1, <4>1, <1>t DEF Link
      <4>2. CASE leader # None
        <5>1. leader = 1 /\ next[1] # None  BY <4>2, <1>r DEF HRing
        <5> QED BY <2>1, <4>2, <5>1, <1>t DEF Link
      <4> QED BY <4>1, <4>2
    <3>3. Same  BY <3>1, <3>2, <1>t
    <3> QED BY <3>3, <1>f
  <2>2. CASE Broadcast(t)
    <3>1. Same  BY <2>2, <1>t DEF Broadcast
    <3> QED BY <3>1, <1>f
  <2>3. CASE Unlock(t)
    <3>1. Same  BY <2>3, <1>t DEF Unlock
    <3> QED BY <3>1, <1>f
  <2> QED BY <1>9, <2>1, <2>2, <2>3
<1>10. ASSUME NEW t \in Thread, PollSignal(t) \/ PollEvent(t) \/ HandlerReturn(t) \/ Demux(t) PROVE BReaped'
  <2>1. /\ pc[t] \in {"poll", "handler", "demux"}
        /\ \E l \in {"poll", "handler", "demux", "kill"} : pc' = [pc EXCEPT ![t] = l]
        /\ UNCHANGED <<next, evh, joinok>>
    BY <1>10 DEF PollSignal, PollEvent, HandlerReturn, Demux
  <2>2. Same  BY <2>1, <1>t
  <2> QED BY <2>2, <1>f
<1>11. ASSUME NEW t \in Thread, TermStep(t) PROVE BReaped'
  <2>0. pc[Main] \in Joining /\ joiner[N] = Main /\ leader # None /\ next[1] = N
    BY <1>11, <1>h DEF TermStep, Kill, Join, Joined, Destroy, BQuiet, BMain, TermLabels
  <2>1. CASE Kill(t)
    <3>1. Same  BY <2>1, <1>t DEF Kill
    <3> QED BY <3>1, <1>f
  <2>2. CASE Join(t)
    <3>1. /\ pc[t] = "join" /\ \E l \in {"destroy", "joining"} : pc' = [pc EXCEPT ![t] = l]
          /\ UNCHANGED <<next, evh, joinok>>
      BY <2>2 DEF Join
    <3>2. Same  BY <3>1, <1>t
    <3> QED BY <3>2, <1>f
  <2>3. CASE Joined(t)
    <3>1. pc[t] = "joining" /\ tgt[t] = next[t] /\ joiner[next[t]] = t /\ next[t] \in Thread
      BY <2>3, <1>m, <1>r DEF Joined, TJoin, HTgt
    <3>2. t > 1 /\ next[t] = t - 1 /\ t - 1 \in Thread /\ pc[t - 1] = "exited"
      <4>1. t # 1  BY <3>1, <2>0
      <4>2. t > 1 /\ t <= next[1]  BY <4>1, <2>0
      <4> QED BY <2>3, <3>1, <4>2, <2>0, <1>r DEF Joined, HRing
    <3>3. /\ pc'[t] = "destroy" /\ pc'[t - 1] = "reaped"
          /\ \A s \in Thread \ {t, t - 1} : pc'[s] = pc[s]
          /\ UNCHANGED <<next, evh, joinok>>
      BY <2>3, <3>1, <3>2, <1>t DEF Joined
    <3>4. ASSUME NEW s \in Thread, pc'[s] = "reaped"
          PROVE  IF s = N THEN joinok' ELSE pc'[s + 1] \in {"destroy"} \cup GoneLabels
      <4>1. CASE s = t - 1  BY <4>1, <3>2, <3>3
      <4>2. CASE s # t - 1
        <5>1. pc[s] = "reaped" /\ s # t  BY <3>3, <3>4, <4>2
        <5>2. IF s = N THEN joinok ELSE pc[s + 1] \in {"destroy"} \cup GoneLabels
          BY <5>1, <1>h DEF BReaped
        <5>3. CASE s = N  BY <5>2, <5>3, <3>3
        <5>4. CASE s # N
          <6>1. s + 1 \in Thread /\ s + 1 # t  BY <5>4, <4>2
          <6> QED BY <5>2, <5>4, <6>1, <3>3
        <5> QED BY <5>3, <5>4
      <4> QED BY <4>1, <4>2
    <3>5. \A s \in Thread : next'[s] # None /\ pc'[s] \notin GoneLabels => evh'[s] = "live"
      BY <3>1, <3>2, <3>3, <1>h DEF BReaped
    <3> QED BY <3>4, <3>5 DEF BReaped
  <2>4. CASE Destroy(t)
    <3>1. Same  BY <2>4, <1>t DEF Destroy
    <3> QED BY <3>1, <1>f
  <2> QED BY <1>11, <2>1, <2>2, <2>3, <2>4 DEF TermStep
<1> QED BY <1>1, <1>2, <1>6, <1>9, <1>10, <1>11, OrderlySteps
\* The thread a terminating thread signals and joins has not been reaped.
LEMMA SuccessorKept ==
    ASSUME HInv, TInv, BInv, NEW t \in Thread, pc[t] \in {"kill", "join"}
    PROVE  pc[next[t]] # "reaped"
<1> USE NAssumption DEF Main, Proc, Thread, None
<1>h. BMain /\ BQuiet /\ BReaped /\ HRing  BY DEF BInv, HInv
<1>1. pc[Main] \in Joining /\ leader # None /\ next[1] = N
  BY <1>h DEF BQuiet, BMain, TermLabels
<1>2. CASE t = 1
  <2>1. pc[N] = "reaped" => joinok  BY <1>h DEF BReaped
  <2>2. joinok => pc[Main] \in {"sfree", "done"}  BY DEF TInv, TMain
  <2>3. pc[Main] \notin {"sfree", "done"}  BY AllGone DEF GoneLabels
  <2> QED BY <1>1, <1>2, <2>1, <2>2, <2>3
<1>3. CASE t > 1
  <2>1. next[t] = t - 1 /\ t - 1 \in Thread  BY <1>1, <1>3, <1>h DEF HRing
  <2>2. pc[t - 1] = "reaped" => pc[t] \in {"destroy"} \cup GoneLabels
    <3>1. t - 1 # N /\ (t - 1) + 1 = t  BY <1>3
    <3> QED BY <2>1, <3>1, <1>h DEF BReaped
  <2> QED BY <2>1, <2>2 DEF GoneLabels
<1> QED BY <1>2, <1>3

\* No step of an orderly shutdown touches what was released.
LEMMA NoFaultNext ==
    ASSUME Orderly, HInv, TInv, BInv, Next, ~UNCHANGED vars
    PROVE  NoFault'
<1> USE NAssumption DEF Main, Proc, Thread, None
<1>h. BMain /\ BQuiet /\ BReaped /\ fault = "none"  BY DEF BInv, NoFault
<1>t. ctx \in {"live", "freed"} /\ leader \in Thread \cup {None}  BY Typed
<1>l. ASSUME NEW t \in Thread, pc[t] \notin GoneLabels PROVE ctx = "live"
  <2>1. pc[Main] # "done"  BY <1>l, AllGone
  <2> QED BY <2>1, <1>h, <1>t DEF BMain
<1>v. pc[Main] \notin Joining /\ leader # None => evh[leader] = "live"
  <2> SUFFICES ASSUME pc[Main] \notin Joining, leader # None PROVE evh[leader] = "live"
    OBVIOUS
  <2>1. leader = 1 /\ next[1] # None  BY DEF HInv, HRing
  <2>2. pc[1] \notin GoneLabels  BY <1>h DEF BQuiet
  <2> QED BY <2>1, <2>2, <1>h DEF BReaped
<1> USE DEF NoFault, Uses
<1>1. CASE SpawnThread \/ AllSpawned \/ GuardCheck \/ SpuriousWakeup \/ DetectDone \/ CallBlock
           \/ StopJoined(Main) \/ Signal
  BY <1>1, <1>h DEF SpawnThread, AllSpawned, GuardCheck, SpuriousWakeup, DetectDone, CallBlock,
                    StopJoined, Signal
<1>2. CASE pc[Main] = "block" /\ ReadLeader(Main)
  <2>1. ctx = "live" /\ pc[Main] \notin Joining  BY <1>2, <1>h, <1>t DEF BMain, Joining
  <2> QED BY <1>2, <2>1, <1>h, <1>v DEF ReadLeader
<1>3. CASE StopJoin(Main)
  <2>1. tgt[Main] = N /\ pc[Main] \notin Joining
    BY <1>3, <1>h DEF StopJoin, TInv, TMain, BMain, Joining
  <2>2. pc[N] # "reaped"  BY <2>1, <1>h DEF BQuiet, GoneLabels
  <2> QED BY <1>3, <2>1, <2>2, <1>h DEF StopJoin
<1>4. CASE FreeCtx(Main)  BY <1>4, <1>h, <1>t DEF FreeCtx, BMain
<1>5. ASSUME NEW t \in Thread, Link(t) PROVE NoFault'
  <2>1. pc[Main] \notin Joining  BY <1>5 DEF Link, HInv, GuardAlive, GuardLabels, Joining
  <2> QED BY <1>5, <2>1, <1>h, <1>v DEF Link
<1>6. ASSUME NEW t \in Thread, Broadcast(t) \/ Unlock(t) \/ PollSignal(t) \/ PollEvent(t) \/ Joined(t)
      PROVE  NoFault'
  BY <1>6, <1>h DEF Broadcast, Unlock, PollSignal, PollEvent, Joined
<1>7. ASSUME NEW t \in Thread, HandlerReturn(t) \/ Demux(t) \/ Destroy(t) PROVE NoFault'
  <2>1. ctx = "live"  BY <1>7, <1>l DEF HandlerReturn, Demux, Destroy, GoneLabels
  <2> QED BY <1>7, <2>1, <1>h DEF HandlerReturn, Demux, Destroy
<1>8. ASSUME NEW t \in Thread, Kill(t) \/ Join(t) PROVE NoFault'
  <2>1. pc[next[t]] # "reaped"  BY <1>8, SuccessorKept DEF Kill, Join
  <2> QED BY <1>8, <2>1, <1>h DEF Kill, Join
<1> QED BY <1>1, <1>2, <1>3, <1>4, <1>5, <1>6, <1>7, <1>8, OrderlySteps DEF TermStep

\* Together: the orderly shutdown's invariant.
LEMMA ShutdownNext ==
    ASSUME Orderly, HInv, TInv, BInv, [Next]_vars
    PROVE  HInv' /\ TInv' /\ BInv'
<1>1. HInv'  BY TypeNext, HandshakeNext, TargetNext DEF HInv
<1>2. TInv'  BY Calm, JoinNext, MainNext, OrderNext, QuietNext, ChainNext DEF TInv
<1>3. BInv'
  <2>1. CASE UNCHANGED vars
    BY <2>1 DEF vars, guardvars, ringvars, sigvars, joinvars, BInv, BMain, BQuiet, BReaped, NoFault
  <2>2. CASE Next /\ ~UNCHANGED vars
    BY <2>2, BMainNext, BQuietNext, BReapedNext, NoFaultNext DEF BInv
  <2> QED BY <2>1, <2>2
<1> QED BY <1>1, <1>2, <1>3

\* The invariant of an orderly shutdown holds throughout.
LEMMA ShutdownInvariant == Orderly /\ Spec => [](HInv /\ TInv /\ BInv)
<1>1. Orderly /\ Init => HInv /\ TInv /\ BInv  BY HandshakeInit, TeardownInit, ShutdownInit
<1>2. Orderly /\ (HInv /\ TInv /\ BInv) /\ [Next]_vars => (HInv /\ TInv /\ BInv)'  BY ShutdownNext
<1>3. Orderly => Orderly'  BY DEF Orderly
<1> QED BY <1>1, <1>2, <1>3, PTL DEF Spec

-----------------------------------------------------------------------------
(* Theorems.                                                                 *)

\* For every number of processors: with torque_block() waiting, nobody touches
\* a freed context, a freed evhandler or a reaped tid.
THEOREM ShutdownSafe == Orderly /\ Spec => []NoFault
<1>1. BInv => NoFault  BY DEF BInv
<1> QED BY <1>1, ShutdownInvariant, PTL

\* For every number of processors: torque_block() frees the context only when
\* all of its threads have exited.
THEOREM FreedLast == Orderly /\ Spec => []FreedMeansReaped
<1>1. HInv /\ TInv /\ BInv => FreedMeansReaped
  <2> SUFFICES ASSUME HInv, TInv, BInv, ctx = "freed" PROVE \A t \in Linked : Gone(t)
    BY DEF FreedMeansReaped
  <2>1. pc[Main] = "done"  BY DEF BInv, BMain
  <2> QED BY <2>1, AllGone DEF Linked, Gone
<1> QED BY <1>1, ShutdownInvariant, PTL

\* For every number of processors: threads exit in the order in which they
\* linked, which is why torque_block() joins the last one only.
THEOREM LinkOrder == Orderly /\ Spec => ExitsInLinkOrder
<1>1. HInv /\ TInv /\ BInv =>
        \A t \in Linked : (pc[t] = "destroy" /\ pc'[t] = "exited") => \A s \in Linked : s < t => Gone(s)
  <2> SUFFICES ASSUME HInv, TInv, BInv, NEW t \in Linked, pc[t] = "destroy", NEW s \in Linked, s < t
               PROVE  Gone(s)
    OBVIOUS
  <2> USE NAssumption DEF Main, Proc, Thread, None, Linked
  <2>1. joiner[next[1]] = 0
    BY DEF BInv, BQuiet, BMain, TermLabels
  <2>2. t > 1 /\ t - 1 \in Thread /\ next[t - 1] # None
    BY DEF HInv, HRing
  <2>3. pc[t - 1] \in GoneLabels  BY <2>1, <2>2 DEF TInv, TOrder
  <2>4. \A r \in Thread : r < t - 1 => pc[r] \in GoneLabels  BY <2>1, <2>2, <2>3 DEF TInv, TOrder
  <2> QED BY <2>2, <2>3, <2>4 DEF Gone
<1> QED BY <1>1, ShutdownInvariant, PTL DEF ExitsInLinkOrder
-----------------------------------------------------------------------------
(* The refinement of Lifecycle.                                              *)

\* The abstract phase, by where process 0 is.
PhaseByMain ==
    /\ pc[Main] \in InitLabels => Phase = "init"
    /\ pc[Main] \in {"run", "block", "sjoin"} => Phase = "serving"
    /\ pc[Main] \in {"sjoining", "sfree"} =>
         Phase = IF \E t \in Thread : pc[t] \in TermLabels \cup GoneLabels THEN "stopping" ELSE "serving"
    /\ pc[Main] = "done" => Phase = "gone"

\* Before process 0 is inside pthread_join() the context is starting or
\* serving; then the first thread that takes a signal decides.
LEMMA PhaseKnown == HInv /\ TInv /\ BInv => PhaseByMain
<1> SUFFICES ASSUME HInv, TInv, BInv PROVE PhaseByMain
  OBVIOUS
<1> USE NAssumption DEF Main, Proc, Thread, None
<1>h. BMain /\ BQuiet /\ HRing  BY DEF BInv, HInv
<1>t. ctx \in {"live", "freed"}  BY Typed
<1>1. pc[Main] = "done" => Phase = "gone"  BY <1>h DEF BMain, Phase
<1>2. pc[Main] # "done" => ctx = "live" /\ ctx # "freed"  BY <1>h, <1>t DEF BMain
<1>3. pc[Main] \notin Joining => ~\E t \in Linked : pc[t] \in TermLabels \/ Gone(t)
  BY <1>h DEF BQuiet, Gone, Linked
<1>4. ASSUME pc[Main] \in InitLabels PROVE Phase = "init"
  <2>1. pc[Main] \notin Joining /\ pc[Main] # "done"  BY <1>4 DEF InitLabels, Joining
  <2> QED BY <1>2, <1>3, <1>4, <2>1 DEF Phase
<1>5. ASSUME pc[Main] \in {"run", "block", "sjoin"} PROVE Phase = "serving"
  <2>1. pc[Main] \notin Joining /\ pc[Main] # "done" /\ pc[Main] \notin InitLabels
    BY <1>5 DEF InitLabels, Joining
  <2> QED BY <1>2, <1>3, <2>1 DEF Phase
<1>6. ASSUME pc[Main] \in {"sjoining", "sfree"}
      PROVE  Phase = IF \E t \in Thread : pc[t] \in TermLabels \cup GoneLabels THEN "stopping" ELSE "serving"
  <2>1. pc[Main] # "done" /\ pc[Main] \notin InitLabels  BY <1>6 DEF InitLabels
  <2>2. \A t \in Thread : next[t] # None  BY <1>6, <1>h DEF BMain, Joining, HRing
  <2>3. (\E t \in Linked : pc[t] \in TermLabels \/ Gone(t))
          <=> (\E t \in Thread : pc[t] \in TermLabels \cup GoneLabels)
    BY <2>2 DEF Linked, Gone
  <2> QED BY <1>2, <2>1, <2>3 DEF Phase
<1> QED BY <1>1, <1>4, <1>5, <1>6 DEF PhaseByMain

\* The initial state is an initial state of Lifecycle.
LEMMA LifecycleInit == Orderly /\ Init => Abstract!LInit
<1> SUFFICES ASSUME Orderly, Init PROVE Abstract!LInit
  OBVIOUS
<1>1. Alive = {}  BY NAssumption DEF Init, Alive, Main, Proc, Thread
<1>2. PhaseByMain  BY HandshakeInit, TeardownInit, ShutdownInit, PhaseKnown
<1>3. pc[Main] = "spawn"  BY NAssumption DEF Init, Main, Proc
<1>4. Phase = "init"  BY <1>2, <1>3 DEF PhaseByMain, InitLabels
<1> QED BY <1>1, <1>4 DEF Abstract!LInit
\* Every step is a step of Lifecycle, or none.
LEMMA LifecycleStep ==
    ASSUME Orderly, HInv, TInv, BInv, Next, ~UNCHANGED vars, PhaseByMain, PhaseByMain'
    PROVE  Abstract!LNext \/ (Alive' = Alive /\ Phase' = Phase)
<1> USE NAssumption DEF Main, Proc, Thread, None
<1>t. /\ pc \in [Proc -> MainLabels \cup ThreadLabels] /\ started \in 0 .. N
      /\ gstatus \in {"UNLAUNCHED", "PREFAIL", "STARTED"}
  BY Typed
<1>h. BMain /\ BQuiet  BY DEF BInv
<1>p. /\ pc[Main] \in InitLabels => Phase = "init"
      /\ pc[Main] \in {"run", "block", "sjoin"} => Phase = "serving"
      /\ pc[Main] \in {"sjoining", "sfree"} =>
           Phase = IF \E t \in Thread : pc[t] \in TermLabels \cup GoneLabels THEN "stopping" ELSE "serving"
      /\ pc[Main] = "done" => Phase = "gone"
  BY DEF PhaseByMain
<1>q. /\ pc'[Main] \in InitLabels => Phase' = "init"
      /\ pc'[Main] \in {"run", "block", "sjoin"} => Phase' = "serving"
      /\ pc'[Main] \in {"sjoining", "sfree"} =>
           Phase' = IF \E t \in Thread : pc'[t] \in TermLabels \cup GoneLabels THEN "stopping" ELSE "serving"
      /\ pc'[Main] = "done" => Phase' = "gone"
  BY DEF PhaseByMain
<1>a. (\A t \in Thread : (pc'[t] # "none" /\ pc'[t] \notin GoneLabels) <=> (pc[t] # "none" /\ pc[t] \notin GoneLabels))
        => Alive' = Alive
  BY DEF Alive, Gone
<1>l. \A t \in Thread : pc[t] \in TermLabels \cup GoneLabels \cup {"demux"} => pc[Main] \in Joining
  BY <1>h DEF BQuiet
<1>g. pc[Main] \in {"sfree", "done"} => \A t \in Thread : pc[t] \in GoneLabels
  BY AllGone
<1> USE DEF Goto, guardvars, ringvars, sigvars, joinvars, InitLabels, Joining
<1>1. CASE SpawnThread
  <2>1. started + 1 \in Thread /\ pc[started + 1] = "none"
    BY <1>1, <1>t DEF SpawnThread, HInv, HLock
  <2>2. pc[Main] = "spawn" /\ pc'[Main] = "gcheck" /\ pc'[started + 1] = "start"
        /\ \A t \in Thread : t # started + 1 => pc'[t] = pc[t]
    BY <1>1, <2>1, <1>t DEF SpawnThread
  <2>3. Phase = "init" /\ Phase' = "init"  BY <2>2, <1>p, <1>q
  <2>4. Alive' = Alive \cup {started + 1} /\ started + 1 \notin Alive
    BY <2>1, <2>2 DEF Alive, Gone, GoneLabels
  <2>5. Abstract!Start(started + 1)  BY <2>3, <2>4 DEF Abstract!Start
  <2> QED BY <2>1, <2>5 DEF Abstract!LNext
<1>2. CASE AllSpawned \/ GuardCheck \/ SpuriousWakeup
  <2>1. pc[Main] \in InitLabels /\ pc'[Main] \in InitLabels
    BY <1>2, <1>t DEF AllSpawned, GuardCheck, SpuriousWakeup
  <2>2. \A t \in Thread : pc'[t] = pc[t]  BY <1>2, <1>t DEF AllSpawned, GuardCheck, SpuriousWakeup
  <2> QED BY <2>1, <2>2, <1>a, <1>p, <1>q
<1>3. CASE DetectDone
  <2>1. pc[Main] = "detect" /\ pc'[Main] = "run" /\ \A t \in Thread : pc'[t] = pc[t]
    BY <1>3, <1>t DEF DetectDone
  <2>2. Phase = "init" /\ Phase' = "serving" /\ Alive' = Alive  BY <2>1, <1>a, <1>p, <1>q
  <2>3. Abstract!Serve  BY <2>2 DEF Abstract!Serve
  <2> QED BY <2>3 DEF Abstract!LNext
<1>4. CASE CallBlock \/ (pc[Main] = "block" /\ ReadLeader(Main)) \/ StopJoin(Main)
  <2>1. \A t \in Thread : pc'[t] = pc[t]  BY <1>4, <1>t DEF CallBlock, ReadLeader, StopJoin
  <2>2. pc[Main] \in {"run", "block", "sjoin"}  BY <1>4 DEF CallBlock, StopJoin
  <2>3. pc'[Main] \in {"block", "sjoin", "skill", "sfree", "sjoining"}
    BY <1>4, <1>t DEF CallBlock, ReadLeader, StopJoin
  <2>4. pc'[Main] # "skill"  BY <1>4, <1>t DEF CallBlock, ReadLeader, StopJoin
  <2>5. \A t \in Thread : pc'[t] \notin TermLabels \cup GoneLabels  BY <2>1, <2>2, <1>l
  <2>6. Phase = "serving" /\ Phase' = "serving"  BY <2>2, <2>3, <2>4, <2>5, <1>p, <1>q
  <2> QED BY <2>1, <2>6, <1>a
<1>5. CASE StopJoined(Main)
  <2>1. tgt[Main] \in Thread /\ pc[tgt[Main]] = "exited"  BY <1>5 DEF StopJoined, HInv, HTgt
  <2>2. /\ pc[Main] = "sjoining" /\ pc'[Main] = "sfree" /\ pc'[tgt[Main]] = "reaped"
        /\ \A t \in Thread : t # tgt[Main] => pc'[t] = pc[t]
    BY <1>5, <2>1, <1>t DEF StopJoined
  <2>3. Phase = "stopping" /\ Phase' = "stopping"  BY <2>1, <2>2, <1>p, <1>q DEF GoneLabels
  <2>4. Alive' = Alive  BY <2>1, <2>2, <1>a DEF GoneLabels
  <2> QED BY <2>3, <2>4
<1>6. CASE FreeCtx(Main)
  <2>1. pc[Main] = "sfree" /\ pc'[Main] = "done" /\ \A t \in Thread : pc'[t] = pc[t]
    BY <1>6, <1>t DEF FreeCtx
  <2>2. \A t \in Thread : pc[t] \in GoneLabels  BY <2>1, <1>g
  <2>3. 1 \in Thread  OBVIOUS
  <2>4. Phase = "stopping" /\ Phase' = "gone"  BY <2>1, <2>2, <2>3, <1>p, <1>q
  <2>5. Alive = {} /\ Alive' = Alive  BY <2>1, <2>2, <1>a DEF Alive, Gone
  <2>6. Abstract!Release  BY <2>4, <2>5 DEF Abstract!Release
  <2> QED BY <2>6 DEF Abstract!LNext
<1>7. CASE Signal
  <2>1. pc' = pc  BY <1>7 DEF Signal
  <2>2. pc[Main] \in InitLabels \cup {"run", "block", "sjoin"} \cup Joining  BY <1>h DEF BMain
  <2>3. Phase' = Phase  BY <2>1, <2>2, <1>p, <1>q
  <2> QED BY <2>1, <2>3, <1>a
<1> DEFINE Quiet(t) == /\ pc'[Main] = pc[Main] \/ (pc[Main] \in InitLabels /\ pc'[Main] \in InitLabels)
                       /\ pc[t] \notin TermLabels \cup GoneLabels \cup {"none"}
                       /\ pc'[t] \notin TermLabels \cup GoneLabels \cup {"none"}
                       /\ \A s \in Thread : s # t => pc'[s] = pc[s]
<1>8. ASSUME NEW t \in Thread, Quiet(t) PROVE Alive' = Alive /\ Phase' = Phase
  <2>1. \A s \in Thread : pc'[s] \in TermLabels \cup GoneLabels <=> pc[s] \in TermLabels \cup GoneLabels
    BY <1>8
  <2>2. pc[Main] \in InitLabels \cup {"run", "block", "sjoin"} \cup Joining  BY <1>h DEF BMain
  <2>3. Phase' = Phase
    <3>1. CASE pc[Main] \in InitLabels /\ pc'[Main] \in InitLabels  BY <3>1, <1>p, <1>q
    <3>2. CASE pc'[Main] = pc[Main]  BY <2>1, <2>2, <3>2, <1>p, <1>q
    <3> QED BY <1>8, <3>1, <3>2
  <2>4. Alive' = Alive
    <3>1. \A s \in Thread : (pc'[s] # "none" /\ pc'[s] \notin GoneLabels) <=> (pc[s] # "none" /\ pc[s] \notin GoneLabels)
      BY <1>8
    <3> QED BY <3>1, <1>a
  <2> QED BY <2>3, <2>4
<1>9. ASSUME NEW t \in Thread, Link(t) \/ Broadcast(t) \/ Unlock(t) \/ PollSignal(t) \/ PollEvent(t) \/ HandlerReturn(t)
      PROVE  Alive' = Alive /\ Phase' = Phase
  <2>1. CASE Broadcast(t)
    <3>1. Quiet(t)  BY <2>1, <1>t DEF Broadcast, TermLabels, GoneLabels
    <3> QED BY <3>1, <1>8
  <2>2. CASE ~Broadcast(t)
    <3>1. /\ pc[t] \in {"start", "unlock", "poll", "handler"}
          /\ \E l \in {"bcast", "poll", "edestroy", "demux", "handler"} : pc' = [pc EXCEPT ![t] = l]
      BY <1>9, <2>2 DEF Link, Unlock, PollSignal, PollEvent, HandlerReturn
    <3>2. Quiet(t)  BY <3>1, <1>t DEF TermLabels, GoneLabels
    <3> QED BY <3>2, <1>8
  <2> QED BY <2>1, <2>2
<1>10. ASSUME NEW t \in Thread, Demux(t) PROVE Abstract!LNext \/ (Alive' = Alive /\ Phase' = Phase)
  <2>1. pc[t] = "demux" /\ \E l \in {"kill", "poll"} : pc' = [pc EXCEPT ![t] = l]  BY <1>10 DEF Demux
  <2>2. CASE pc' = [pc EXCEPT ![t] = "poll"]
    <3>1. Quiet(t)  BY <2>1, <2>2, <1>t DEF TermLabels, GoneLabels
    <3> QED BY <3>1, <1>8
  <2>3. CASE pc' = [pc EXCEPT ![t] = "kill"]
    <3>1. pc'[t] = "kill" /\ pc'[Main] = pc[Main] /\ \A s \in Thread : s # t => pc'[s] = pc[s]
      BY <2>3, <1>t
    <3>2. pc[Main] = "sjoining"
      BY <2>1, <1>l, <1>g DEF GoneLabels
    <3>3. Alive' = Alive  BY <2>1, <3>1, <1>a DEF GoneLabels
    <3>4. Phase \in {"serving", "stopping"} /\ Phase' = "stopping"
      BY <3>1, <3>2, <1>p, <1>q DEF TermLabels
    <3>5. Phase = "serving" => Abstract!Terminate  BY <3>3, <3>4 DEF Abstract!Terminate
    <3> QED BY <3>3, <3>4, <3>5 DEF Abstract!LNext
  <2> QED BY <2>1, <2>2, <2>3
<1>11. ASSUME NEW t \in Thread, TermStep(t) PROVE Abstract!LNext \/ (Alive' = Alive /\ Phase' = Phase)
  <2>0. pc[t] \in TermLabels  BY <1>11 DEF TermStep, Kill, Join, Joined, Destroy, TermLabels
  <2>1. pc[Main] = "sjoining"
    BY <2>0, <1>l, <1>g DEF GoneLabels, TermLabels
  <2>2. Phase = "stopping"  BY <2>0, <2>1, <1>p
  <2>3. CASE Kill(t) \/ Join(t)
    <3>1. \E l \in {"join", "destroy", "joining"} : pc' = [pc EXCEPT ![t] = l]  BY <2>3 DEF Kill, Join
    <3>2. pc'[t] \in TermLabels /\ pc'[Main] = pc[Main] /\ \A s \in Thread : s # t => pc'[s] = pc[s]
      BY <3>1, <1>t DEF TermLabels
    <3>3. Phase' = "stopping"  BY <2>1, <3>2, <1>q
    <3>4. Alive' = Alive  BY <2>0, <3>2, <1>a DEF TermLabels, GoneLabels
    <3> QED BY <2>2, <3>3, <3>4
  <2>4. CASE Joined(t)
    <3>1. tgt[t] \in Thread /\ pc[tgt[t]] = "exited" /\ tgt[t] # t  BY <2>4 DEF Joined, HInv, HTgt
    <3>2. /\ pc'[t] = "destroy" /\ pc'[tgt[t]] = "reaped" /\ pc'[Main] = pc[Main]
          /\ \A s \in Thread : s # t /\ s # tgt[t] => pc'[s] = pc[s]
      BY <2>4, <3>1, <1>t DEF Joined
    <3>3. Phase' = "stopping"  BY <2>1, <3>2, <1>q DEF TermLabels
    <3>4. Alive' = Alive  BY <2>0, <3>1, <3>2, <1>a DEF TermLabels, GoneLabels
    <3> QED BY <2>2, <3>3, <3>4
  <2>5. CASE Destroy(t)
    <3>1. pc[t] = "destroy" /\ pc'[t] = "exited" /\ pc'[Main] = pc[Main] /\ \A s \in Thread : s # t => pc'[s] = pc[s]
      BY <2>5, <1>t DEF Destroy
    <3>2. Phase' = "stopping"  BY <2>1, <3>1, <1>q DEF GoneLabels
    <3>3. t \in Alive /\ Alive' = Alive \ {t}  BY <3>1 DEF Alive, Gone, GoneLabels
    <3>4. Abstract!Exit(t)  BY <2>2, <3>2, <3>3 DEF Abstract!Exit
    <3> QED BY <3>4 DEF Abstract!LNext
  <2> QED BY <1>11, <2>3, <2>4, <2>5 DEF TermStep
<1> QED BY <1>1, <1>2, <1>3, <1>4, <1>5, <1>6, <1>7, <1>9, <1>10, <1>11, OrderlySteps
\* For every number of processors: what the ring of pthread_kill() and
\* pthread_join() calls does under torque_block() is an orderly shutdown, step
\* by step: threads start while torque_init() runs, none exits before one of
\* them took a signal, and the context is released after the last one.
THEOREM ShutdownRefinesLifecycle ==
    Orderly /\ Spec => Abstract!LInit /\ [][Abstract!LNext]_(Abstract!lvars)
<1>1. (HInv /\ TInv /\ BInv)' => PhaseByMain'  BY PhaseKnown, PTL
<1>2. Orderly /\ (HInv /\ TInv /\ BInv) /\ (HInv /\ TInv /\ BInv)' /\ [Next]_vars
        => [Abstract!LNext]_(Abstract!lvars)
  <2> SUFFICES ASSUME Orderly, HInv, TInv, BInv, HInv', TInv', BInv', [Next]_vars
               PROVE  Abstract!LNext \/ (Alive' = Alive /\ Phase' = Phase)
    BY DEF Abstract!lvars
  <2>1. CASE UNCHANGED vars
    BY <2>1 DEF vars, guardvars, ringvars, sigvars, joinvars, Alive, Phase, Gone, Linked
  <2>2. CASE Next /\ ~UNCHANGED vars  BY <1>1, <2>2, PhaseKnown, LifecycleStep
  <2> QED BY <2>1, <2>2
<1>3. Orderly => Orderly'  BY DEF Orderly
<1>4. Orderly /\ Spec => Abstract!LInit  BY LifecycleInit DEF Spec
<1> QED BY <1>2, <1>3, <1>4, ShutdownInvariant, PTL DEF Spec
=============================================================================
