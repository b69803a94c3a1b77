--------------------------- MODULE ThreadsProofs ---------------------------
(***************************************************************************)
(* Proofs about Threads for every number of processors N.                  *)
(***************************************************************************)
EXTENDS Threads, TLAPS

\* The initial values are in range.
LEMMA TypeInit == Init => TypeOK
<1> USE NAssumption DEF Main, Proc, Thread, None
<1> SUFFICES ASSUME Init PROVE TypeOK
  OBVIOUS
<1>1. /\ procpend \in BOOLEAN /\ joinok \in BOOLEAN /\ handed \in BOOLEAN
      /\ thrpend \in [Thread -> BOOLEAN]
  BY Zenon DEF Init
<1>2. pc \in [Proc -> MainLabels \cup ThreadLabels]
  BY DEF Init, MainLabels, ThreadLabels, InitLabels
<1>3. /\ started \in 0 .. N /\ glock \in Thread \cup {None}
      /\ gstatus \in {"UNLAUNCHED", "PREFAIL", "STARTED"}
      /\ leader \in Thread \cup {None}
      /\ next \in [Thread -> Thread \cup {None}]
      /\ evh \in [Thread -> {"none", "live", "freed"}]
      /\ joiner \in [Thread -> Proc \cup {None}]
      /\ tgt \in [Proc -> Thread \cup {None}]
      /\ ctx \in {"live", "freed"}
      /\ fault \in {"none", "leader", "double", "ctx", "tid"}
  BY DEF Init
<1> QED BY <1>1, <1>2, <1>3 DEF TypeOK

\* Every step keeps every variable within its range.
LEMMA TypeNext == TypeOK /\ [Next]_vars => TypeOK'
<1> USE NAssumption DEF Main, Proc, Thread, None
<1> SUFFICES ASSUME TypeOK, [Next]_vars PROVE TypeOK'
  OBVIOUS
<1> USE DEF TypeOK, Goto, Uses
<1> DEFINE L == MainLabels \cup ThreadLabels
<1>l. /\ InitLabels \subseteq L /\ StopLabels \subseteq L /\ GuardLabels \subseteq L
      /\ TermLabels \subseteq L /\ GoneLabels \subseteq L
      /\ {"none", "edestroy", "poll", "handler", "demux", "run", "block", "done"} \subseteq L
  BY DEF MainLabels, ThreadLabels
<1>1. CASE InitStep \/ SpuriousWakeup
  <2>1. CASE SpawnThread
    <3>1. started + 1 \in 0 .. N  BY <2>1 DEF SpawnThread
    <3>2. pc' \in [Proc -> L]
      BY <2>1, <3>1, <1>l DEF SpawnThread, InitLabels, GuardLabels
    <3> QED BY <2>1, <3>1, <3>2 DEF SpawnThread, ringvars, sigvars, joinvars
  <2>2. CASE DetectCputypesErr
    BY <2>2, <1>l DEF DetectCputypesErr, ringvars, sigvars, joinvars, guardvars, StopLabels
  <2>3. CASE AllSpawned
    BY <2>3, <1>l DEF AllSpawned, ringvars, sigvars, joinvars, guardvars, InitLabels
  <2>4. CASE GuardCheck
    BY <2>4, <1>l DEF GuardCheck, ringvars, sigvars, joinvars, guardvars, InitLabels
  <2>5. CASE SpuriousWakeup
    BY <2>5, <1>l DEF SpuriousWakeup, ringvars, sigvars, joinvars, guardvars, InitLabels
  <2>6. CASE GuardJoin
    BY <2>6, <1>l DEF GuardJoin, ringvars, sigvars, joinvars, guardvars, StopLabels, GoneLabels
  <2>7. CASE DetectDone
    BY <2>7, <1>l DEF DetectDone, ringvars, sigvars, joinvars, guardvars
  <2>8. CASE DetectFail
    BY <2>8, <1>l DEF DetectFail, ringvars, sigvars, joinvars, guardvars, StopLabels
  <2> QED BY <1>1, <2>1, <2>2, <2>3, <2>4, <2>5, <2>6, <2>7, <2>8 DEF InitStep
<1>2. CASE CallBlock \/ CallStop
  BY <1>2, <1>l DEF CallBlock, CallStop, ringvars, sigvars, joinvars, guardvars, StopLabels
<1>3. ASSUME NEW p \in Proc, StopStep(p) PROVE TypeOK'
  <2>1. CASE ReadLeader(p)
    <3>1. CASE leader = None
      BY <2>1, <3>1, <1>l DEF ReadLeader, ringvars, sigvars, joinvars, guardvars, StopLabels
    <3>2. CASE leader # None
      <4>1. next[leader] \in Thread \cup {None}  BY <3>2
      <4>2. tgt' \in [Proc -> Thread \cup {None}]  BY <2>1, <3>2, <4>1 DEF ReadLeader
      <4>3. pc' \in [Proc -> L]  BY <2>1, <3>2, <1>l DEF ReadLeader, StopLabels
      <4> QED BY <2>1, <4>2, <4>3 DEF ReadLeader, ringvars, sigvars, guardvars
    <3> QED BY <3>1, <3>2
  <2>2. CASE StopKill(p)
    <3>1. procpend' \in BOOLEAN  BY <2>2, Zenon DEF StopKill
    <3> QED BY <2>2, <3>1, <1>l DEF StopKill, ringvars, sigvars, joinvars, guardvars, StopLabels
  <2>3. CASE StopJoin(p)
    <3>1. CASE JoinRefused(p, tgt[p])
      BY SMTT(40), <2>3, <3>1, <1>l DEF StopJoin, ringvars, sigvars, joinvars, guardvars, StopLabels
    <3>2. CASE ~JoinRefused(p, tgt[p])
      <4>1. /\ joiner' = [joiner EXCEPT ![tgt[p]] = p]
            /\ pc' = [pc EXCEPT ![p] = "sjoining"]
        BY <2>3, <3>2 DEF StopJoin
      <4>2. joiner' \in [Thread -> Proc \cup {None}]  BY <4>1
      <4>3. pc' \in [Proc -> L]  BY <4>1, <1>l DEF StopLabels
      <4> QED BY <2>3, <4>2, <4>3 DEF StopJoin, ringvars, sigvars, guardvars
    <3> QED BY <3>1, <3>2
  <2>4. CASE StopJoined(p)
    <3>1. joinok' \in BOOLEAN  BY <2>4, Zenon DEF StopJoined
    <3> QED BY <2>4, <3>1, <1>l DEF StopJoined, ringvars, sigvars, joinvars, guardvars, StopLabels, GoneLabels
  <2>5. CASE FreeCtx(p)
    BY <2>5, <1>l DEF FreeCtx, ringvars, sigvars, joinvars, guardvars, StopLabels
  <2> QED BY <1>3, <2>1, <2>2, <2>3, <2>4, <2>5 DEF StopStep
<1>4. CASE Signal
  BY <1>4 DEF Signal, ringvars, sigvars, joinvars, guardvars
<1>5. ASSUME NEW t \in Thread, StartStep(t) PROVE TypeOK'
  <2>1. CASE Link(t)
    BY <2>1, <1>l DEF Link, ringvars, sigvars, joinvars, guardvars, GuardLabels
  <2>2. CASE CreateEvhandlerFail(t)
    BY <2>2, <1>l DEF CreateEvhandlerFail, ringvars, sigvars, joinvars, guardvars, GuardLabels
  <2>3. CASE LockFail(t)
    BY <2>3, <1>l DEF LockFail, ringvars, sigvars, joinvars, guardvars, GuardLabels
  <2>4. CASE EarlyErr(t)
    BY <2>4, <1>l DEF EarlyErr, ringvars, sigvars, joinvars, guardvars, GuardLabels
  <2>5. CASE Broadcast(t)
    BY <2>5, <1>l DEF Broadcast, ringvars, sigvars, joinvars, guardvars, GuardLabels, InitLabels
  <2>6. CASE Unlock(t)
    BY <2>6, <1>l DEF Unlock, ringvars, sigvars, joinvars, guardvars
  <2>7. CASE EarlyDestroy(t)
    BY <2>7, <1>l DEF EarlyDestroy, ringvars, sigvars, joinvars, guardvars, GoneLabels
  <2> QED BY <1>5, <2>1, <2>2, <2>3, <2>4, <2>5, <2>6, <2>7 DEF StartStep
<1>6. ASSUME NEW t \in Thread, LoopStep(t) PROVE TypeOK'
  <2>1. CASE PollSignal(t) \/ PollEvent(t)
    <3>1. /\ pc' = [pc EXCEPT ![t] = "demux"] \/ pc' = [pc EXCEPT ![t] = "handler"]
          /\ UNCHANGED <<started, glock, gstatus, leader, next, evh, procpend, thrpend,
                         joiner, tgt, joinok, handed, ctx, fault>>
      BY <2>1, Zenon DEF PollSignal, PollEvent, ringvars, sigvars, joinvars, guardvars
    <3>2. pc' \in [Proc -> L]  BY <3>1, <1>l
    <3> QED BY <3>1, <3>2
  <2>2. CASE HandlerReturn(t) \/ HandlerStop(t)
    BY <2>2, <1>l DEF HandlerReturn, HandlerStop, ringvars, sigvars, joinvars, guardvars, StopLabels
  <2>3. CASE Demux(t)
    <3>1. procpend' \in BOOLEAN  BY <2>3, Zenon DEF Demux
    <3> QED BY <2>3, <3>1, <1>l DEF Demux, ringvars, sigvars, joinvars, guardvars, TermLabels
  <2> QED BY <1>6, <2>1, <2>2, <2>3 DEF LoopStep
<1>7. ASSUME NEW t \in Thread, TermStep(t) PROVE TypeOK'
  <2>1. CASE Kill(t)
    BY <2>1, <1>l DEF Kill, ringvars, sigvars, joinvars, guardvars, TermLabels, Gone
  <2>2. CASE Join(t)
    <3>1. CASE JoinRefused(t, next[t])
      BY <2>2, <3>1, <1>l DEF Join, ringvars, sigvars, joinvars, guardvars, TermLabels
    <3>2. CASE ~JoinRefused(t, next[t])
      <4>1. /\ joiner' = [joiner EXCEPT ![next[t]] = t]
            /\ tgt' = [tgt EXCEPT ![t] = next[t]]
            /\ pc' = [pc EXCEPT ![t] = "joining"]
        BY <2>2, <3>2 DEF Join
      <4>0. t \in Proc  OBVIOUS
      <4>2. joiner' \in [Thread -> Proc \cup {None}]
        BY <4>0, <4>1
      <4>4. tgt' \in [Proc -> Thread \cup {None}]
        BY <4>1
      <4>3. pc' \in [Proc -> L]  BY <4>1, <1>l DEF TermLabels
      <4> QED BY <2>2, <4>2, <4>3, <4>4 DEF Join, ringvars, sigvars, guardvars
    <3> QED BY <3>1, <3>2
  <2>3. CASE Joined(t)
    <3>1. pc' \in [Proc -> L]  BY <2>3, <1>l DEF Joined, TermLabels, GoneLabels
    <3> QED BY <2>3, <3>1 DEF Joined, ringvars, sigvars, joinvars, guardvars
  <2>4. CASE Destroy(t)
    BY <2>4, <1>l DEF Destroy, ringvars, sigvars, joinvars, guardvars, GoneLabels
  <2> QED BY <1>7, <2>1, <2>2, <2>3, <2>4 DEF TermStep
<1>8. CASE UNCHANGED vars
  BY <1>8 DEF vars, ringvars, sigvars, joinvars, guardvars
<1> QED
  BY <1>1, <1>2, <1>3, <1>4, <1>5, <1>6, <1>7, <1>8
  DEF Next, MainStep, ThreadStep, Terminated

\* In every behaviour every variable stays within its range.
THEOREM Typing == Spec => []TypeOK
  BY TypeInit, TypeNext, PTL DEF Spec

-----------------------------------------------------------------------------
(* The handshake and the ring, for every choice of constants.               *)

Waiting == {"gcheck", "gsleep"}

\* Threads exist in spawn order; the tguard's lock is held exactly while a
\* thread is between locking and unlocking.
HLock ==
    /\ \A t \in Thread : pc[t] = "none" <=> t > started
    /\ \A t \in Thread : glock = t <=> pc[t] \in {"bcast", "unlock"}
    /\ pc[Main] \in Waiting \cup {"gjoin"} => started \in Thread

\* What the status says of the thread that is being waited for.
HStatus ==
    /\ \A t \in Thread : pc[t] \in {"start", "early"} => gstatus = "UNLAUNCHED"
    /\ \A t \in Thread : pc[t] \in {"bcast", "unlock"} =>
          /\ gstatus # "UNLAUNCHED"
          /\ gstatus = "STARTED" <=> next[t] # None
    /\ pc[Main] = "gjoin" => /\ gstatus = "PREFAIL"
                             /\ pc[started] \in {"edestroy", "exited"}
    /\ pc[Main] \in Waiting /\ gstatus = "PREFAIL" =>
          pc[started] \in {"bcast", "unlock", "edestroy", "exited"}

\* Which threads are in the ring at each point of detect_cputypes().
HCount ==
    /\ pc[Main] \in Waiting /\ gstatus = "STARTED" =>
          \A t \in Thread : next[t] # None <=> t <= started
    /\ pc[Main] \in Waiting /\ gstatus # "STARTED" =>
          \A t \in Thread : next[t] # None <=> t < started
    /\ pc[Main] = "spawn" => \A t \in Thread : next[t] # None <=> t <= started
    /\ pc[Main] = "gjoin" => \A t \in Thread : next[t] # None <=> t < started
    /\ \A t \in Thread :
          /\ pc[t] \in {"none", "start", "early", "edestroy"} => next[t] = None
          /\ pc[t] \in {"poll", "handler", "demux", "block"} \cup TermLabels \cup StopLabels
                => next[t] # None

\* RingShape, pointwise.
HRing ==
    /\ leader = None => \A t \in Thread : next[t] = None
    /\ leader # None =>
         /\ leader = 1 /\ next[1] \in Thread
         /\ \A t \in Thread : next[t] # None <=> t <= next[1]
         /\ \A t \in Thread : t > 1 /\ t <= next[1] => next[t] = t - 1

\* Every tid passed to pthread_join() is that of a thread of the ring.
HTgt ==
    \A p \in Proc : pc[p] \in {"skill", "sjoin", "sjoining", "joining"} =>
        tgt[p] \in Thread /\ next[tgt[p]] # None

HInv == TypeOK /\ GuardAlive /\ HLock /\ HStatus /\ HCount /\ HRing /\ HTgt

\* Initially no thread exists and process 0 is about to spawn the first.
LEMMA HandshakeInit == Init => HInv
<1> SUFFICES ASSUME Init PROVE HInv
  OBVIOUS
<1>1. TypeOK  BY TypeInit
<1>2. GuardAlive /\ HLock /\ HStatus /\ HCount /\ HRing /\ HTgt
  BY NAssumption
  DEF Init, GuardAlive, HLock, HStatus, HCount, HRing, HTgt, Waiting, Main, Proc, Thread,
      None, GuardLabels, TermLabels, StopLabels, GoneLabels
<1> QED BY <1>1, <1>2 DEF HInv

\* Every step preserves the handshake, the count and the ring.
LEMMA HandshakeNext == HInv /\ [Next]_vars => (GuardAlive /\ HLock /\ HStatus /\ HCount /\ HRing)'
<1> SUFFICES ASSUME HInv, [Next]_vars PROVE (GuardAlive /\ HLock /\ HStatus /\ HCount /\ HRing)'
  OBVIOUS
<1> USE NAssumption DEF Main, Proc, Thread, None
<1>t. /\ pc \in [Proc -> MainLabels \cup ThreadLabels] /\ started \in 0 .. N
      /\ glock \in Thread \cup {None} /\ gstatus \in {"UNLAUNCHED", "PREFAIL", "STARTED"}
      /\ leader \in Thread \cup {None} /\ next \in [Thread -> Thread \cup {None}]
      /\ tgt \in [Proc -> Thread \cup {None}]
  BY DEF HInv, TypeOK
<1>h. GuardAlive /\ HLock /\ HStatus /\ HCount /\ HRing
  BY DEF HInv
<1> USE DEF Goto, guardvars, ringvars, sigvars, joinvars,
            GuardAlive, HLock, HStatus, HCount, HRing, Waiting,
            GuardLabels, TermLabels, StopLabels, GoneLabels
<1>1. CASE InitStep \/ SpuriousWakeup
  <2>1. CASE SpawnThread
    BY <2>1, <1>t, <1>h DEF SpawnThread, InitLabels
  <2>2. CASE DetectCputypesErr
    BY <2>2, <1>t, <1>h DEF DetectCputypesErr, InitLabels
  <2>3. CASE AllSpawned
    BY <2>3, <1>t, <1>h DEF AllSpawned, InitLabels
  <2>4. CASE GuardCheck
    BY <2>4, <1>t, <1>h DEF GuardCheck, InitLabels
  <2>5. CASE SpuriousWakeup
    BY <2>5, <1>t, <1>h DEF SpuriousWakeup, InitLabels
  <2>6. CASE GuardJoin
    BY <2>6, <1>t, <1>h DEF GuardJoin, InitLabels
  <2>7. CASE DetectDone
    BY <2>7, <1>t, <1>h DEF DetectDone, InitLabels
  <2>8. CASE DetectFail
    BY <2>8, <1>t, <1>h DEF DetectFail, InitLabels
  <2> QED BY <1>1, <2>1, <2>2, <2>3, <2>4, <2>5, <2>6, <2>7, <2>8 DEF InitStep
<1>2. CASE CallBlock \/ CallStop
  BY SMTT(40), <1>2, <1>t, <1>h DEF CallBlock, CallStop
<1>3. ASSUME NEW p \in Proc, StopStep(p)
      PROVE (GuardAlive /\ HLock /\ HStatus /\ HCount /\ HRing)'
  <2>1. CASE ReadLeader(p)
    <3>0. p # Main => p \in Thread /\ next[p] # None /\ leader # None
      BY <2>1, <1>t, <1>h DEF ReadLeader
    <3>1. CASE leader = None
      BY <2>1, <3>0, <3>1, <1>t, <1>h DEF ReadLeader
    <3>2. CASE leader # None /\ p = Main
      BY <2>1, <3>2, <1>t, <1>h DEF ReadLeader
    <3>3. CASE leader # None /\ p # Main
      <4>1. p \in Thread /\ next[p] # None /\ pc'[p] \in {"sjoin", "skill"}
        BY <2>1, <3>0, <3>3, <1>t DEF ReadLeader
      <4>2. \A q \in Proc : q # p => pc'[q] = pc[q]
        BY <2>1, <3>3, <1>t DEF ReadLeader
      <4>3. UNCHANGED <<started, glock, gstatus, leader, next>> /\ pc[p] \in {"block", "reap"}
        BY <2>1 DEF ReadLeader
      <4> QED BY SMTT(40), <4>1, <4>2, <4>3, <1>t, <1>h
    <3> QED BY <3>1, <3>2, <3>3
  <2>2. CASE StopKill(p)
    BY <2>2, <1>t, <1>h DEF StopKill, Uses
  <2>3. CASE StopJoin(p)
    <3>1. pc' = [pc EXCEPT ![p] = "sfree"] \/ pc' = [pc EXCEPT ![p] = "sjoining"]
      BY <2>3 DEF StopJoin
    <3>2. UNCHANGED <<started, glock, gstatus, leader, next>> /\ pc[p] = "sjoin"
      BY <2>3 DEF StopJoin
    <3>3. CASE p = Main
      BY <3>1, <3>2, <3>3, <1>t, <1>h
    <3>4. CASE p # Main
      BY SMTT(40), <3>1, <3>2, <3>4, <1>t, <1>h
    <3> QED BY <3>3, <3>4
  <2>4. CASE StopJoined(p)
    <3> DEFINE j == tgt[p]
    <3>0. j \in Thread /\ next[j] # None /\ pc[j] = "exited"
      BY <2>4, <1>t DEF HInv, HTgt, StopJoined
    <3>1. CASE p = Main
      BY <2>4, <3>0, <3>1, <1>t, <1>h DEF StopJoined
    <3>2. CASE p # Main
      BY SMTT(40), <2>4, <3>0, <3>2, <1>t, <1>h DEF StopJoined
    <3> QED BY <3>1, <3>2
  <2>5. CASE FreeCtx(p)
    <3>1. CASE p = Main
      BY <2>5, <3>1, <1>t, <1>h DEF FreeCtx
    <3>2. CASE p # Main
      BY <2>5, <3>2, <1>t, <1>h DEF FreeCtx
    <3> QED BY <3>1, <3>2
  <2> QED BY <1>3, <2>1, <2>2, <2>3, <2>4, <2>5 DEF StopStep
<1>4. CASE Signal
  BY <1>4, <1>t, <1>h DEF Signal
<1>5. ASSUME NEW t \in Thread, StartStep(t)
      PROVE (GuardAlive /\ HLock /\ HStatus /\ HCount /\ HRing)'
  <2>1. CASE Link(t)
    BY <2>1, <1>t, <1>h DEF Link, Uses
  <2>2. CASE CreateEvhandlerFail(t)
    BY <2>2, <1>t, <1>h DEF CreateEvhandlerFail, Uses
  <2>3. CASE LockFail(t)
    BY <2>3, <1>t, <1>h DEF LockFail, Uses
  <2>4. CASE EarlyErr(t)
    BY <2>4, <1>t, <1>h DEF EarlyErr, Uses
  <2>5. CASE Broadcast(t)
    BY <2>5, <1>t, <1>h DEF Broadcast, Uses
  <2>6. CASE Unlock(t)
    BY <2>6, <1>t, <1>h DEF Unlock, Uses
  <2>7. CASE EarlyDestroy(t)
    BY <2>7, <1>t, <1>h DEF EarlyDestroy, Uses
  <2> QED BY <1>5, <2>1, <2>2, <2>3, <2>4, <2>5, <2>6, <2>7 DEF StartStep
<1>6. ASSUME NEW t \in Thread, LoopStep(t)
      PROVE (GuardAlive /\ HLock /\ HStatus /\ HCount /\ HRing)'
  <2>1. CASE PollSignal(t)
    <3>1. /\ pc[t] \in {"poll", "demux"}
          /\ \/ pc' = [pc EXCEPT ![t] = "poll"] \/ pc' = [pc EXCEPT ![t] = "demux"]
             \/ pc' = [pc EXCEPT ![t] = "kill"]
          /\ UNCHANGED <<started, glock, gstatus, leader, next>>
      BY <2>1 DEF PollSignal
    <3>2. CASE pc' = [pc EXCEPT ![t] = "poll"]
      BY <3>1, <3>2, <1>t, <1>h
    <3>3. CASE pc' = [pc EXCEPT ![t] = "demux"]
      BY <3>1, <3>3, <1>t, <1>h
    <3>4. CASE pc' = [pc EXCEPT ![t] = "kill"]
      BY <3>1, <3>4, <1>t, <1>h
    <3> QED BY <3>1, <3>2, <3>3, <3>4
  <2>2. CASE PollEvent(t)
    BY <2>2, <1>t, <1>h DEF PollEvent, Uses
  <2>3. CASE HandlerReturn(t)
    BY <2>3, <1>t, <1>h DEF HandlerReturn, Uses
  <2>4. CASE HandlerStop(t)
    BY <2>4, <1>t, <1>h DEF HandlerStop, Uses
  <2>5. CASE Demux(t)
    <3>1. /\ pc[t] \in {"poll", "demux"}
          /\ \/ pc' = [pc EXCEPT ![t] = "poll"] \/ pc' = [pc EXCEPT ![t] = "demux"]
             \/ pc' = [pc EXCEPT ![t] = "kill"]
          /\ UNCHANGED <<started, glock, gstatus, leader, next>>
      BY <2>5 DEF Demux
    <3>2. CASE pc' = [pc EXCEPT ![t] = "poll"]
      BY <3>1, <3>2, <1>t, <1>h
    <3>3. CASE pc' = [pc EXCEPT ![t] = "demux"]
      BY <3>1, <3>3, <1>t, <1>h
    <3>4. CASE pc' = [pc EXCEPT ![t] = "kill"]
      BY <3>1, <3>4, <1>t, <1>h
    <3> QED BY <3>1, <3>2, <3>3, <3>4
  <2> QED BY <1>6, <2>1, <2>2, <2>3, <2>4, <2>5 DEF LoopStep
<1>7. ASSUME NEW t \in Thread, TermStep(t)
      PROVE (GuardAlive /\ HLock /\ HStatus /\ HCount /\ HRing)'
  <2>1. CASE Kill(t)
    BY SMTT(40), <2>1, <1>t, <1>h DEF Kill, Uses
  <2>2. CASE Join(t)
    BY SMTT(40), <2>2, <1>t, <1>h DEF Join, Uses
  <2>3. CASE Joined(t)
    <3> DEFINE j == tgt[t]
    <3>0. j \in Thread /\ next[j] # None /\ pc[j] = "exited"
      BY <2>3, <1>t DEF HInv, HTgt, Joined
    <3> QED BY SMTT(40), <2>3, <3>0, <1>t, <1>h DEF Joined
  <2>4. CASE Destroy(t)
    BY <2>4, <1>t, <1>h DEF Destroy, Uses
  <2> QED BY <1>7, <2>1, <2>2, <2>3, <2>4 DEF TermStep
<1>8. CASE UNCHANGED vars
  BY <1>8, <1>t, <1>h DEF vars
<1> QED
  BY <1>1, <1>2, <1>3, <1>4, <1>5, <1>6, <1>7, <1>8 DEF Next, MainStep, ThreadStep, Terminated

\* Every step keeps the tids passed to pthread_join() inside the ring.
LEMMA TargetNext == HInv /\ [Next]_vars => HTgt'
<1> SUFFICES ASSUME HInv, [Next]_vars PROVE HTgt'
  OBVIOUS
<1> USE NAssumption DEF Main, Proc, Thread, None
<1>t. /\ pc \in [Proc -> MainLabels \cup ThreadLabels] /\ started \in 0 .. N
      /\ glock \in Thread \cup {None} /\ gstatus \in {"UNLAUNCHED", "PREFAIL", "STARTED"}
      /\ leader \in Thread \cup {None} /\ next \in [Thread -> Thread \cup {None}]
      /\ tgt \in [Proc -> Thread \cup {None}]
  BY DEF HInv, TypeOK
<1>h. HRing /\ HTgt /\ \A t \in Thread : pc[t] = "join" => next[t] # None
  BY DEF HInv, HCount, TermLabels
<1> USE DEF Goto, guardvars, ringvars, sigvars, joinvars, HTgt, HRing
<1>1. CASE InitStep \/ SpuriousWakeup
  <2>1. CASE SpawnThread
    BY <2>1, <1>t, <1>h DEF SpawnThread, InitLabels
  <2>2. CASE DetectCputypesErr
    BY <2>2, <1>t, <1>h DEF DetectCputypesErr, InitLabels
  <2>3. CASE AllSpawned
    BY <2>3, <1>t, <1>h DEF AllSpawned, InitLabels
  <2>4. CASE GuardCheck
    BY <2>4, <1>t, <1>h DEF GuardCheck, InitLabels
  <2>5. CASE SpuriousWakeup
    BY <2>5, <1>t, <1>h DEF SpuriousWakeup, InitLabels
  <2>6. CASE GuardJoin
    BY <2>6, <1>t, <1>h DEF GuardJoin, InitLabels
  <2>7. CASE DetectDone
    BY <2>7, <1>t, <1>h DEF DetectDone, InitLabels
  <2>8. CASE DetectFail
    BY <2>8, <1>t, <1>h DEF DetectFail, InitLabels
  <2> QED BY <1>1, <2>1, <2>2, <2>3, <2>4, <2>5, <2>6, <2>7, <2>8 DEF InitStep
<1>2. CASE CallBlock \/ CallStop
  BY <1>2, <1>t, <1>h DEF CallBlock, CallStop
<1>3. ASSUME NEW p \in Proc, StopStep(p)
      PROVE HTgt'
  <2>1. CASE ReadLeader(p)
    <3>1. CASE leader = None
      BY <2>1, <3>1, <1>t, <1>h DEF ReadLeader
    <3>2. CASE leader # None
      <4>1. next[leader] \in Thread /\ next[next[leader]] # None
        BY <3>2, <1>t, <1>h
      <4> QED BY <2>1, <3>2, <4>1, <1>t, <1>h DEF ReadLeader
    <3> QED BY <3>1, <3>2
  <2>2. CASE StopKill(p)
    BY <2>2, <1>t, <1>h DEF StopKill, Uses
  <2>3. CASE StopJoin(p)
    <3>1. CASE JoinRefused(p, tgt[p])
      BY <2>3, <3>1, <1>t, <1>h DEF StopJoin
    <3>2. CASE ~JoinRefused(p, tgt[p])
      BY <2>3, <3>2, <1>t, <1>h DEF StopJoin
    <3> QED BY <3>1, <3>2
  <2>4. CASE StopJoined(p)
    BY <2>4, <1>t, <1>h DEF StopJoined, Uses
  <2>5. CASE FreeCtx(p)
    BY <2>5, <1>t, <1>h DEF FreeCtx, Uses
  <2> QED BY <1>3, <2>1, <2>2, <2>3, <2>4, <2>5 DEF StopStep
<1>4. CASE Signal
  BY <1>4, <1>t, <1>h DEF Signal
<1>5. ASSUME NEW t \in Thread, StartStep(t)
      PROVE HTgt'
  <2>1. CASE Link(t)
    BY <2>1, <1>t, <1>h DEF Link, Uses
  <2>2. CASE CreateEvhandlerFail(t)
    BY <2>2, <1>t, <1>h DEF CreateEvhandlerFail, Uses
  <2>3. CASE LockFail(t)
    BY <2>3, <1>t, <1>h DEF LockFail, Uses
  <2>4. CASE EarlyErr(t)
    BY <2>4, <1>t, <1>h DEF EarlyErr, Uses
  <2>5. CASE Broadcast(t)
    BY <2>5, <1>t, <1>h DEF Broadcast, Uses
  <2>6. CASE Unlock(t)
    BY <2>6, <1>t, <1>h DEF Unlock, Uses
  <2>7. CASE EarlyDestroy(t)
    BY <2>7, <1>t, <1>h DEF EarlyDestroy, Uses
  <2> QED BY <1>5, <2>1, <2>2, <2>3, <2>4, <2>5, <2>6, <2>7 DEF StartStep
<1>6. ASSUME NEW t \in Thread, LoopStep(t)
      PROVE HTgt'
  <2>1. CASE PollSignal(t)
    BY <2>1, <1>t, <1>h DEF PollSignal, Uses
  <2>2. CASE PollEvent(t)
    BY <2>2, <1>t, <1>h DEF PollEvent, Uses
  <2>3. CASE HandlerReturn(t)
    BY <2>3, <1>t, <1>h DEF HandlerReturn, Uses
  <2>4. CASE HandlerStop(t)
    BY <2>4, <1>t, <1>h DEF HandlerStop, Uses
  <2>5. CASE Demux(t)
    BY <2>5, <1>t, <1>h DEF Demux, Uses
  <2> QED BY <1>6, <2>1, <2>2, <2>3, <2>4, <2>5 DEF LoopStep
<1>7. ASSUME NEW t \in Thread, TermStep(t)
      PROVE HTgt'
  <2>1. CASE Kill(t)
    BY <2>1, <1>t, <1>h DEF Kill, Uses
  <2>2. CASE Join(t)
    <3>1. CASE JoinRefused(t, next[t])
      BY <2>2, <3>1, <1>t, <1>h DEF Join
    <3>2. CASE ~JoinRefused(t, next[t])
      <4>1. next[t] \in Thread /\ next[next[t]] # None
        BY <2>2, <1>t, <1>h DEF Join
      <4> QED BY <2>2, <3>2, <4>1, <1>t, <1>h DEF Join
    <3> QED BY <3>1, <3>2
  <2>3. CASE Joined(t)
    BY <2>3, <1>t, <1>h DEF Joined, Uses
  <2>4. CASE Destroy(t)
    BY <2>4, <1>t, <1>h DEF Destroy, Uses
  <2> QED BY <1>7, <2>1, <2>2, <2>3, <2>4 DEF TermStep
<1>8. CASE UNCHANGED vars
  BY <1>8, <1>t, <1>h DEF vars
<1> QED
  BY <1>1, <1>2, <1>3, <1>4, <1>5, <1>6, <1>7, <1>8 DEF Next, MainStep, ThreadStep, Terminated

\* RingShape is the pointwise HRing.
LEMMA RingShapeOK == HInv => RingShape
<1> SUFFICES ASSUME HInv PROVE RingShape
  OBVIOUS
<1> USE NAssumption DEF Thread, None
<1>1. CASE leader = None
  BY <1>1 DEF HInv, HRing, RingShape, Linked
<1>2. CASE leader # None
  <2>1. /\ leader = 1 /\ next[1] \in Thread
        /\ \A t \in Thread : next[t] # None <=> t <= next[1]
        /\ \A t \in Thread : t > 1 /\ t <= next[1] => next[t] = t - 1
    BY <1>2 DEF HInv, HRing
  <2>2. Linked = 1 .. next[1]  BY <2>1 DEF Linked
  <2>3. \A t \in Linked \ {1} : next[t] = t - 1  BY <2>1, <2>2
  <2> QED BY <1>2, <2>1, <2>2, <2>3 DEF RingShape
<1> QED BY <1>1, <1>2

\* Which threads the handshake has put into the ring.
LEMMA HandshakeOutcomeOK == HInv => HandshakeOutcome
<1> SUFFICES ASSUME HInv PROVE HandshakeOutcome
  OBVIOUS
<1> USE NAssumption DEF Thread, None
<1>1. started \in 0 .. N /\ (pc[Main] = "gjoin" => started \in Thread)
  BY DEF HInv, TypeOK, HLock
<1>2. ASSUME pc[Main] = "spawn" PROVE Linked = 1 .. started
  BY <1>1, <1>2 DEF HInv, HCount, Linked
<1>3. ASSUME pc[Main] = "gjoin" PROVE Linked = 1 .. (started - 1)
  BY <1>1, <1>3 DEF HInv, HCount, Linked
<1> QED BY <1>2, <1>3 DEF HandshakeOutcome

\* For every number of processors, every failure and every moment at which a
\* signal arrives: a thread uses the tguard only while process 0 waits for it,
\* the handshake reports what happened, and nexttid forms one ring.
THEOREM Handshake == Spec => [](GuardAlive /\ HandshakeOutcome /\ RingShape)
<1>1. HInv /\ [Next]_vars => HInv'
  BY TypeNext, HandshakeNext, TargetNext DEF HInv
<1>2. HInv => GuardAlive /\ HandshakeOutcome /\ RingShape
  BY HandshakeOutcomeOK, RingShapeOK DEF HInv
<1> QED BY HandshakeInit, <1>1, <1>2, PTL DEF Spec

-----------------------------------------------------------------------------
(* The teardown, when no signal arrives during torque_init() and no callback *)
(* stops its own context.                                                    *)

Disciplined == SignalPhases \cap InitLabels = {} /\ "handlerstop" \notin Apis

\* Nothing terminates while torque_init() still links threads.
TQuiet ==
    pc[Main] \in InitLabels =>
        /\ ~procpend /\ ~handed /\ ~joinok
        /\ \A t \in Thread :
             /\ ~thrpend[t] /\ joiner[t] = None
             /\ pc[t] \notin TermLabels \cup {"demux", "handler"}
             /\ next[t] # None => pc[t] \notin GoneLabels

\* Who may be joining whom: a thread its successor in link order; the last
\* thread either process 0 or the leader.
TJoin ==
    /\ \A t \in Thread : pc[t] \notin StopLabels \cup {"block"}
    /\ \A t \in Thread : next[t] # None =>
          \/ joiner[t] = None
          \/ t < next[1] /\ joiner[t] = t + 1
          \/ t = next[1] /\ joiner[t] \in {0, 1}
    /\ \A t, s \in Thread : next[t] # None /\ joiner[t] = s =>
          pc[s] \in {"joining", "destroy"} \cup GoneLabels
    /\ \A t \in Thread : pc[t] = "joining" => tgt[t] = next[t] /\ joiner[next[t]] = t

\* What process 0 holds while it tears the context down.
TMain ==
    /\ pc[Main] \in {"skill", "sjoin", "sjoining"} => leader # None /\ tgt[Main] = next[1]
    /\ pc[Main] = "sjoining" => joiner[next[1]] = Main
    /\ joinok => /\ leader # None /\ joiner[next[1]] = Main
                 /\ pc[next[1]] \in GoneLabels /\ pc[Main] \in {"sfree", "done"}

\* A thread past its join has waited for the thread linked before it, and a
\* thread that is gone is preceded by all earlier ones, unless the leader was
\* the one to join the last thread.
TOrder ==
    /\ \A t \in Thread :
          pc[t] = "destroy" /\ t > 1 =>
              pc[t - 1] \in GoneLabels \/ joiner[next[1]] = 1
    /\ \A t \in Thread :
          next[t] # None /\ pc[t] \in GoneLabels =>
              (\A s \in Thread : s < t => pc[s] \in GoneLabels) \/ joiner[next[1]] = 1

TInv == TQuiet /\ TJoin /\ TMain /\ TOrder /\ ChainIntact

\* A step that leaves the joins alone and in which no thread starts or
\* abandons one preserves who may be joining whom.
LEMMA JoinFrame ==
    ASSUME TJoin, UNCHANGED <<next, joiner, tgt>>,
           \A t \in Thread : pc'[t] \notin StopLabels \cup {"block"},
           \A t \in Thread : pc[t] \in {"joining", "destroy"} \cup GoneLabels
                               => pc'[t] \in {"joining", "destroy"} \cup GoneLabels,
           \A t \in Thread : pc'[t] = "joining" => pc[t] = "joining"
    PROVE  TJoin'
  BY DEF TJoin

\* Every step preserves who may be joining whom.
LEMMA JoinNext ==
    ASSUME Disciplined, HInv, TInv, [Next]_vars
    PROVE TJoin'
<1> USE NAssumption DEF Main, Proc, Thread, None
<1>d. SignalPhases \cap InitLabels = {} /\ "handlerstop" \notin Apis
  BY DEF Disciplined
<1>t. /\ pc \in [Proc -> MainLabels \cup ThreadLabels] /\ started \in 0 .. N
      /\ leader \in Thread \cup {None} /\ next \in [Thread -> Thread \cup {None}]
      /\ joiner \in [Thread -> Proc \cup {None}]
      /\ tgt \in [Proc -> Thread \cup {None}]
      /\ thrpend \in [Thread -> BOOLEAN]
  BY DEF HInv, TypeOK
<1>r. HRing /\ HTgt /\ HCount /\ HLock /\ GuardAlive
  BY DEF HInv
<1>h. TJoin /\ TQuiet
  BY DEF TInv
<1> USE DEF Goto, guardvars, ringvars, sigvars, joinvars, TJoin, TQuiet, HRing, HTgt, HCount,
            InitLabels, GuardLabels, TermLabels, StopLabels, GoneLabels
<1>1. CASE InitStep \/ SpuriousWakeup
  <2>1. CASE SpawnThread
    BY <2>1, <1>t, <1>r, <1>h DEF SpawnThread, InitLabels
  <2>2. CASE DetectCputypesErr
    BY <2>2, <1>t, <1>r, <1>h DEF DetectCputypesErr, InitLabels
  <2>3. CASE AllSpawned
    BY <2>3, <1>t, <1>r, <1>h DEF AllSpawned, InitLabels
  <2>4. CASE GuardCheck
    BY <2>4, <1>t, <1>r, <1>h DEF GuardCheck, InitLabels
  <2>5. CASE SpuriousWakeup
    BY <2>5, <1>t, <1>r, <1>h DEF SpuriousWakeup, InitLabels
  <2>6. CASE GuardJoin
    BY <2>6, <1>t, <1>r, <1>h DEF GuardJoin, InitLabels
  <2>7. CASE DetectDone
    BY <2>7, <1>t, <1>r, <1>h DEF DetectDone, InitLabels
  <2>8. CASE DetectFail
    BY <2>8, <1>t, <1>r, <1>h DEF DetectFail, InitLabels
  <2> QED BY <1>1, <2>1, <2>2, <2>3, <2>4, <2>5, <2>6, <2>7, <2>8 DEF InitStep
<1>2. CASE CallBlock \/ CallStop
  BY <1>2, <1>t, <1>r, <1>h DEF CallBlock, CallStop
<1>3. CASE StopStep(Main)
  <2>1. CASE ReadLeader(Main)
    <3>1. CASE leader = None
      BY <2>1, <3>1, <1>t, <1>r, <1>h DEF ReadLeader
    <3>2. CASE leader # None
      BY <2>1, <3>2, <1>t, <1>r, <1>h DEF ReadLeader
    <3> QED BY <3>1, <3>2
  <2>2. CASE StopKill(Main)
    BY <2>2, <1>t, <1>r, <1>h DEF StopKill, Uses
  <2>3. CASE StopJoin(Main)
    <3>1. CASE JoinRefused(Main, tgt[Main])
      BY SMTT(40), <2>3, <3>1, <1>t, <1>r, <1>h DEF StopJoin
    <3>2. CASE ~JoinRefused(Main, tgt[Main])
      <4>1. tgt[Main] = next[1] /\ next[1] \in Thread
        BY <2>3, <1>t, <1>r DEF StopJoin, TInv, TMain
      <4>2. /\ joiner' = [joiner EXCEPT ![next[1]] = 0]
            /\ joiner[next[1]] = None
            /\ pc' = [pc EXCEPT ![Main] = "sjoining"]
        BY <2>3, <3>2, <4>1 DEF StopJoin, JoinRefused
      <4> QED BY <2>3, <4>1, <4>2, <1>t, <1>r, <1>h DEF StopJoin
    <3> QED BY <3>1, <3>2
  <2>4. CASE StopJoined(Main)
    BY <2>4, <1>t, <1>r, <1>h DEF StopJoined, Uses
  <2>5. CASE FreeCtx(Main)
    BY <2>5, <1>t, <1>r, <1>h DEF FreeCtx, Uses
  <2> QED BY <1>3, <2>1, <2>2, <2>3, <2>4, <2>5 DEF StopStep
<1>4. CASE Signal
  BY <1>4, <1>d, <1>t, <1>r, <1>h DEF Signal
<1>5. ASSUME NEW t \in Thread, StartStep(t) PROVE TJoin'
  <2>1. CASE Link(t)
    <3>1. pc[Main] \in {"gcheck", "gsleep"}
      BY <2>1, <1>r DEF GuardAlive, Link
    <3>2. \A s \in Thread : joiner[s] = None /\ pc[s] \notin TermLabels \cup StopLabels \cup {"block"}
      BY <3>1, <1>h
    <3>3. /\ \A s \in Thread : joiner'[s] = None
          /\ \A s \in Thread : s # t => pc'[s] = pc[s]
          /\ pc'[t] = "bcast"
      BY <2>1, <3>2, <1>t DEF Link
    <3> QED BY <3>2, <3>3
  <2>2. CASE CreateEvhandlerFail(t)
    BY <2>2, <1>t, <1>r, <1>h DEF CreateEvhandlerFail, Uses
  <2>3. CASE LockFail(t)
    BY <2>3, <1>t, <1>r, <1>h DEF LockFail, Uses
  <2>4. CASE EarlyErr(t)
    BY <2>4, <1>t, <1>r, <1>h DEF EarlyErr, Uses
  <2>5. CASE Broadcast(t)
    <3>1. /\ \A s \in Thread : s # t => pc'[s] = pc[s]
          /\ pc[t] = "bcast" /\ pc'[t] = "unlock"
          /\ UNCHANGED <<next, joiner, tgt>>
      BY <2>5, <1>t DEF Broadcast
    <3>2. \A s \in Thread : pc[s] \notin StopLabels \cup {"block"}
      BY <1>h
    <3> QED BY <3>1, <3>2, <1>h, JoinFrame
  <2>6. CASE Unlock(t)
    BY <2>6, <1>t, <1>r, <1>h DEF Unlock, Uses
  <2>7. CASE EarlyDestroy(t)
    BY <2>7, <1>t, <1>r, <1>h DEF EarlyDestroy, Uses
  <2> QED BY <1>5, <2>1, <2>2, <2>3, <2>4, <2>5, <2>6, <2>7 DEF StartStep
<1>6. ASSUME NEW t \in Thread, LoopStep(t) PROVE TJoin'
  <2>1. CASE PollSignal(t)
    BY <2>1, <1>t, <1>r, <1>h DEF PollSignal, Uses
  <2>2. CASE PollEvent(t)
    BY <2>2, <1>t, <1>r, <1>h DEF PollEvent, Uses
  <2>3. CASE HandlerReturn(t)
    BY <2>3, <1>t, <1>r, <1>h DEF HandlerReturn, Uses
  <2>4. CASE HandlerStop(t)
    BY <2>4, <1>d DEF HandlerStop
  <2>5. CASE Demux(t)
    BY <2>5, <1>t, <1>r, <1>h DEF Demux, Uses
  <2> QED BY <1>6, <2>1, <2>2, <2>3, <2>4, <2>5 DEF LoopStep
<1>7. ASSUME NEW t \in Thread, TermStep(t) PROVE TJoin'
  <2>1. CASE Kill(t)
    BY <2>1, <1>t, <1>r, <1>h DEF Kill, Uses
  <2>2. CASE Join(t)
    <3>0. t <= next[1] /\ next[1] \in Thread /\ next[t] \in Thread
      BY <2>2, <1>t, <1>r DEF Join
    <3>1. CASE JoinRefused(t, next[t])
      <4>1. /\ \A s \in Thread : s # t => pc'[s] = pc[s]
            /\ pc[t] = "join" /\ pc'[t] = "destroy"
            /\ UNCHANGED <<next, joiner, tgt>>
        BY <2>2, <3>1, <1>t DEF Join
      <4>2. \A s \in Thread : pc[s] \notin StopLabels \cup {"block"}
        BY <1>h
      <4> QED BY <4>1, <4>2, <1>h, JoinFrame
    <3>2. CASE ~JoinRefused(t, next[t])
      <4>1. /\ joiner' = [joiner EXCEPT ![next[t]] = t]
            /\ tgt' = [tgt EXCEPT ![t] = next[t]]
            /\ pc' = [pc EXCEPT ![t] = "joining"]
            /\ joiner[next[t]] = None /\ next[t] # t
            /\ UNCHANGED <<next, leader, joinok>>
        BY <2>2, <3>2 DEF Join, JoinRefused
      <4>2. (t = 1 /\ next[t] = next[1]) \/ (t > 1 /\ next[t] = t - 1 /\ next[t] < next[1])
        BY <3>0, <1>t, <1>r
      <4> QED BY SMTT(40), <2>2, <3>0, <4>1, <4>2, <1>t, <1>r, <1>h
    <3> QED BY <3>1, <3>2
  <2>3. CASE Joined(t)
    <3>0. /\ tgt[t] \in Thread /\ pc[tgt[t]] = "exited" /\ tgt[t] # t
          /\ pc' = [pc EXCEPT ![t] = "destroy", ![tgt[t]] = "reaped"]
          /\ UNCHANGED <<next, joiner, tgt>>
      BY <2>3, <1>t, <1>r DEF Joined
    <3> QED BY <2>3, <3>0, <1>t, <1>r, <1>h
  <2>4. CASE Destroy(t)
    BY <2>4, <1>t, <1>r, <1>h DEF Destroy, Uses
  <2> QED BY <1>7, <2>1, <2>2, <2>3, <2>4 DEF TermStep
<1>8. CASE UNCHANGED vars
  BY <1>8, <1>t, <1>r, <1>h DEF vars
<1>9. ASSUME NEW t \in Thread PROVE ~StopStep(t)
  BY <1>h DEF StopStep, ReadLeader, StopKill, StopJoin, StopJoined, FreeCtx
<1> QED
  BY <1>1, <1>2, <1>3, <1>4, <1>5, <1>6, <1>7, <1>8, <1>9 DEF Next, MainStep, ThreadStep, Terminated

\* Every step preserves what process 0 holds.
LEMMA MainNext ==
    ASSUME Disciplined, HInv, TInv, [Next]_vars
    PROVE TMain'
<1> USE NAssumption DEF Main, Proc, Thread, None
<1>d. SignalPhases \cap InitLabels = {} /\ "handlerstop" \notin Apis
  BY DEF Disciplined
<1>t. /\ pc \in [Proc -> MainLabels \cup ThreadLabels] /\ started \in 0 .. N
      /\ leader \in Thread \cup {None} /\ next \in [Thread -> Thread \cup {None}]
      /\ joiner \in [Thread -> Proc \cup {None}]
      /\ tgt \in [Proc -> Thread \cup {None}]
      /\ thrpend \in [Thread -> BOOLEAN]
  BY DEF HInv, TypeOK
<1>r. HRing /\ HTgt /\ HCount /\ HLock /\ GuardAlive
  BY DEF HInv
<1>h. TJoin /\ TQuiet /\ TMain
  BY DEF TInv
<1> USE DEF Goto, guardvars, ringvars, sigvars, joinvars, TMain, TJoin, TQuiet, HRing, HTgt,
            InitLabels, GuardLabels, TermLabels, StopLabels, GoneLabels
<1>1. CASE InitStep \/ SpuriousWakeup
  <2>1. CASE SpawnThread
    BY <2>1, <1>t, <1>r, <1>h DEF SpawnThread, InitLabels
  <2>2. CASE DetectCputypesErr
    BY <2>2, <1>t, <1>r, <1>h DEF DetectCputypesErr, InitLabels
  <2>3. CASE AllSpawned
    BY <2>3, <1>t, <1>r, <1>h DEF AllSpawned, InitLabels
  <2>4. CASE GuardCheck
    <3>1. ~joinok' /\ pc'[Main] \in {"gsleep", "spawn", "gjoin"}
      BY <2>4, <1>t, <1>h DEF GuardCheck, HInv, TypeOK
    <3> QED BY <3>1
  <2>5. CASE SpuriousWakeup
    BY <2>5, <1>t, <1>r, <1>h DEF SpuriousWakeup, InitLabels
  <2>6. CASE GuardJoin
    BY <2>6, <1>t, <1>r, <1>h DEF GuardJoin, InitLabels
  <2>7. CASE DetectDone
    BY <2>7, <1>t, <1>r, <1>h DEF DetectDone, InitLabels
  <2>8. CASE DetectFail
    BY <2>8, <1>t, <1>r, <1>h DEF DetectFail, InitLabels
  <2> QED BY <1>1, <2>1, <2>2, <2>3, <2>4, <2>5, <2>6, <2>7, <2>8 DEF InitStep
<1>2. CASE CallBlock \/ CallStop
  BY <1>2, <1>t, <1>r, <1>h DEF CallBlock, CallStop
<1>3. CASE StopStep(Main)
  <2>1. CASE ReadLeader(Main)
    BY <2>1, <1>t, <1>r, <1>h DEF ReadLeader, Uses
  <2>2. CASE StopKill(Main)
    BY <2>2, <1>t, <1>r, <1>h DEF StopKill, Uses
  <2>3. CASE StopJoin(Main)
    BY <2>3, <1>t, <1>r, <1>h DEF StopJoin, Uses
  <2>4. CASE StopJoined(Main)
    BY <2>4, <1>t, <1>r, <1>h DEF StopJoined, Uses
  <2>5. CASE FreeCtx(Main)
    BY <2>5, <1>t, <1>r, <1>h DEF FreeCtx, Uses
  <2> QED BY <1>3, <2>1, <2>2, <2>3, <2>4, <2>5 DEF StopStep
<1>4. CASE Signal
  BY <1>4, <1>d, <1>t, <1>r, <1>h DEF Signal
<1>5. ASSUME NEW t \in Thread, StartStep(t) PROVE TMain'
  <2>1. CASE Link(t)
    <3>1. pc[Main] \in {"gcheck", "gsleep"} /\ pc'[Main] = pc[Main] /\ joinok' = joinok
      BY <2>1, <1>t, <1>r DEF GuardAlive, Link
    <3> QED BY <3>1, <1>h
  <2>2. CASE CreateEvhandlerFail(t)
    BY <2>2, <1>t, <1>r, <1>h DEF CreateEvhandlerFail, Uses
  <2>3. CASE LockFail(t)
    BY <2>3, <1>t, <1>r, <1>h DEF LockFail, Uses
  <2>4. CASE EarlyErr(t)
    BY <2>4, <1>t, <1>r, <1>h DEF EarlyErr, Uses
  <2>5. CASE Broadcast(t)
    BY <2>5, <1>t, <1>r, <1>h DEF Broadcast, Uses
  <2>6. CASE Unlock(t)
    BY <2>6, <1>t, <1>r, <1>h DEF Unlock, Uses
  <2>7. CASE EarlyDestroy(t)
    BY <2>7, <1>t, <1>r, <1>h DEF EarlyDestroy, Uses
  <2> QED BY <1>5, <2>1, <2>2, <2>3, <2>4, <2>5, <2>6, <2>7 DEF StartStep
<1>6. ASSUME NEW t \in Thread, LoopStep(t) PROVE TMain'
  <2>1. CASE PollSignal(t)
    BY <2>1, <1>t, <1>r, <1>h DEF PollSignal, Uses
  <2>2. CASE PollEvent(t)
    BY <2>2, <1>t, <1>r, <1>h DEF PollEvent, Uses
  <2>3. CASE HandlerReturn(t)
    BY <2>3, <1>t, <1>r, <1>h DEF HandlerReturn, Uses
  <2>4. CASE HandlerStop(t)
    BY <2>4, <1>t, <1>r, <1>h DEF HandlerStop, Uses
  <2>5. CASE Demux(t)
    BY <2>5, <1>t, <1>r, <1>h DEF Demux, Uses
  <2> QED BY <1>6, <2>1, <2>2, <2>3, <2>4, <2>5 DEF LoopStep
<1>7. ASSUME NEW t \in Thread, TermStep(t) PROVE TMain'
  <2>1. CASE Kill(t)
    BY <2>1, <1>t, <1>r, <1>h DEF Kill, Uses
  <2>2. CASE Join(t)
    <3>1. /\ \A s \in Thread : joiner[s] # None => joiner'[s] = joiner[s]
          /\ \A s \in Thread : pc[s] \in GoneLabels => pc'[s] \in GoneLabels
          /\ pc'[Main] = pc[Main] /\ tgt'[Main] = tgt[Main]
          /\ UNCHANGED <<next, leader, joinok>>
      <4>1. CASE JoinRefused(t, next[t])
        BY <2>2, <4>1, <1>t DEF Join
      <4>2. CASE ~JoinRefused(t, next[t])
        BY <2>2, <4>2, <1>t DEF Join, JoinRefused
      <4> QED BY <4>1, <4>2
    <3> QED BY <3>1, <1>t, <1>r, <1>h
  <2>3. CASE Joined(t)
    BY <2>3, <1>t, <1>r, <1>h DEF Joined, Uses
  <2>4. CASE Destroy(t)
    BY <2>4, <1>t, <1>r, <1>h DEF Destroy, Uses
  <2> QED BY <1>7, <2>1, <2>2, <2>3, <2>4 DEF TermStep
<1>8. CASE UNCHANGED vars
  BY <1>8, <1>t, <1>r, <1>h DEF vars
<1>9. ASSUME NEW t \in Thread PROVE ~StopStep(t)
  BY <1>h DEF StopStep, ReadLeader, StopKill, StopJoin, StopJoined, FreeCtx
<1> QED
  BY <1>1, <1>2, <1>3, <1>4, <1>5, <1>6, <1>7, <1>8, <1>9 DEF Next, MainStep, ThreadStep, Terminated

\* A step that lets no thread of the ring reach destroy_evhandler() or exit,
\* and brings none back, preserves the order of exits.
LEMMA OrderFrame ==
    ASSUME TOrder, UNCHANGED <<next, joiner>>,
           \A t \in Thread : pc'[t] = "destroy" => pc[t] = "destroy",
           \A t \in Thread : pc[t] \in GoneLabels => pc'[t] \in GoneLabels,
           \A t \in Thread : next[t] # None /\ pc'[t] \in GoneLabels => pc[t] \in GoneLabels
    PROVE  TOrder'
<1> USE NAssumption DEF Thread, None
<1>1. ASSUME NEW t \in Thread, pc'[t] = "destroy", t > 1
      PROVE  pc'[t - 1] \in GoneLabels \/ joiner'[next'[1]] = 1
  BY <1>1 DEF TOrder
<1>2. ASSUME NEW t \in Thread, next'[t] # None, pc'[t] \in GoneLabels
      PROVE  (\A s \in Thread : s < t => pc'[s] \in GoneLabels) \/ joiner'[next'[1]] = 1
  BY <1>2 DEF TOrder
<1> QED BY <1>1, <1>2 DEF TOrder

\* Every step preserves the order of exits.
LEMMA OrderNext ==
    ASSUME Disciplined, HInv, TInv, [Next]_vars
    PROVE TOrder'
<1> USE NAssumption DEF Main, Proc, Thread, None
<1>d. SignalPhases \cap InitLabels = {} /\ "handlerstop" \notin Apis
  BY DEF Disciplined
<1>t. /\ pc \in [Proc -> MainLabels \cup ThreadLabels] /\ started \in 0 .. N
      /\ leader \in Thread \cup {None} /\ next \in [Thread -> Thread \cup {None}]
      /\ joiner \in [Thread -> Proc \cup {None}]
      /\ tgt \in [Proc -> Thread \cup {None}]
      /\ thrpend \in [Thread -> BOOLEAN]
  BY DEF HInv, TypeOK
<1>r. HRing /\ HTgt /\ HCount /\ HLock /\ GuardAlive
  BY DEF HInv
<1>h. TJoin /\ TQuiet /\ TOrder
  BY DEF TInv
<1> USE DEF Goto, guardvars, ringvars, sigvars, joinvars, TOrder, TJoin, TQuiet, HRing, HTgt, HCount,
            InitLabels, GuardLabels, TermLabels, StopLabels, GoneLabels
<1> DEFINE Frame == /\ UNCHANGED <<next, joiner>>
                    /\ \A t \in Thread : pc'[t] = "destroy" => pc[t] = "destroy"
                    /\ \A t \in Thread : pc[t] \in GoneLabels => pc'[t] \in GoneLabels
                    /\ \A t \in Thread : next[t] # None /\ pc'[t] \in GoneLabels
                                           => pc[t] \in GoneLabels
<1>f. Frame => TOrder'
  BY <1>h, OrderFrame
<1>1. CASE InitStep \/ SpuriousWakeup
  <2>1. CASE SpawnThread
    <3>1. Frame
      BY <2>1, <1>t, <1>r DEF SpawnThread, HLock
    <3> QED BY <3>1, <1>f
  <2>2. CASE DetectCputypesErr
    <3>1. Frame
      BY <2>2, <1>t, <1>r DEF DetectCputypesErr
    <3> QED BY <3>1, <1>f
  <2>3. CASE AllSpawned
    <3>1. Frame
      BY <2>3, <1>t, <1>r DEF AllSpawned
    <3> QED BY <3>1, <1>f
  <2>4. CASE GuardCheck
    <3>1. Frame
      BY <2>4, <1>t, <1>r DEF GuardCheck
    <3> QED BY <3>1, <1>f
  <2>5. CASE SpuriousWakeup
    <3>1. Frame
      BY <2>5, <1>t, <1>r DEF SpuriousWakeup
    <3> QED BY <3>1, <1>f
  <2>6. CASE GuardJoin
    <3>1. started \in Thread /\ next[started] = None
      BY <2>6, <1>t, <1>r DEF GuardJoin, HLock, Waiting
    <3>2. \A s \in Thread : pc[s] # "destroy" /\ (next[s] # None => pc[s] \notin GoneLabels)
      BY <2>6, <1>h DEF GuardJoin
    <3>3. /\ \A s \in Thread : s # started => pc'[s] = pc[s]
          /\ pc'[started] = "reaped" /\ next' = next
      BY <2>6, <3>1, <1>t DEF GuardJoin
    <3> QED BY <3>1, <3>2, <3>3
  <2>7. CASE DetectDone
    <3>1. Frame
      BY <2>7, <1>t, <1>r DEF DetectDone
    <3> QED BY <3>1, <1>f
  <2>8. CASE DetectFail
    <3>1. Frame
      BY <2>8, <1>t, <1>r DEF DetectFail
    <3> QED BY <3>1, <1>f
  <2> QED BY <1>1, <2>1, <2>2, <2>3, <2>4, <2>5, <2>6, <2>7, <2>8 DEF InitStep
<1>2. CASE CallBlock \/ CallStop
  <2>1. Frame
    BY <1>2, <1>t DEF CallBlock, CallStop
  <2> QED BY <2>1, <1>f
<1>3. CASE StopStep(Main)
  <2>1. CASE ReadLeader(Main)
    <3>1. Frame
      BY <2>1, <1>t, <1>r DEF ReadLeader
    <3> QED BY <3>1, <1>f
  <2>2. CASE StopKill(Main)
    <3>1. Frame
      BY <2>2, <1>t, <1>r DEF StopKill
    <3> QED BY <3>1, <1>f
  <2>3. CASE StopJoin(Main)
    <3>1. CASE JoinRefused(Main, tgt[Main])
      <4>1. Frame
        BY <2>3, <3>1, <1>t DEF StopJoin
      <4> QED BY <4>1, <1>f
    <3>2. CASE ~JoinRefused(Main, tgt[Main])
      <4>1. tgt[Main] = next[1] /\ next[1] \in Thread
        BY <2>3, <1>t, <1>r DEF StopJoin, TInv, TMain
      <4>2. joiner' = [joiner EXCEPT ![next[1]] = 0] /\ joiner[next[1]] = None
        BY <2>3, <3>2, <4>1 DEF StopJoin, JoinRefused
      <4>3. joiner[next[1]] # 1 /\ joiner'[next[1]] # 1 /\ UNCHANGED next
        BY <2>3, <4>1, <4>2, <1>t DEF StopJoin
      <4>4. \A s \in Thread : pc'[s] = pc[s]
        BY <2>3, <3>2, <1>t DEF StopJoin
      <4> QED BY <4>3, <4>4, <1>h
    <3> QED BY <3>1, <3>2
  <2>4. CASE StopJoined(Main)
    <3>1. Frame
      BY <2>4, <1>t, <1>r DEF StopJoined
    <3> QED BY <3>1, <1>f
  <2>5. CASE FreeCtx(Main)
    <3>1. Frame
      BY <2>5, <1>t, <1>r DEF FreeCtx
    <3> QED BY <3>1, <1>f
  <2> QED BY <1>3, <2>1, <2>2, <2>3, <2>4, <2>5 DEF StopStep
<1>4. CASE Signal
  BY <1>4, <1>d, <1>t, <1>r, <1>h DEF Signal
<1>5. ASSUME NEW t \in Thread, StartStep(t) PROVE TOrder'
  <2>1. CASE Link(t)
    <3>1. pc[Main] \in {"gcheck", "gsleep"}
      BY <2>1, <1>r DEF GuardAlive, Link
    <3>2. \A s \in Thread : s # t => pc'[s] = pc[s] /\ pc[s] # "destroy"
      BY <2>1, <3>1, <1>t, <1>h DEF Link
    <3>3. pc'[t] = "bcast" /\ \A s \in Thread : s # t /\ next'[s] # None => next[s] # None
      BY <2>1, <1>t, <1>r DEF Link
    <3>4. \A s \in Thread : next'[s] # None => pc'[s] \notin GoneLabels
      BY <3>1, <3>2, <3>3, <1>h
    <3> QED BY <3>2, <3>3, <3>4
  <2>2. CASE CreateEvhandlerFail(t)
    <3>1. Frame
      BY <2>2, <1>t, <1>r DEF CreateEvhandlerFail
    <3> QED BY <3>1, <1>f
  <2>3. CASE LockFail(t)
    <3>1. Frame
      BY <2>3, <1>t, <1>r DEF LockFail
    <3> QED BY <3>1, <1>f
  <2>4. CASE EarlyErr(t)
    <3>1. Frame
      BY <2>4, <1>t, <1>r DEF EarlyErr
    <3> QED BY <3>1, <1>f
  <2>5. CASE Broadcast(t)
    <3>1. Frame
      BY <2>5, <1>t, <1>r DEF Broadcast
    <3> QED BY <3>1, <1>f
  <2>6. CASE Unlock(t)
    <3>1. Frame
      BY <2>6, <1>t, <1>r DEF Unlock
    <3> QED BY <3>1, <1>f
  <2>7. CASE EarlyDestroy(t)
    <3>1. Frame
      BY <2>7, <1>t, <1>r DEF EarlyDestroy
    <3> QED BY <3>1, <1>f
  <2> QED BY <1>5, <2>1, <2>2, <2>3, <2>4, <2>5, <2>6, <2>7 DEF StartStep
<1>6. ASSUME NEW t \in Thread, LoopStep(t) PROVE TOrder'
  <2>1. CASE PollSignal(t)
    <3>1. Frame
      BY <2>1, <1>t, <1>r DEF PollSignal
    <3> QED BY <3>1, <1>f
  <2>2. CASE PollEvent(t)
    <3>1. Frame
      BY <2>2, <1>t, <1>r DEF PollEvent
    <3> QED BY <3>1, <1>f
  <2>3. CASE HandlerReturn(t)
    <3>1. Frame
      BY <2>3, <1>t, <1>r DEF HandlerReturn
    <3> QED BY <3>1, <1>f
  <2>4. CASE HandlerStop(t)
    BY <2>4, <1>d DEF HandlerStop
  <2>5. CASE Demux(t)
    <3>1. Frame
      BY <2>5, <1>t, <1>r DEF Demux
    <3> QED BY <3>1, <1>f
  <2> QED BY <1>6, <2>1, <2>2, <2>3, <2>4, <2>5 DEF LoopStep
<1>7. ASSUME NEW t \in Thread, TermStep(t) PROVE TOrder'
  <2>1. CASE Kill(t)
    <3>1. Frame
      BY <2>1, <1>t, <1>r DEF Kill
    <3> QED BY <3>1, <1>f
  <2>2. CASE Join(t)
    <3>0. /\ t <= next[1] /\ next[1] \in Thread /\ next[t] \in Thread
          /\ pc[t] = "join" /\ next[t] # None
      BY <2>2, <1>t, <1>r DEF Join
    <3>1. CASE JoinRefused(t, next[t])
      <4>1. /\ \A s \in Thread : s # t => pc'[s] = pc[s]
            /\ pc'[t] = "destroy" /\ UNCHANGED <<next, joiner>>
        BY <2>2, <3>1, <1>t DEF Join
      <4>2. ASSUME t > 1 PROVE joiner[next[1]] = 1
        <5>1. next[t] = t - 1 /\ t - 1 \in Thread /\ t - 1 < next[1] /\ next[t - 1] # None
          BY <3>0, <4>2, <1>t, <1>r
        <5>2. joiner[t - 1] = None
          BY SMTT(40), <3>0, <5>1, <1>t, <1>h
        <5>3. joiner[t] = t - 1
          BY <3>1, <5>1, <5>2 DEF JoinRefused
        <5>4. joiner[t] # t + 1 /\ joiner[t] # None /\ joiner[t] # 0
          BY <5>1, <5>3
        <5>5. t = next[1] /\ joiner[t] = 1
          BY <3>0, <5>4, <1>h
        <5> QED BY <5>5
      <4>3. \A s \in Thread : pc[s] \in GoneLabels <=> pc'[s] \in GoneLabels
        BY <3>0, <4>1
      <4>4. ASSUME NEW s \in Thread, pc'[s] = "destroy", s > 1
            PROVE  pc'[s - 1] \in GoneLabels \/ joiner'[next'[1]] = 1
        <5>1. CASE s = t
          BY <4>1, <4>2, <4>4, <5>1
        <5>2. CASE s # t
          <6>1. s - 1 \in Thread  BY <4>4
          <6>2. pc[s - 1] \in GoneLabels \/ joiner[next[1]] = 1
            BY <4>1, <4>4, <5>2, <1>h
          <6> QED BY <4>1, <4>3, <6>1, <6>2
        <5> QED BY <5>1, <5>2
      <4>5. ASSUME NEW s \in Thread, next'[s] # None, pc'[s] \in GoneLabels
            PROVE  (\A u \in Thread : u < s => pc'[u] \in GoneLabels) \/ joiner'[next'[1]] = 1
        <5>1. (\A u \in Thread : u < s => pc[u] \in GoneLabels) \/ joiner[next[1]] = 1
          BY <4>1, <4>3, <4>5, <1>h
        <5> QED BY <4>1, <4>3, <5>1
      <4> QED BY <4>4, <4>5
    <3>2. CASE ~JoinRefused(t, next[t])
      <4>1. /\ joiner' = [joiner EXCEPT ![next[t]] = t]
            /\ pc' = [pc EXCEPT ![t] = "joining"]
            /\ joiner[next[t]] = None /\ UNCHANGED next
        BY <2>2, <3>2 DEF Join, JoinRefused
      <4>2. CASE t = 1
        <5>1. joiner'[next'[1]] = 1
          BY <3>0, <4>1, <4>2, <1>t
        <5> QED BY <5>1
      <4>3. CASE t > 1
        <5>1. next[t] = t - 1 /\ next[t] # next[1]
          BY <3>0, <4>3, <1>t, <1>r
        <5>2. joiner'[next[1]] = joiner[next[1]] /\ UNCHANGED next
          BY <3>0, <4>1, <5>1, <1>t
        <5>3. \A s \in Thread : s # t => pc'[s] = pc[s]
          BY <4>1, <1>t
        <5>4. pc[t] = "join" /\ pc'[t] = "joining"
          BY <3>0, <4>1, <1>t
        <5>5. ASSUME NEW s \in Thread, pc'[s] = "destroy", s > 1
              PROVE  pc'[s - 1] \in GoneLabels \/ joiner'[next'[1]] = 1
          <6>1. s - 1 \in Thread /\ pc[s] = "destroy"  BY <5>3, <5>4, <5>5
          <6> QED BY <5>2, <5>3, <5>4, <5>5, <6>1, <1>h
        <5>6. ASSUME NEW s \in Thread, next'[s] # None, pc'[s] \in GoneLabels
              PROVE  (\A u \in Thread : u < s => pc'[u] \in GoneLabels) \/ joiner'[next'[1]] = 1
          <6>1. pc[s] \in GoneLabels /\ next[s] # None  BY <5>2, <5>3, <5>4, <5>6
          <6> QED BY <5>2, <5>3, <5>4, <6>1, <1>h
        <5> QED BY <5>5, <5>6
      <4> QED BY <4>2, <4>3
    <3> QED BY <3>1, <3>2
  <2>3. CASE Joined(t)
    <3>a. tgt[t] \in Thread /\ tgt[t] = next[t] /\ pc[t] = "joining"
      BY <2>3, <1>t, <1>r, <1>h DEF Joined
    <3>0. /\ tgt[t] \in Thread /\ tgt[t] = next[t] /\ pc[next[t]] = "exited" /\ next[t] # t
          /\ pc' = [pc EXCEPT ![t] = "destroy", ![next[t]] = "reaped"]
          /\ UNCHANGED <<next, joiner>> /\ pc[t] = "joining" /\ next[t] \in Thread
      BY <2>3, <3>a, <1>t DEF Joined
    <3>1. \A s \in Thread : pc[s] \in GoneLabels <=> pc'[s] \in GoneLabels
      BY <3>0, <1>t
    <3>2. t > 1 => next[t] = t - 1
      BY <3>0, <1>t, <1>r
    <3>3. ASSUME NEW s \in Thread, pc'[s] = "destroy", s > 1
          PROVE  pc'[s - 1] \in GoneLabels \/ joiner'[next'[1]] = 1
      <4>1. CASE s = t
        BY <3>0, <3>1, <3>2, <3>3, <4>1
      <4>2. CASE s # t
        <5>1. s - 1 \in Thread /\ pc[s] = "destroy"  BY <3>0, <3>3, <4>2, <1>t
        <5> QED BY <3>0, <3>1, <3>3, <5>1, <1>h
      <4> QED BY <4>1, <4>2
    <3>4. ASSUME NEW s \in Thread, next'[s] # None, pc'[s] \in GoneLabels
          PROVE  (\A u \in Thread : u < s => pc'[u] \in GoneLabels) \/ joiner'[next'[1]] = 1
      BY <3>0, <3>1, <3>4, <1>h
    <3> QED BY <3>3, <3>4
  <2>4. CASE Destroy(t)
    <3>0. /\ pc[t] = "destroy" /\ pc' = [pc EXCEPT ![t] = "exited"]
          /\ UNCHANGED <<next, joiner>>
          /\ t <= next[1] /\ next[1] \in Thread
      BY <2>4, <1>t, <1>r DEF Destroy
    <3>1. \A s \in Thread : /\ pc[s] \in GoneLabels => pc'[s] \in GoneLabels
                            /\ s # t => pc'[s] = pc[s]
      BY <3>0, <1>t
    <3>2. ASSUME NEW s \in Thread, pc'[s] = "destroy", s > 1
          PROVE  pc'[s - 1] \in GoneLabels \/ joiner'[next'[1]] = 1
      <4>1. s - 1 \in Thread /\ pc[s] = "destroy"  BY <3>0, <3>2, <1>t
      <4> QED BY <3>0, <3>1, <3>2, <4>1, <1>h
    <3>3. ASSUME NEW s \in Thread, next'[s] # None, pc'[s] \in GoneLabels
          PROVE  (\A u \in Thread : u < s => pc'[u] \in GoneLabels) \/ joiner'[next'[1]] = 1
      <4>1. CASE s # t
        BY <3>0, <3>1, <3>3, <4>1, <1>h
      <4>2. CASE s = t /\ t = 1
        BY <4>2
      <4>3. CASE s = t /\ t > 1 /\ joiner[next[1]] # 1
        <5>1. t - 1 \in Thread /\ pc[t - 1] \in GoneLabels /\ next[t - 1] # None
          BY <3>0, <4>3, <1>t, <1>r, <1>h
        <5>2. \A u \in Thread : u < t - 1 => pc[u] \in GoneLabels
          BY <4>3, <5>1, <1>h
        <5>3. \A u \in Thread : u < t => pc[u] \in GoneLabels
          BY <4>3, <5>1, <5>2
        <5> QED BY <3>1, <4>3, <5>3
      <4> QED BY <3>0, <4>1, <4>2, <4>3
    <3> QED BY <3>2, <3>3
  <2> QED BY <1>7, <2>1, <2>2, <2>3, <2>4 DEF TermStep
<1>8. CASE UNCHANGED vars
  BY <1>8, <1>t, <1>r, <1>h DEF vars
<1>9. ASSUME NEW t \in Thread PROVE ~StopStep(t)
  BY <1>h DEF StopStep, ReadLeader, StopKill, StopJoin, StopJoined, FreeCtx
<1> QED
  BY <1>1, <1>2, <1>3, <1>4, <1>5, <1>6, <1>7, <1>8, <1>9 DEF Next, MainStep, ThreadStep, Terminated

\* Nothing terminates before torque_init() is done.
LEMMA QuietNext ==
    ASSUME Disciplined, HInv, TInv, [Next]_vars
    PROVE TQuiet'
<1> USE NAssumption DEF Main, Proc, Thread, None
<1>d. SignalPhases \cap InitLabels = {} /\ "handlerstop" \notin Apis
  BY DEF Disciplined
<1>t. /\ pc \in [Proc -> MainLabels \cup ThreadLabels] /\ started \in 0 .. N
      /\ leader \in Thread \cup {None} /\ next \in [Thread -> Thread \cup {None}]
      /\ joiner \in [Thread -> Proc \cup {None}]
      /\ tgt \in [Proc -> Thread \cup {None}]
      /\ thrpend \in [Thread -> BOOLEAN]
  BY DEF HInv, TypeOK
<1>r. HRing /\ HTgt /\ HCount /\ HLock /\ GuardAlive
  BY DEF HInv
<1>h. TJoin /\ TQuiet
  BY DEF TInv
<1> USE DEF Goto, guardvars, ringvars, sigvars, joinvars, TJoin, TQuiet, HRing, HTgt, HCount, HLock,
            InitLabels, GuardLabels, TermLabels, StopLabels, GoneLabels
<1>1. CASE InitStep \/ SpuriousWakeup
  <2>1. CASE SpawnThread
    BY <2>1, <1>t, <1>r, <1>h DEF SpawnThread, InitLabels
  <2>2. CASE DetectCputypesErr
    BY <2>2, <1>t, <1>r, <1>h DEF DetectCputypesErr, InitLabels
  <2>3. CASE AllSpawned
    BY <2>3, <1>t, <1>r, <1>h DEF AllSpawned, InitLabels
  <2>4. CASE GuardCheck
    BY <2>4, <1>t, <1>r, <1>h DEF GuardCheck, InitLabels
  <2>5. CASE SpuriousWakeup
    BY <2>5, <1>t, <1>r, <1>h DEF SpuriousWakeup, InitLabels
  <2>6. CASE GuardJoin
    BY <2>6, <1>t, <1>r, <1>h DEF GuardJoin, InitLabels
  <2>7. CASE DetectDone
    BY <2>7, <1>t, <1>r, <1>h DEF DetectDone, InitLabels
  <2>8. CASE DetectFail
    BY <2>8, <1>t, <1>r, <1>h DEF DetectFail, InitLabels
  <2> QED BY <1>1, <2>1, <2>2, <2>3, <2>4, <2>5, <2>6, <2>7, <2>8 DEF InitStep
<1>2. CASE CallBlock \/ CallStop
  BY <1>2, <1>t, <1>r, <1>h DEF CallBlock, CallStop
<1>3. CASE StopStep(Main)
  <2>1. CASE ReadLeader(Main)
    BY <2>1, <1>t, <1>r, <1>h DEF ReadLeader, Uses
  <2>2. CASE StopKill(Main)
    BY <2>2, <1>t, <1>r, <1>h DEF StopKill, Uses
  <2>3. CASE StopJoin(Main)
    BY <2>3, <1>t, <1>r, <1>h DEF StopJoin, Uses
  <2>4. CASE StopJoined(Main)
    BY <2>4, <1>t, <1>r, <1>h DEF StopJoined, Uses
  <2>5. CASE FreeCtx(Main)
    BY <2>5, <1>t, <1>r, <1>h DEF FreeCtx, Uses
  <2> QED BY <1>3, <2>1, <2>2, <2>3, <2>4, <2>5 DEF StopStep
<1>4. CASE Signal
  BY <1>4, <1>d, <1>t, <1>r, <1>h DEF Signal
<1>5. ASSUME NEW t \in Thread, StartStep(t) PROVE TQuiet'
  <2>1. CASE Link(t)
    BY <2>1, <1>t, <1>r, <1>h DEF Link, Uses
  <2>2. CASE CreateEvhandlerFail(t)
    BY <2>2, <1>t, <1>r, <1>h DEF CreateEvhandlerFail, Uses
  <2>3. CASE LockFail(t)
    BY <2>3, <1>t, <1>r, <1>h DEF LockFail, Uses
  <2>4. CASE EarlyErr(t)
    BY <2>4, <1>t, <1>r, <1>h DEF EarlyErr, Uses
  <2>5. CASE Broadcast(t)
    BY <2>5, <1>t, <1>r, <1>h DEF Broadcast, Uses
  <2>6. CASE Unlock(t)
    BY <2>6, <1>t, <1>r, <1>h DEF Unlock, Uses
  <2>7. CASE EarlyDestroy(t)
    BY <2>7, <1>t, <1>r, <1>h DEF EarlyDestroy, Uses
  <2> QED BY <1>5, <2>1, <2>2, <2>3, <2>4, <2>5, <2>6, <2>7 DEF StartStep
<1>6. ASSUME NEW t \in Thread, LoopStep(t) PROVE TQuiet'
  <2>1. CASE PollSignal(t)
    BY <2>1, <1>t, <1>r, <1>h DEF PollSignal, Uses
  <2>2. CASE PollEvent(t)
    BY <2>2, <1>t, <1>r, <1>h DEF PollEvent, Uses
  <2>3. CASE HandlerReturn(t)
    BY <2>3, <1>t, <1>r, <1>h DEF HandlerReturn, Uses
  <2>4. CASE HandlerStop(t)
    BY <2>4, <1>t, <1>r, <1>h DEF HandlerStop, Uses
  <2>5. CASE Demux(t)
    BY <2>5, <1>t, <1>r, <1>h DEF Demux, Uses
  <2> QED BY <1>6, <2>1, <2>2, <2>3, <2>4, <2>5 DEF LoopStep
<1>7. ASSUME NEW t \in Thread, TermStep(t) PROVE TQuiet'
  <2>1. CASE Kill(t)
    BY <2>1, <1>t, <1>r, <1>h DEF Kill, Uses
  <2>2. CASE Join(t)
    BY <2>2, <1>t, <1>r, <1>h DEF Join, Uses
  <2>3. CASE Joined(t)
    BY <2>3, <1>t, <1>r, <1>h DEF Joined, Uses
  <2>4. CASE Destroy(t)
    BY <2>4, <1>t, <1>r, <1>h DEF Destroy, Uses
  <2> QED BY <1>7, <2>1, <2>2, <2>3, <2>4 DEF TermStep
<1>8. CASE UNCHANGED vars
  BY <1>8, <1>t, <1>r, <1>h DEF vars
<1>9. ASSUME NEW t \in Thread PROVE ~StopStep(t)
  BY <1>h DEF StopStep, ReadLeader, StopKill, StopJoin, StopJoined, FreeCtx
<1> QED
  BY <1>1, <1>2, <1>3, <1>4, <1>5, <1>6, <1>7, <1>8, <1>9 DEF Next, MainStep, ThreadStep, Terminated

\* A step in which no thread comes to wait for another and no thread forgets
\* a signal it was sent keeps the chain intact.
LEMMA ChainFrame ==
    ASSUME ChainIntact, UNCHANGED next,
           \A t \in Thread : pc[t] \in {"join", "joining"} => next[t] \in Thread,
           \A t \in Thread : pc'[t] \in {"join", "joining"} => pc[t] \in {"join", "joining"},
           \A t \in Thread : thrpend[t] \/ pc[t] \in TermLabels \cup GoneLabels
                               => thrpend'[t] \/ pc'[t] \in TermLabels \cup GoneLabels
    PROVE  ChainIntact'
  BY DEF ChainIntact, Gone

\* Every step keeps the chain of forwarded signals intact.
LEMMA ChainNext ==
    ASSUME Disciplined, HInv, TInv, [Next]_vars
    PROVE ChainIntact'
<1> USE NAssumption DEF Main, Proc, Thread, None
<1>d. SignalPhases \cap InitLabels = {} /\ "handlerstop" \notin Apis
  BY DEF Disciplined
<1>t. /\ pc \in [Proc -> MainLabels \cup ThreadLabels] /\ started \in 0 .. N
      /\ leader \in Thread \cup {None} /\ next \in [Thread -> Thread \cup {None}]
      /\ joiner \in [Thread -> Proc \cup {None}]
      /\ tgt \in [Proc -> Thread \cup {None}]
      /\ thrpend \in [Thread -> BOOLEAN]
  BY DEF HInv, TypeOK
<1>r. HRing /\ HTgt /\ HCount /\ HLock /\ GuardAlive
  BY DEF HInv
<1>h. TJoin /\ TQuiet /\ ChainIntact
  BY DEF TInv
<1> USE DEF Goto, guardvars, ringvars, sigvars, joinvars, TJoin, TQuiet, HRing, HTgt, HCount, ChainIntact, Gone,
            InitLabels, GuardLabels, TermLabels, StopLabels, GoneLabels
<1> DEFINE Frame == /\ UNCHANGED next
                    /\ \A t \in Thread : pc'[t] \in {"join", "joining"}
                                           => pc[t] \in {"join", "joining"}
                    /\ \A t \in Thread :
                         thrpend[t] \/ pc[t] \in TermLabels \cup GoneLabels
                            => thrpend'[t] \/ pc'[t] \in TermLabels \cup GoneLabels
<1>n. \A t \in Thread : pc[t] \in {"join", "joining"} => next[t] \in Thread
  BY <1>t, <1>r
<1>f. Frame => ChainIntact'
  BY <1>h, <1>n, ChainFrame
<1>1. CASE InitStep \/ SpuriousWakeup
  <2>1. CASE SpawnThread
    <3>1. Frame
      BY <2>1, <1>t, <1>r DEF SpawnThread, HLock
    <3> QED BY <3>1, <1>f
  <2>2. CASE DetectCputypesErr
    <3>1. Frame
      BY <2>2, <1>t, <1>r DEF DetectCputypesErr
    <3> QED BY <3>1, <1>f
  <2>3. CASE AllSpawned
    <3>1. Frame
      BY <2>3, <1>t, <1>r DEF AllSpawned
    <3> QED BY <3>1, <1>f
  <2>4. CASE GuardCheck
    <3>1. Frame
      BY <2>4, <1>t, <1>r DEF GuardCheck
    <3> QED BY <3>1, <1>f
  <2>5. CASE SpuriousWakeup
    <3>1. Frame
      BY <2>5, <1>t, <1>r DEF SpuriousWakeup
    <3> QED BY <3>1, <1>f
  <2>6. CASE GuardJoin
    <3>1. Frame
      BY <2>6, <1>t, <1>r DEF GuardJoin, HLock
    <3> QED BY <3>1, <1>f
  <2>7. CASE DetectDone
    <3>1. Frame
      BY <2>7, <1>t, <1>r DEF DetectDone
    <3> QED BY <3>1, <1>f
  <2>8. CASE DetectFail
    <3>1. Frame
      BY <2>8, <1>t, <1>r DEF DetectFail
    <3> QED BY <3>1, <1>f
  <2> QED BY <1>1, <2>1, <2>2, <2>3, <2>4, <2>5, <2>6, <2>7, <2>8 DEF InitStep
<1>2. CASE CallBlock \/ CallStop
  <2>1. Frame
    BY <1>2, <1>t DEF CallBlock, CallStop
  <2> QED BY <2>1, <1>f
<1>3. CASE StopStep(Main)
  <2>1. CASE ReadLeader(Main)
    <3>1. Frame
      BY <2>1, <1>t, <1>r DEF ReadLeader
    <3> QED BY <3>1, <1>f
  <2>2. CASE StopKill(Main)
    <3>1. Frame
      BY <2>2, <1>t, <1>r DEF StopKill
    <3> QED BY <3>1, <1>f
  <2>3. CASE StopJoin(Main)
    <3>1. Frame
      BY <2>3, <1>t, <1>r DEF StopJoin
    <3> QED BY <3>1, <1>f
  <2>4. CASE StopJoined(Main)
    <3>1. Frame
      BY <2>4, <1>t, <1>r DEF StopJoined
    <3> QED BY <3>1, <1>f
  <2>5. CASE FreeCtx(Main)
    <3>1. Frame
      BY <2>5, <1>t, <1>r DEF FreeCtx
    <3> QED BY <3>1, <1>f
  <2> QED BY <1>3, <2>1, <2>2, <2>3, <2>4, <2>5 DEF StopStep
<1>4. CASE Signal
  BY <1>4, <1>d, <1>t, <1>r, <1>h DEF Signal
<1>5. ASSUME NEW t \in Thread, StartStep(t) PROVE ChainIntact'
  <2>1. CASE Link(t)
    <3>1. pc[Main] \in {"gcheck", "gsleep"}
      BY <2>1, <1>r DEF GuardAlive, Link
    <3>2. \A s \in Thread : pc'[s] \notin {"join", "joining"}
      BY <2>1, <3>1, <1>t, <1>h DEF Link
    <3> QED BY <3>2
  <2>2. CASE CreateEvhandlerFail(t)
    <3>1. Frame
      BY <2>2, <1>t, <1>r DEF CreateEvhandlerFail
    <3> QED BY <3>1, <1>f
  <2>3. CASE LockFail(t)
    <3>1. Frame
      BY <2>3, <1>t, <1>r DEF LockFail
    <3> QED BY <3>1, <1>f
  <2>4. CASE EarlyErr(t)
    <3>1. Frame
      BY <2>4, <1>t, <1>r DEF EarlyErr
    <3> QED BY <3>1, <1>f
  <2>5. CASE Broadcast(t)
    <3>1. Frame
      BY <2>5, <1>t, <1>r DEF Broadcast
    <3> QED BY <3>1, <1>f
  <2>6. CASE Unlock(t)
    <3>1. Frame
      BY <2>6, <1>t, <1>r DEF Unlock
    <3> QED BY <3>1, <1>f
  <2>7. CASE EarlyDestroy(t)
    <3>1. Frame
      BY <2>7, <1>t, <1>r DEF EarlyDestroy
    <3> QED BY <3>1, <1>f
  <2> QED BY <1>5, <2>1, <2>2, <2>3, <2>4, <2>5, <2>6, <2>7 DEF StartStep
<1>6. ASSUME NEW t \in Thread, LoopStep(t) PROVE ChainIntact'
  <2>1. CASE PollSignal(t)
    <3>1. Frame
      BY <2>1, <1>t, <1>r DEF PollSignal
    <3> QED BY <3>1, <1>f
  <2>2. CASE PollEvent(t)
    <3>1. Frame
      BY <2>2, <1>t, <1>r DEF PollEvent
    <3> QED BY <3>1, <1>f
  <2>3. CASE HandlerReturn(t)
    <3>1. Frame
      BY <2>3, <1>t, <1>r DEF HandlerReturn
    <3> QED BY <3>1, <1>f
  <2>4. CASE HandlerStop(t)
    BY <2>4, <1>d DEF HandlerStop
  <2>5. CASE Demux(t)
    <3>1. Frame
      BY <2>5, <1>t, <1>r DEF Demux
    <3> QED BY <3>1, <1>f
  <2> QED BY <1>6, <2>1, <2>2, <2>3, <2>4, <2>5 DEF LoopStep
<1>7. ASSUME NEW t \in Thread, TermStep(t) PROVE ChainIntact'
  <2>1. CASE Kill(t)
    <3>1. /\ pc[t] = "kill" /\ pc' = [pc EXCEPT ![t] = "join"] /\ UNCHANGED next
          /\ next[t] \in Thread
          /\ thrpend' = [thrpend EXCEPT ![next[t]] = ~Gone(next[t])]
      BY <2>1, <1>t, <1>r DEF Kill
    <3>2. \A s \in Thread : thrpend[s] \/ pc[s] \in TermLabels \cup GoneLabels
                            => thrpend'[s] \/ pc'[s] \in TermLabels \cup GoneLabels
      <4> SUFFICES ASSUME NEW s \in Thread, thrpend[s] \/ pc[s] \in TermLabels \cup GoneLabels
                   PROVE  thrpend'[s] \/ pc'[s] \in TermLabels \cup GoneLabels
        OBVIOUS
      <4>1. CASE s = t
        BY <3>1, <4>1, <1>t
      <4>2. CASE s # t /\ s # next[t]
        <5>1. thrpend'[s] = thrpend[s] /\ pc'[s] = pc[s]  BY <3>1, <4>2, <1>t
        <5> QED BY <5>1
      <4>3. CASE s # t /\ s = next[t]
        <5>1. pc'[s] = pc[s] /\ thrpend'[s] = ~Gone(s)  BY <3>1, <4>3, <1>t
        <5> QED BY <5>1
      <4> QED BY <4>1, <4>2, <4>3
    <3>3. thrpend'[next[t]] \/ pc'[next[t]] \in TermLabels \cup GoneLabels
      <4>1. CASE next[t] = t
        BY <3>1, <4>1, <1>t
      <4>2. CASE next[t] # t
        <5>1. pc'[next[t]] = pc[next[t]] /\ thrpend'[next[t]] = ~Gone(next[t])
          BY <3>1, <4>2, <1>t
        <5> QED BY <5>1
      <4> QED BY <4>1, <4>2
    <3>4. \A s \in Thread : s # t /\ pc'[s] \in {"join", "joining"} => pc[s] \in {"join", "joining"}
      BY <3>1, <1>t
    <3> QED BY <3>1, <3>2, <3>3, <3>4, <1>n, <1>h
  <2>2. CASE Join(t)
    <3>1. Frame
      BY <2>2, <1>t, <1>r DEF Join
    <3> QED BY <3>1, <1>f
  <2>3. CASE Joined(t)
    <3>1. Frame
      BY <2>3, <1>t, <1>r DEF Joined
    <3> QED BY <3>1, <1>f
  <2>4. CASE Destroy(t)
    <3>1. Frame
      BY <2>4, <1>t, <1>r DEF Destroy
    <3> QED BY <3>1, <1>f
  <2> QED BY <1>7, <2>1, <2>2, <2>3, <2>4 DEF TermStep
<1>8. CASE UNCHANGED vars
  BY <1>8, <1>t, <1>r, <1>h DEF vars
<1>9. ASSUME NEW t \in Thread PROVE ~StopStep(t)
  BY <1>h DEF StopStep, ReadLeader, StopKill, StopJoin, StopJoined, FreeCtx
<1> QED
  BY <1>1, <1>2, <1>3, <1>4, <1>5, <1>6, <1>7, <1>8, <1>9 DEF Next, MainStep, ThreadStep, Terminated

\* The initial state satisfies the teardown invariant.
LEMMA TeardownInit == Init => TInv
  BY NAssumption
  DEF Init, TInv, TQuiet, TJoin, TMain, TOrder, ChainIntact, Gone, Main, Proc, Thread, None,
      InitLabels, TermLabels, StopLabels, GoneLabels

\* The exit order is what makes joining one thread enough.
LEMMA TeardownSafe == HInv /\ TInv => ChainIntact /\ SuccessMeansReaped
<1> SUFFICES ASSUME HInv, TInv, joinok PROVE \A t \in Linked : Gone(t)
  BY DEF TInv, SuccessMeansReaped
<1> USE NAssumption DEF Main, Proc, Thread, None
<1>1. /\ leader # None /\ joiner[next[1]] = 0 /\ pc[next[1]] \in GoneLabels
  BY DEF TInv, TMain
<1>2. next[1] \in Thread /\ next[next[1]] # None /\ \A t \in Linked : t \in Thread /\ t <= next[1]
  BY <1>1 DEF HInv, HRing, Linked
<1>3. \A s \in Thread : s < next[1] => pc[s] \in GoneLabels
  BY <1>1, <1>2 DEF TInv, TOrder
<1>4. \A s \in Thread : s <= next[1] => pc[s] \in GoneLabels
  BY <1>1, <1>2, <1>3
<1> QED BY <1>2, <1>4 DEF Gone

\* For every number of processors: as long as no signal arrives during
\* torque_init() and no callback stops its own context, a thread only ever
\* waits for one that was told to exit, and a teardown whose pthread_join()
\* succeeded has outlived every thread of the ring.
THEOREM Teardown ==
    ASSUME Disciplined
    PROVE  Spec => [](ChainIntact /\ SuccessMeansReaped)
<1>1. Init => HInv /\ TInv
  BY HandshakeInit, TeardownInit
<1>2. HInv /\ TInv /\ [Next]_vars => HInv' /\ TInv'
  <2> SUFFICES ASSUME HInv, TInv, [Next]_vars PROVE HInv' /\ TInv'
    OBVIOUS
  <2>1. HInv'  BY TypeNext, HandshakeNext, TargetNext DEF HInv
  <2>2. TInv'  BY JoinNext, MainNext, OrderNext, QuietNext, ChainNext DEF TInv
  <2> QED BY <2>1, <2>2
<1> QED BY <1>1, <1>2, TeardownSafe, PTL DEF Spec
\* For every number of processors and every choice of failures, calls and
\* signals: thread() uses the tguard only while spawn_thread() waits on it, so
\* the stack frame it lives in is there.
THEOREM GuardOutlivesThread == Spec => []GuardAlive
BY Handshake, PTL

\* Likewise spawn_thread() never takes a failed thread for a linked one, nor
\* reads the status before the thread wrote it.
THEOREM HandshakeTold == Spec => []HandshakeOutcome
BY Handshake, PTL

\* Under the conditions of Teardown, rxcommonsignal() never joins a thread that
\* was not told to exit.
THEOREM ChainKept == ASSUME Disciplined PROVE Spec => []ChainIntact
BY Teardown, PTL
=============================================================================
