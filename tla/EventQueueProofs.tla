-------------------------- MODULE EventQueueProofs --------------------------
(***************************************************************************)
(* Proofs about EventQueue for every set of threads and of descriptors and *)
(* every bound.                                                            *)
(***************************************************************************)
EXTENDS EventQueue, TLAPS

-----------------------------------------------------------------------------
(* The inductive invariants.                                                 *)

\* A slot that was set up stays the slot of its incarnation until the
\* registration is over, so that the item is added to the right one.
SetUp == \A f \in Fd : app[f] = "setup" => slot[f].class # "none" /\ slot[f].inc = inc[f]

RegInv == TypeOK /\ SetUp /\ SlotBeforeItem

\* The same of its class, for one-shot registrations.
OSetup == \A f \in Fd : app[f] = "setup" => slot[f].class # "concurrent"

\* Registrations for which libtorque promises one thread per descriptor:
\* one-shot, and with an rx callback only.
OneShot == Classes \subseteq {"buffered", "unbuffered"} /\ UseTx = FALSE

\* Every item is one-shot, and its registration is over; what is armed has an
\* item, and is armed for one direction.
OItem ==
    /\ shot = reg
    /\ \A f \in reg : app[f] = "idle" /\ slot[f].class # "concurrent"
    /\ \A f \in Fd : mask[f] # {} => f \in reg
    /\ \A f \in Fd : mask[f] # {"R", "W"}

\* What thread t holds of descriptor f: an event it has retrieved, or a running handler
HasEvent(t, f) == \E e \in batch[t] : e.fd = f
Handles(t, f) == pc[t] \in Handling /\ cur[t].fd = f

\* A descriptor of which a thread holds something is registered and disarmed,
\* and the event is of its present incarnation.
OEvent == \A t \in Thr : \A e \in batch[t] : e.fd \in reg /\ e.inc = inc[e.fd] /\ mask[e.fd] = {}
OHandler ==
    \A t \in Thr : pc[t] \in Handling =>
        LET f == cur[t].fd IN
        /\ pc[t] \in RxLabels
        /\ f \in reg /\ mask[f] = {}
        /\ cur[t].inc = inc[f] /\ cur[t].disp = inc[f] /\ cur[t].class = slot[f].class

\* One event or one handler per descriptor, in one thread.
OOnce ==
    /\ \A t, u \in Thr : \A f \in Fd :
         (HasEvent(t, f) \/ Handles(t, f)) /\ (HasEvent(u, f) \/ Handles(u, f)) => t = u
    /\ \A t \in Thr : \A e, d \in batch[t] : e.fd = d.fd => e = d
    /\ \A t \in Thr : \A e \in batch[t] : ~Handles(t, e.fd)
    /\ \A t \in Thr : pc[t] = "poll" => batch[t] = {}

OwnInv == RegInv /\ OneShot /\ OSetup /\ OItem /\ OEvent /\ OHandler /\ OOnce

\* A thread holds the read side of f: its event, or a handler that has yet to
\* reach EAGAIN and re-arm
ReadLabels == {"rxread", "rxcb", "rearm"}
Reads(t, f) ==
    \/ \E e \in batch[t] : e.fd = f /\ "R" \in e.ev
    \/ pc[t] \in ReadLabels /\ cur[t].fd = f

Drained(f) == f \in eof /\ avail[f] = 0

\* The peer sends nothing after its end of file.
WLeft == \A f \in eof : left[f] = 0
\* A descriptor that is armed for reading and has something is on the ready list.
WReady == \A f \in Buffered : avail[f] > 0 /\ "R" \in mask[f] => f \in ready
\* A buffered descriptor with more to come is armed for reading or being read.
WServed == \A f \in Buffered : Drained(f) \/ "R" \in mask[f] \/ \E t \in Thr : Reads(t, f)
\* It is left to the write side only at the end of its file.
WWrite == \A f \in Fd : "W" \in mask[f] => Drained(f)
WEvent == \A t \in Thr : \A e \in batch[t] : "R" \in e.ev \/ Drained(e.fd)
WEof == \A t \in Thr : pc[t] \in {"rxeof", "rearmw"} => Drained(cur[t].fd)

\* epoll_wait(2) is not interrupted.
Uninterrupted == Interrupts = FALSE

WakeInv == WLeft /\ WReady /\ WServed /\ WWrite /\ WEvent /\ WEof
LiveInv == OwnInv /\ Uninterrupted /\ intr = {} /\ WakeInv

-----------------------------------------------------------------------------
(* Types and registration.                                                   *)

\* The initial values are in range.
LEMMA TypeInit == Init => TypeOK
<1> SUFFICES ASSUME Init PROVE TypeOK
  OBVIOUS
<1> USE SetAssumption, BoundAssumption DEF Init
<1>1. NoCurrent \in Current
  <2>1. (CHOOSE f \in Fd : TRUE) \in Fd  OBVIOUS
  <2> QED BY <2>1 DEF NoCurrent, Current
<1>2. /\ inc \in [Fd -> 0 .. MaxInc] /\ open \subseteq Fd
      /\ avail \in [Fd -> Nat] /\ left \in [Fd -> Nat] /\ eof \subseteq Fd
      /\ reg \subseteq open /\ shot \subseteq reg /\ ready \subseteq reg
      /\ mask \in [Fd -> SUBSET {"R", "W"}]
      /\ app \in [Fd -> {"idle", "opened", "setup"}]
      /\ held \subseteq Fd /\ intr \subseteq Thr
  OBVIOUS
<1>3. slot \in [Fd -> [class : ClassNames \cup {"none"}, inc : 0 .. MaxInc]]
  BY DEF ClassNames
<1>4. pc \in [Thr -> Labels] /\ batch \in [Thr -> SUBSET Event]
  BY DEF Labels
<1>5. cur \in [Thr -> Current]  BY <1>1
<1> QED BY <1>2, <1>3, <1>4, <1>5 DEF TypeOK

\* What close(2) leaves is in range.
LEMMA CloseTypes ==
    ASSUME TypeOK, NEW f \in Fd, CloseFd(f)
    PROVE  /\ inc' = inc /\ avail' = avail /\ left' = left /\ eof' = eof
           /\ open' = open \ {f} /\ reg' = reg \ {f}
           /\ open' \subseteq Fd /\ reg' \subseteq open' /\ shot' \subseteq reg' /\ ready' \subseteq reg'
           /\ mask' \in [Fd -> SUBSET {"R", "W"}]
BY DEF TypeOK, CloseFd

\* So is what restorefd() leaves.
LEMMA RestoreTypes ==
    ASSUME TypeOK, NEW t \in Thr, NEW dir \in {"R", "W"}, NEW l \in Labels, RestoreFd(t, dir, l)
    PROVE  TypeOK'
<1> DEFINE f == cur[t].fd
<1>1. f \in Fd  BY DEF TypeOK, Current
<1>2. CASE f \in reg
  BY <1>1, <1>2 DEF TypeOK, RestoreFd, Goto, sockvars, appvars
<1>3. CASE f \notin reg
  <2>1. CloseFd(f)  BY <1>3 DEF RestoreFd
  <2> QED BY <1>1, <2>1, CloseTypes DEF TypeOK, RestoreFd, Goto, appvars
<1> QED BY <1>2, <1>3

\* The events of epoll_wait(2) are of descriptors, and name their incarnation.
LEMMA EventTypes == ASSUME TypeOK, NEW S \in Retrievable PROVE Events(S) \subseteq Event
<1> SUFFICES ASSUME NEW e \in Events(S) PROVE e \in Event
  OBVIOUS
<1>1. PICK f \in Delivered(S) : e = [fd |-> f, inc |-> inc[f], ev |-> Level(f) \cap mask[f]]
  BY DEF Events
<1>2. f \in Fd  BY DEF Delivered, Retrievable, TypeOK
<1>3. inc[f] \in 0 .. MaxInc /\ Level(f) \cap mask[f] \subseteq {"R", "W"}
  BY <1>2 DEF TypeOK
<1> QED BY <1>1, <1>2, <1>3 DEF Event

\* Every step keeps every variable within its range.
LEMMA TypeNext == TypeOK /\ [Next]_vars => TypeOK'
<1> SUFFICES ASSUME TypeOK, [Next]_vars PROVE TypeOK'
  OBVIOUS
<1> USE SetAssumption, BoundAssumption
<1>l. Handling \subseteq Labels /\ {"poll", "next", "wcheck"} \subseteq Labels
  BY DEF Labels
<1>h. {"rxread", "rxcb", "rxeof", "rearm", "rearmw", "tx", "txarm"} \subseteq Labels
  BY DEF Labels, Handling, RxLabels, TxLabels
<1>1. ASSUME NEW f \in Fd, Environment(f) PROVE TypeOK'
  <2>1. CASE Open(f)
    <3>1. inc' \in [Fd -> 0 .. MaxInc]  BY <2>1 DEF Open, TypeOK
    <3> QED BY <2>1, <3>1 DEF Open, TypeOK, itemvars, thrvars
  <2>2. CASE Arrive(f)
    BY <2>2 DEF Arrive, Edge, TypeOK, appvars, thrvars
  <2>3. CASE PeerShutdown(f)
    BY <2>3 DEF PeerShutdown, Edge, TypeOK, appvars, thrvars
  <2> QED BY <1>1, <2>1, <2>2, <2>3 DEF Environment
<1>2. ASSUME NEW f \in Fd, Registration(f) PROVE TypeOK'
  <2>1. CASE SetupEvsource(f)
    <3>1. PICK c \in Classes : slot' = [slot EXCEPT ![f] = [class |-> c, inc |-> inc[f]]]
      BY <2>1 DEF SetupEvsource
    <3>2. slot' \in [Fd -> [class : ClassNames \cup {"none"}, inc : 0 .. MaxInc]]
      BY <3>1 DEF TypeOK
    <3> QED BY <2>1, <3>2 DEF SetupEvsource, TypeOK, sockvars, itemvars
  <2>2. CASE AddFdEvent(f)
    <3>1. Interest \subseteq {"R", "W"}  BY DEF Interest
    <3>2. CASE f \in open
      <4>1. reg' \subseteq open /\ shot' \subseteq reg' /\ ready' \subseteq reg'
        BY <2>2, <3>2 DEF AddFdEvent, TypeOK
      <4>2. mask' \in [Fd -> SUBSET {"R", "W"}] /\ app' \in [Fd -> {"idle", "opened", "setup"}]
        <5>1. mask' = [mask EXCEPT ![f] = Interest] /\ app' = [app EXCEPT ![f] = "idle"]
          BY <2>2, <3>2 DEF AddFdEvent
        <5> QED BY <5>1, <3>1 DEF TypeOK
      <4> QED BY <2>2, <4>1, <4>2 DEF AddFdEvent, TypeOK, sockvars, thrvars
    <3>3. CASE f \notin open
      BY <2>2, <3>3 DEF AddFdEvent, TypeOK, sockvars, itemvars, thrvars
    <3> QED BY <3>2, <3>3
  <2> QED BY <1>2, <2>1, <2>2 DEF Registration
<1>3. ASSUME NEW t \in Thr, Retrieve(t) \/ Interrupt(t) \/ RetrieveAndDiscard(t) PROVE TypeOK'
  <2>1. CASE Retrieve(t)
    <3>1. PICK S \in Retrievable :
            /\ Disarm(S) /\ batch' = [batch EXCEPT ![t] = Events(S)]
            /\ Goto(t, IF Delivered(S) = {} THEN "poll" ELSE "next")
      BY <2>1 DEF Retrieve
    <3>2. Events(S) \subseteq Event  BY EventTypes
    <3>3. mask' \in [Fd -> SUBSET {"R", "W"}]  BY <3>1 DEF Disarm, TypeOK
    <3>4. batch' \in [Thr -> SUBSET Event]  BY <3>1, <3>2 DEF TypeOK
    <3>5. pc' \in [Thr -> Labels]  BY <3>1, <1>l DEF Goto, TypeOK
    <3> QED BY <2>1, <3>1, <3>3, <3>4, <3>5 DEF Retrieve, Disarm, TypeOK, sockvars, appvars
  <2>2. CASE Interrupt(t)
    BY <2>2 DEF Interrupt, TypeOK, sockvars, itemvars, appvars
  <2>3. CASE RetrieveAndDiscard(t)
    <3>1. PICK S \in Retrievable : Disarm(S)  BY <2>3 DEF RetrieveAndDiscard
    <3>2. mask' \in [Fd -> SUBSET {"R", "W"}]  BY <3>1 DEF Disarm, TypeOK
    <3> QED BY <2>3, <3>1, <3>2 DEF RetrieveAndDiscard, Disarm, TypeOK, sockvars, appvars, thrvars
  <2> QED BY <1>3, <2>1, <2>2, <2>3
<1>4. ASSUME NEW t \in Thr, Dispatch(t) PROVE TypeOK'
  <2> DEFINE f == cur[t].fd
  <2>f. f \in Fd  BY DEF TypeOK, Current
  <2>1. CASE HandleRead(t)
    <3>1. PICK e \in batch[t] :
            /\ batch' = [batch EXCEPT ![t] = @ \ {e}]
            /\ cur' = [cur EXCEPT ![t] = [fd |-> e.fd, inc |-> e.inc, ev |-> e.ev,
                                          class |-> slot[e.fd].class, disp |-> slot[e.fd].inc]]
            /\ Goto(t, IF "R" \in e.ev THEN "rxread" ELSE "wcheck")
      BY <2>1 DEF HandleRead
    <3>2. e \in Event  BY DEF TypeOK
    <3>3. cur'[t] \in Current  BY <3>1, <3>2 DEF TypeOK, Event, Current
    <3>4. cur' \in [Thr -> Current]  BY <3>1, <3>3 DEF TypeOK
    <3>5. batch' \in [Thr -> SUBSET Event]  BY <3>1 DEF TypeOK
    <3>6. pc' \in [Thr -> Labels]  BY <3>1, <1>l, <1>h DEF Goto, TypeOK
    <3> QED BY <2>1, <3>4, <3>5, <3>6 DEF HandleRead, TypeOK, sockvars, itemvars, appvars
  <2>2. CASE BatchDone(t)
    BY <2>2, <1>l DEF BatchDone, Goto, TypeOK, sockvars, itemvars, appvars
  <2>3. CASE RxRead(t)
    <3>1. pc' \in [Thr -> Labels]  BY <2>3, <1>l, <1>h DEF RxRead, Goto, TypeOK
    <3>2. avail' \in [Fd -> Nat]  BY <2>3, <2>f DEF RxRead, TypeOK
    <3>3. held' \subseteq Fd  BY <2>3, <2>f DEF RxRead, TypeOK
    <3> QED BY <2>3, <3>1, <3>2, <3>3 DEF RxRead, TypeOK, itemvars, appvars
  <2>4. CASE RxFull(t)
    <3>1. CASE CloseFd(f) /\ Goto(t, "wcheck") /\ UNCHANGED held
      BY <2>4, <3>1, <2>f, <1>l, CloseTypes DEF RxFull, Goto, TypeOK, appvars
    <3>2. CASE held' = held \ {f} /\ UNCHANGED <<pc, sockvars, itemvars>>
      BY <2>4, <3>2 DEF RxFull, TypeOK, sockvars, itemvars, appvars
    <3> QED BY <2>4, <3>1, <3>2 DEF RxFull
  <2>5. CASE RxCallback(t)
    <3>1. CASE CloseFd(f) /\ Goto(t, "wcheck") /\ UNCHANGED held
      BY <2>5, <3>1, <2>f, <1>l, CloseTypes DEF RxCallback, Goto, TypeOK, appvars
    <3>2. CASE UNCHANGED <<sockvars, itemvars>>
      <4>1. pc' \in [Thr -> Labels]  BY <2>5, <1>l, <1>h DEF RxCallback, Goto, TypeOK
      <4>2. held' \subseteq Fd  BY <2>5 DEF RxCallback, TypeOK
      <4> QED BY <2>5, <3>2, <4>1, <4>2 DEF RxCallback, TypeOK, sockvars, itemvars, appvars
    <3> QED BY <2>5, <3>1, <3>2 DEF RxCallback
  <2>6. CASE RxEof(t)
    <3>1. CASE CloseFd(f) /\ Goto(t, "wcheck")
      BY <2>6, <3>1, <2>f, <1>l, CloseTypes DEF RxEof, Goto, TypeOK, appvars
    <3>2. CASE Goto(t, "rearmw") /\ UNCHANGED <<sockvars, itemvars>>
      BY <2>6, <3>2, <1>h DEF RxEof, Goto, TypeOK, sockvars, itemvars, appvars
    <3> QED BY <2>6, <3>1, <3>2 DEF RxEof
  <2>7. CASE RxRestore(t) \/ RxEofRestore(t) \/ TxRestore(t)
    BY <2>7, <1>l, RestoreTypes DEF RxRestore, RxEofRestore, TxRestore
  <2>8. CASE HandleWrite(t)
    <3>1. cur' \in [Thr -> Current]
      <4>1. slot[f].class \in ClassNames \cup {"none"} /\ slot[f].inc \in 0 .. MaxInc
        BY <2>f DEF TypeOK
      <4>2. cur[t] \in Current  BY DEF TypeOK
      <4>3. [cur[t] EXCEPT !.class = slot[f].class, !.disp = slot[f].inc] \in Current
        BY <4>1, <4>2 DEF Current
      <4>4. cur' = cur \/ cur' = [cur EXCEPT ![t] =
                                    [cur[t] EXCEPT !.class = slot[f].class, !.disp = slot[f].inc]]
        BY <2>8 DEF HandleWrite, TypeOK
      <4> QED BY <4>3, <4>4 DEF TypeOK
    <3>2. pc' \in [Thr -> Labels]  BY <2>8, <1>l, <1>h DEF HandleWrite, Goto, TypeOK
    <3> QED BY <2>8, <3>1, <3>2 DEF HandleWrite, TypeOK, sockvars, itemvars, appvars
  <2>9. CASE TxCallback(t)
    <3>1. CASE CloseFd(f) /\ Goto(t, "next")
      BY <2>9, <3>1, <2>f, <1>l, CloseTypes DEF TxCallback, Goto, TypeOK, appvars
    <3>2. CASE (Goto(t, "txarm") \/ Goto(t, "next")) /\ UNCHANGED <<sockvars, itemvars>>
      BY <2>9, <3>2, <1>l, <1>h DEF TxCallback, Goto, TypeOK, sockvars, itemvars, appvars
    <3> QED BY <2>9, <3>1, <3>2 DEF TxCallback
  <2> QED BY <1>4, <2>1, <2>2, <2>3, <2>4, <2>5, <2>6, <2>7, <2>8, <2>9 DEF Dispatch
<1>5. CASE UNCHANGED vars
  BY <1>5 DEF vars, sockvars, itemvars, appvars, thrvars, TypeOK
<1> QED BY <1>1, <1>2, <1>3, <1>4, <1>5 DEF Next

\* Dispatch never touches the slots, the incarnations or the registrations in
\* progress, and adds no item.
LEMMA DispatchFrame ==
    ASSUME NEW t \in Thr, Dispatch(t)
    PROVE  slot' = slot /\ app' = app /\ inc' = inc /\ reg' \subseteq reg
<1>1. slot' = slot /\ app' = app
  BY DEF Dispatch, HandleRead, BatchDone, RxRead, RxFull, RxCallback, RxEof, RxRestore,
         RxEofRestore, HandleWrite, TxCallback, TxRestore, RestoreFd, appvars
<1>2. inc' = inc
  BY DEF Dispatch, HandleRead, BatchDone, RxRead, RxFull, RxCallback, RxEof, RxRestore,
         RxEofRestore, HandleWrite, TxCallback, TxRestore, RestoreFd, CloseFd, sockvars
<1>3. reg' \subseteq reg
  BY DEF Dispatch, HandleRead, BatchDone, RxRead, RxFull, RxCallback, RxEof, RxRestore,
         RxEofRestore, HandleWrite, TxCallback, TxRestore, RestoreFd, CloseFd, itemvars
<1> QED BY <1>1, <1>2, <1>3

\* Every step keeps the slot ahead of the item.
LEMMA RegNext == RegInv /\ [Next]_vars => SetUp' /\ SlotBeforeItem'
<1> SUFFICES ASSUME RegInv, [Next]_vars PROVE SetUp' /\ SlotBeforeItem'
  OBVIOUS
<1> USE SetAssumption DEF RegInv, SetUp, SlotBeforeItem
<1>r. reg \subseteq Fd  BY DEF TypeOK
<1>1. ASSUME NEW f \in Fd, Environment(f) PROVE SetUp' /\ SlotBeforeItem'
  <2>1. CASE Open(f)
    BY <2>1 DEF Open, TypeOK, itemvars
  <2>2. CASE Arrive(f) \/ PeerShutdown(f)
    BY <2>2 DEF Arrive, PeerShutdown, appvars
  <2> QED BY <1>1, <2>1, <2>2 DEF Environment
<1>2. ASSUME NEW f \in Fd, Registration(f) PROVE SetUp' /\ SlotBeforeItem'
  <2>1. CASE SetupEvsource(f)
    <3>1. PICK c \in Classes : slot' = [slot EXCEPT ![f] = [class |-> c, inc |-> inc[f]]]
      BY <2>1 DEF SetupEvsource
    <3>2. c # "none"  BY DEF ClassNames
    <3>3. slot'[f] = [class |-> c, inc |-> inc[f]] /\ \A g \in Fd \ {f} : slot'[g] = slot[g]
      BY <3>1 DEF TypeOK
    <3>4. inc' = inc /\ reg' = reg /\ \A g \in Fd \ {f} : app'[g] = app[g]
      BY <2>1 DEF SetupEvsource, sockvars, itemvars, TypeOK
    <3> QED BY <3>2, <3>3, <3>4, <1>r
  <2>2. CASE AddFdEvent(f)
    <3>1. inc' = inc /\ slot' = slot /\ reg' \subseteq reg \cup {f}
      BY <2>2 DEF AddFdEvent, sockvars, itemvars
    <3>2. app[f] = "setup" /\ app'[f] = "idle" /\ \A g \in Fd \ {f} : app'[g] = app[g]
      BY <2>2 DEF AddFdEvent, TypeOK
    <3> QED BY <3>1, <3>2
  <2> QED BY <1>2, <2>1, <2>2 DEF Registration
<1>3. ASSUME NEW t \in Thr, Retrieve(t) \/ Interrupt(t) \/ RetrieveAndDiscard(t)
      PROVE  SetUp' /\ SlotBeforeItem'
  <2>1. slot' = slot /\ app' = app /\ inc' = inc /\ reg' = reg
    BY <1>3 DEF Retrieve, Interrupt, RetrieveAndDiscard, Disarm, sockvars, itemvars, appvars
  <2> QED BY <2>1
<1>4. ASSUME NEW t \in Thr, Dispatch(t) PROVE SetUp' /\ SlotBeforeItem'
  BY <1>4, DispatchFrame
<1>5. CASE UNCHANGED vars
  BY <1>5 DEF vars, sockvars, itemvars, appvars
<1> QED BY <1>1, <1>2, <1>3, <1>4, <1>5 DEF Next

\* Both hold in every reachable state.
LEMMA RegInductive == Spec => []RegInv
<1>1. Init => RegInv
  BY TypeInit DEF RegInv, Init, SetUp, SlotBeforeItem
<1>2. RegInv /\ [Next]_vars => RegInv'
  BY TypeNext, RegNext DEF RegInv
<1> QED BY <1>1, <1>2, PTL DEF Spec

\* Every variable of the event queue stays within its range, whatever
\* callbacks, classes and interruptions there are: only open descriptors have
\* items, and only items are armed or ready.
THEOREM QueueTyping == Spec => []TypeOK
<1>1. RegInv => TypeOK  BY DEF RegInv
<1> QED BY <1>1, RegInductive, PTL

\* setup_evsource() writes the slot before EPOLL_CTL_ADD, so that no item of the
\* epoll set ever finds an empty slot or that of an earlier incarnation: for
\* every number of threads and descriptors, every class of registration, and
\* with callbacks that close any descriptor they were called for.
THEOREM SlotSafe == Spec => []SlotBeforeItem
<1>1. RegInv => SlotBeforeItem  BY DEF RegInv
<1> QED BY <1>1, RegInductive, PTL

-----------------------------------------------------------------------------
(* Ownership of one-shot items.                                              *)

\* Nothing is held twice after a step in which no thread takes an event or
\* enters a handler.
LEMMA OnceKept ==
    ASSUME OwnInv, batch' = batch,
           \A u \in Thr : \A g \in Fd : Handles(u, g)' => Handles(u, g),
           \A u \in Thr : pc'[u] = "poll" => batch[u] = {}
    PROVE  OOnce'
<1> USE DEF OwnInv, RegInv
<1>1. \A u \in Thr : \A e \in batch[u] : e.fd \in Fd  BY DEF TypeOK, Event
<1>2. \A u \in Thr : \A g \in Fd : HasEvent(u, g)' => HasEvent(u, g)  BY DEF HasEvent
<1>3. (\A u, v \in Thr : \A g \in Fd :
         (HasEvent(u, g) \/ Handles(u, g)) /\ (HasEvent(v, g) \/ Handles(v, g)) => u = v)'
  BY <1>2 DEF OOnce
<1>4. (\A u \in Thr : \A e \in batch[u] : ~Handles(u, e.fd))'
  BY <1>1 DEF OOnce
<1>5. (\A u \in Thr : \A e, d \in batch[u] : e.fd = d.fd => e = d)'
  BY DEF OOnce
<1> QED BY <1>3, <1>4, <1>5 DEF OOnce

\* A step of thread t inside a handler, out of one, or back to epoll_wait(2)
\* with an empty batch, that touches no item.
LEMMA OwnProgress ==
    ASSUME OwnInv, NEW t \in Thr, NEW l \in Labels,
           pc' = [pc EXCEPT ![t] = l],
           l \in Handling => l \in RxLabels /\ pc[t] \in Handling,
           l = "poll" => batch[t] = {},
           UNCHANGED <<inc, reg, shot, mask, slot, app, batch, cur>>
    PROVE  OItem' /\ OEvent' /\ OHandler' /\ OOnce'
<1> USE DEF OwnInv, RegInv
<1>1. pc'[t] = l /\ \A u \in Thr \ {t} : pc'[u] = pc[u]  BY DEF TypeOK
<1>2. OItem'  BY DEF OItem
<1>3. OEvent'  BY DEF OEvent
<1>4. OHandler'  BY <1>1 DEF OHandler
<1>5. \A u \in Thr : \A f \in Fd : Handles(u, f)' => Handles(u, f)
  BY <1>1 DEF Handles
<1>6. \A u \in Thr : pc'[u] = "poll" => batch[u] = {}  BY <1>1 DEF OOnce
<1>7. OOnce'  BY <1>5, <1>6, OnceKept
<1> QED BY <1>2, <1>3, <1>4, <1>7

\* The owner of a descriptor closes it and leaves the handler: nobody else
\* holds anything of it.
LEMMA OwnClose ==
    ASSUME OwnInv, NEW t \in Thr, NEW l \in Labels \ (Handling \cup {"poll"}),
           pc[t] \in Handling, CloseFd(cur[t].fd),
           pc' = [pc EXCEPT ![t] = l],
           UNCHANGED <<slot, app, batch, cur>>
    PROVE  OItem' /\ OEvent' /\ OHandler' /\ OOnce'
<1> USE DEF OwnInv, RegInv
<1> DEFINE f == cur[t].fd
<1>f. f \in Fd  BY DEF TypeOK, Current
<1>1. pc'[t] = l /\ \A u \in Thr \ {t} : pc'[u] = pc[u]  BY DEF TypeOK
<1>2. /\ inc' = inc /\ reg' = reg \ {f} /\ shot' = shot \ {f}
      /\ mask'[f] = {} /\ \A g \in Fd \ {f} : mask'[g] = mask[g]
  BY <1>f DEF CloseFd, TypeOK
<1>7. \A u \in Thr : \A e \in batch[u] : e.fd \in Fd  BY DEF TypeOK, Event
<1>8. \A u \in Thr : cur[u].fd \in Fd  BY DEF TypeOK, Current
<1>h. Handles(t, f)  BY DEF Handles
<1>9. \A u \in Thr : ~HasEvent(u, f)
  <2>1. \A u \in Thr : HasEvent(u, f) => u = t  BY <1>h, <1>f DEF OOnce
  <2>2. ~HasEvent(t, f)  BY <1>h DEF OOnce, HasEvent
  <2> QED BY <2>1, <2>2
<1>10. \A u \in Thr \ {t} : ~Handles(u, f)  BY <1>h, <1>f DEF OOnce
<1>3. OItem'  BY <1>2 DEF OItem
<1>4. OEvent'  BY <1>2, <1>7, <1>9 DEF OEvent, HasEvent
<1>5. OHandler'
  <2> SUFFICES ASSUME NEW u \in Thr, pc'[u] \in Handling
               PROVE  /\ pc'[u] \in RxLabels
                      /\ cur[u].fd \in reg' /\ mask'[cur[u].fd] = {}
                      /\ cur[u].inc = inc[cur[u].fd] /\ cur[u].disp = inc[cur[u].fd]
                      /\ cur[u].class = slot[cur[u].fd].class
    BY <1>2 DEF OHandler
  <2>1. u # t  BY <1>1
  <2>2. pc'[u] = pc[u] /\ cur[u].fd # f  BY <1>1, <1>10, <2>1 DEF Handles
  <2> QED BY <1>2, <1>8, <2>2 DEF OHandler
<1>6. OOnce'
  <2>1. \A u \in Thr : \A g \in Fd : Handles(u, g)' => Handles(u, g)
    BY <1>1 DEF Handles
  <2>2. \A u \in Thr : pc'[u] = "poll" => batch[u] = {}  BY <1>1 DEF OOnce
  <2> QED BY <2>1, <2>2, OnceKept
<1> QED BY <1>3, <1>4, <1>5, <1>6

\* The owner of a descriptor arms it again and leaves the handler.
LEMMA OwnRestore ==
    ASSUME OwnInv, NEW t \in Thr, NEW dir \in {"R", "W"},
           pc[t] \in {"rearm", "rearmw"}, RestoreFd(t, dir, "wcheck")
    PROVE  OItem' /\ OEvent' /\ OHandler' /\ OOnce'
<1> USE DEF OwnInv, RegInv
<1> DEFINE f == cur[t].fd
<1>f. f \in Fd  BY DEF TypeOK, Current
<1>p. pc[t] \in Handling  BY DEF Handling, RxLabels
<1>r. f \in reg  BY <1>p DEF OHandler
<1>1. pc'[t] = "wcheck" /\ \A u \in Thr \ {t} : pc'[u] = pc[u]
  BY DEF TypeOK, RestoreFd, Goto
<1>2. /\ inc' = inc /\ reg' = reg /\ shot' = shot \cup {f} /\ slot' = slot /\ app' = app
      /\ batch' = batch /\ cur' = cur
      /\ mask'[f] = {dir} /\ \A g \in Fd \ {f} : mask'[g] = mask[g]
  BY <1>f, <1>r DEF RestoreFd, TypeOK, sockvars, appvars
<1>n. "wcheck" \notin Handling /\ "wcheck" # "poll"  BY DEF Handling, RxLabels, TxLabels
<1>7. \A u \in Thr : \A e \in batch[u] : e.fd \in Fd  BY DEF TypeOK, Event
<1>8. \A u \in Thr : cur[u].fd \in Fd  BY DEF TypeOK, Current
<1>h. Handles(t, f)  BY <1>p DEF Handles
<1>9. \A u \in Thr : ~HasEvent(u, f)
  <2>1. \A u \in Thr : HasEvent(u, f) => u = t  BY <1>h, <1>f DEF OOnce
  <2>2. ~HasEvent(t, f)  BY <1>h DEF OOnce, HasEvent
  <2> QED BY <2>1, <2>2
<1>10. \A u \in Thr \ {t} : ~Handles(u, f)  BY <1>h, <1>f DEF OOnce
<1>3. OItem'  BY <1>2, <1>r, <1>f DEF OItem
<1>4. OEvent'  BY <1>2, <1>7, <1>9 DEF OEvent, HasEvent
<1>5. OHandler'
  <2> SUFFICES ASSUME NEW u \in Thr, pc'[u] \in Handling
               PROVE  /\ pc'[u] \in RxLabels
                      /\ cur[u].fd \in reg /\ mask'[cur[u].fd] = {}
                      /\ cur[u].inc = inc[cur[u].fd] /\ cur[u].disp = inc[cur[u].fd]
                      /\ cur[u].class = slot[cur[u].fd].class
    BY <1>2 DEF OHandler
  <2>1. u # t  BY <1>1, <1>n
  <2>2. pc'[u] = pc[u] /\ cur[u].fd # f  BY <1>1, <1>10, <2>1 DEF Handles
  <2> QED BY <1>2, <1>8, <2>2 DEF OHandler
<1>6. OOnce'
  <2>1. \A u \in Thr : \A g \in Fd : Handles(u, g)' => Handles(u, g)
    BY <1>1, <1>2, <1>n DEF Handles
  <2>2. \A u \in Thr : pc'[u] = "poll" => batch[u] = {}  BY <1>1, <1>n DEF OOnce
  <2> QED BY <1>2, <2>1, <2>2, OnceKept
<1> QED BY <1>3, <1>4, <1>5, <1>6

\* An event of the batch becomes a running handler, or nothing when it does
\* not concern reading.
LEMMA OwnHandleRead ==
    ASSUME OwnInv, NEW t \in Thr, HandleRead(t)
    PROVE  OItem' /\ OEvent' /\ OHandler' /\ OOnce'
<1> USE DEF OwnInv, RegInv
<1>1. PICK e \in batch[t] :
        /\ batch' = [batch EXCEPT ![t] = @ \ {e}]
        /\ cur' = [cur EXCEPT ![t] = [fd |-> e.fd, inc |-> e.inc, ev |-> e.ev,
                                      class |-> slot[e.fd].class, disp |-> slot[e.fd].inc]]
        /\ pc' = [pc EXCEPT ![t] = IF "R" \in e.ev THEN "rxread" ELSE "wcheck"]
  BY DEF HandleRead, Goto
<1>2. UNCHANGED <<inc, reg, shot, mask, slot, app>>
  BY DEF HandleRead, sockvars, itemvars, appvars
<1>3. e.fd \in Fd /\ e.fd \in reg /\ e.inc = inc[e.fd] /\ mask[e.fd] = {}
  BY DEF OEvent, TypeOK
<1>4. batch'[t] = batch[t] \ {e} /\ \A u \in Thr \ {t} : batch'[u] = batch[u]
  BY <1>1 DEF TypeOK
<1>5. /\ cur'[t].fd = e.fd /\ cur'[t].inc = e.inc
      /\ cur'[t].class = slot[e.fd].class /\ cur'[t].disp = slot[e.fd].inc
      /\ \A u \in Thr \ {t} : cur'[u] = cur[u]
  BY <1>1 DEF TypeOK
<1>6. pc'[t] \in {"rxread", "wcheck"} /\ \A u \in Thr \ {t} : pc'[u] = pc[u]
  BY <1>1 DEF TypeOK
<1>n. /\ pc'[t] # "poll"
      /\ pc'[t] \in Handling => pc'[t] \in RxLabels
  BY <1>6 DEF Handling, RxLabels, TxLabels
<1>7. OItem'  BY <1>2 DEF OItem
<1>8. OEvent'  BY <1>2, <1>4 DEF OEvent
<1>9. OHandler'
  <2> SUFFICES ASSUME NEW u \in Thr, pc'[u] \in Handling
               PROVE  /\ pc'[u] \in RxLabels
                      /\ cur'[u].fd \in reg /\ mask[cur'[u].fd] = {}
                      /\ cur'[u].inc = inc[cur'[u].fd] /\ cur'[u].disp = inc[cur'[u].fd]
                      /\ cur'[u].class = slot[cur'[u].fd].class
    BY <1>2 DEF OHandler
  <2>1. CASE u = t
    <3>1. slot[e.fd].inc = inc[e.fd]  BY <1>3 DEF SlotBeforeItem
    <3> QED BY <2>1, <3>1, <1>3, <1>5, <1>n
  <2>2. CASE u # t
    BY <2>2, <1>5, <1>6 DEF OHandler
  <2> QED BY <2>1, <2>2
<1>10. OOnce'
  <2>h. HasEvent(t, e.fd)  BY DEF HasEvent
  <2>1. \A u \in Thr : \A g \in Fd :
           (HasEvent(u, g) \/ Handles(u, g))' => HasEvent(u, g) \/ Handles(u, g)
    <3> SUFFICES ASSUME NEW u \in Thr, NEW g \in Fd, (HasEvent(u, g) \/ Handles(u, g))'
                 PROVE  HasEvent(u, g) \/ Handles(u, g)
      OBVIOUS
    <3>1. CASE u = t
      BY <3>1, <2>h, <1>4, <1>5 DEF HasEvent, Handles
    <3>2. CASE u # t
      BY <3>2, <1>4, <1>5, <1>6 DEF HasEvent, Handles
    <3> QED BY <3>1, <3>2
  <2>2. (\A u, v \in Thr : \A g \in Fd :
           (HasEvent(u, g) \/ Handles(u, g)) /\ (HasEvent(v, g) \/ Handles(v, g)) => u = v)'
    BY <2>1 DEF OOnce
  <2>3. (\A u \in Thr : \A d \in batch[u] : ~Handles(u, d.fd))'
    <3> SUFFICES ASSUME NEW u \in Thr, NEW d \in batch'[u], pc'[u] \in Handling, cur'[u].fd = d.fd
                 PROVE  FALSE
      BY DEF Handles
    <3>1. CASE u = t
      <4>1. d \in batch[t] /\ d # e /\ d.fd = e.fd  BY <3>1, <1>4, <1>5
      <4> QED BY <4>1 DEF OOnce
    <3>2. CASE u # t
      <4>1. d \in batch[u] /\ Handles(u, d.fd)  BY <3>2, <1>4, <1>5, <1>6 DEF Handles
      <4> QED BY <4>1 DEF OOnce
    <3> QED BY <3>1, <3>2
  <2>4. (\A u \in Thr : \A c, d \in batch[u] : c.fd = d.fd => c = d)'
    <3>1. \A u \in Thr : batch'[u] \subseteq batch[u]  BY <1>4
    <3> QED BY <3>1 DEF OOnce
  <2>5. (\A u \in Thr : pc[u] = "poll" => batch[u] = {})'
    BY <1>4, <1>6, <1>n DEF OOnce
  <2> QED BY <2>2, <2>3, <2>4, <2>5 DEF OOnce
<1> QED BY <1>7, <1>8, <1>9, <1>10

\* An item that is delivered was armed, so no thread holds anything of it.
LEMMA ArmedIsFree ==
    ASSUME OwnInv, NEW f \in Fd, mask[f] # {}, NEW t \in Thr
    PROVE  ~HasEvent(t, f) /\ ~Handles(t, f)
BY DEF OwnInv, OEvent, OHandler, HasEvent, Handles

\* Retrieval turns the armed item into an event of one thread, and disarms it.
LEMMA OwnRetrieve ==
    ASSUME OwnInv, NEW t \in Thr, Retrieve(t)
    PROVE  OItem' /\ OEvent' /\ OHandler' /\ OOnce'
<1> USE DEF OwnInv, RegInv
<1>1. PICK S \in Retrievable :
        /\ Disarm(S) /\ batch' = [batch EXCEPT ![t] = Events(S)]
        /\ pc' = [pc EXCEPT ![t] = IF Delivered(S) = {} THEN "poll" ELSE "next"]
  BY DEF Retrieve, Goto
<1> DEFINE D == Delivered(S)
<1>2. UNCHANGED <<inc, slot, app, cur, reg, shot>>
  BY <1>1 DEF Retrieve, Disarm, sockvars, appvars
<1>3. D \subseteq reg /\ D \subseteq Fd /\ \A f \in D : mask[f] # {}
  BY DEF Delivered, Retrievable, TypeOK
<1>4. \A f \in Fd : mask'[f] = IF f \in D THEN {} ELSE mask[f]
  BY <1>1, <1>3 DEF Disarm, OItem
<1>5. batch'[t] = Events(S) /\ \A u \in Thr \ {t} : batch'[u] = batch[u]
  BY <1>1 DEF TypeOK
<1>6. pc'[t] \in {"poll", "next"} /\ (pc'[t] = "poll" => D = {}) /\ \A u \in Thr \ {t} : pc'[u] = pc[u]
  BY <1>1 DEF TypeOK
<1>n. "poll" \notin Handling /\ "next" \notin Handling  BY DEF Handling, RxLabels, TxLabels
<1>7. \A e \in Events(S) : e.fd \in D /\ e.inc = inc[e.fd]
                           /\ e = [fd |-> e.fd, inc |-> inc[e.fd], ev |-> Level(e.fd) \cap mask[e.fd]]
  BY DEF Events
<1>8. \A u \in Thr : cur[u].fd \in Fd /\ \A e \in batch[u] : e.fd \in Fd
  BY DEF TypeOK, Current, Event
<1>9. OItem'  BY <1>2, <1>4 DEF OItem
<1>10. OEvent'
  <2> SUFFICES ASSUME NEW u \in Thr, NEW e \in batch'[u]
               PROVE  e.fd \in reg /\ e.inc = inc[e.fd] /\ mask'[e.fd] = {}
    BY <1>2 DEF OEvent
  <2>1. CASE u = t  BY <2>1, <1>3, <1>4, <1>5, <1>7
  <2>2. CASE u # t  BY <2>2, <1>4, <1>5, <1>8 DEF OEvent
  <2> QED BY <2>1, <2>2
<1>11. OHandler'
  <2> SUFFICES ASSUME NEW u \in Thr, pc'[u] \in Handling
               PROVE  /\ pc'[u] \in RxLabels
                      /\ cur[u].fd \in reg /\ mask'[cur[u].fd] = {}
                      /\ cur[u].inc = inc[cur[u].fd] /\ cur[u].disp = inc[cur[u].fd]
                      /\ cur[u].class = slot[cur[u].fd].class
    BY <1>2 DEF OHandler
  <2>1. u # t  BY <1>6, <1>n
  <2>2. pc'[u] = pc[u]  BY <1>6, <2>1
  <2> QED BY <1>4, <1>8, <2>2 DEF OHandler
<1>12. OOnce'
  <2>1. \A f \in D : \A u \in Thr : ~HasEvent(u, f) /\ ~Handles(u, f)
    BY <1>3, ArmedIsFree
  <2>2. \A u \in Thr : \A f \in Fd :
          (HasEvent(u, f) \/ Handles(u, f))' => (u = t /\ f \in D) \/ HasEvent(u, f) \/ Handles(u, f)
    <3> SUFFICES ASSUME NEW u \in Thr, NEW f \in Fd, (HasEvent(u, f) \/ Handles(u, f))'
                 PROVE  (u = t /\ f \in D) \/ HasEvent(u, f) \/ Handles(u, f)
      OBVIOUS
    <3>1. CASE u = t
      BY <3>1, <1>5, <1>6, <1>7, <1>n DEF HasEvent, Handles
    <3>2. CASE u # t
      BY <3>2, <1>2, <1>5, <1>6 DEF HasEvent, Handles
    <3> QED BY <3>1, <3>2
  <2>3. (\A u, v \in Thr : \A f \in Fd :
           (HasEvent(u, f) \/ Handles(u, f)) /\ (HasEvent(v, f) \/ Handles(v, f)) => u = v)'
    BY <2>1, <2>2 DEF OOnce
  <2>4. (\A u \in Thr : \A e, d \in batch[u] : e.fd = d.fd => e = d)'
    <3> SUFFICES ASSUME NEW u \in Thr, NEW e \in batch'[u], NEW d \in batch'[u], e.fd = d.fd
                 PROVE  e = d
      OBVIOUS
    <3>1. CASE u = t  BY <3>1, <1>5, <1>7
    <3>2. CASE u # t  BY <3>2, <1>5 DEF OOnce
    <3> QED BY <3>1, <3>2
  <2>5. (\A u \in Thr : \A e \in batch[u] : ~Handles(u, e.fd))'
    <3> SUFFICES ASSUME NEW u \in Thr, NEW e \in batch'[u], pc'[u] \in Handling, cur[u].fd = e.fd
                 PROVE  FALSE
      BY <1>2 DEF Handles
    <3>1. u # t  BY <1>6, <1>n
    <3> QED BY <3>1, <1>5, <1>6 DEF OOnce, Handles
  <2>6. (\A u \in Thr : pc[u] = "poll" => batch[u] = {})'
    <3>1. D = {} => Events(S) = {}  BY DEF Events
    <3> QED BY <3>1, <1>5, <1>6 DEF OOnce
  <2> QED BY <2>3, <2>4, <2>5, <2>6 DEF OOnce
<1> QED BY <1>9, <1>10, <1>11, <1>12

\* Discarding what epoll_wait(2) returned disarms items and gives them to nobody.
LEMMA OwnDiscard ==
    ASSUME OwnInv, NEW t \in Thr, RetrieveAndDiscard(t)
    PROVE  OItem' /\ OEvent' /\ OHandler' /\ OOnce'
<1> USE DEF OwnInv, RegInv
<1>1. PICK S \in Retrievable : Disarm(S)  BY DEF RetrieveAndDiscard
<1>2. UNCHANGED <<inc, slot, app, cur, reg, shot, pc, batch>>
  BY <1>1 DEF RetrieveAndDiscard, Disarm, sockvars, appvars, thrvars
<1>3. \A f \in Fd : mask'[f] = {} \/ mask'[f] = mask[f]  BY <1>1 DEF Disarm
<1>4. \A u \in Thr : cur[u].fd \in Fd /\ \A e \in batch[u] : e.fd \in Fd
  BY DEF TypeOK, Current, Event
<1>5. OItem'  BY <1>2, <1>3 DEF OItem
<1>6. OEvent'  BY <1>2, <1>3, <1>4 DEF OEvent
<1>7. OHandler'  BY <1>2, <1>3, <1>4 DEF OHandler
<1>8. OOnce'
  <2>1. \A u \in Thr : \A g \in Fd : Handles(u, g)' => Handles(u, g)
    BY <1>2 DEF Handles
  <2>2. \A u \in Thr : pc'[u] = "poll" => batch[u] = {}  BY <1>2 DEF OOnce
  <2> QED BY <1>2, <2>1, <2>2, OnceKept
<1> QED BY <1>5, <1>6, <1>7, <1>8

\* A descriptor without an item is held by no thread.
LEMMA HeldIsRegistered ==
    ASSUME OwnInv, NEW f \in Fd \ reg, NEW t \in Thr
    PROVE  ~HasEvent(t, f) /\ ~Handles(t, f)
BY DEF OwnInv, OEvent, OHandler, HasEvent, Handles

\* The application and the peer touch no descriptor that a thread holds.
LEMMA OwnApplication ==
    ASSUME OwnInv, NEW f \in Fd, Environment(f) \/ Registration(f)
    PROVE  OItem' /\ OEvent' /\ OHandler' /\ OOnce'
<1> USE DEF OwnInv, RegInv
<1>t. batch' = batch /\ cur' = cur /\ pc' = pc
  BY DEF Environment, Registration, Open, Arrive, PeerShutdown, SetupEvsource, AddFdEvent, thrvars
<1>u. \A u \in Thr : cur[u].fd \in Fd /\ \A e \in batch[u] : e.fd \in Fd
  BY DEF TypeOK, Current, Event
<1>o. OOnce'
  <2>1. \A u \in Thr : \A g \in Fd : Handles(u, g)' => Handles(u, g)
    BY <1>t DEF Handles
  <2>2. \A u \in Thr : pc'[u] = "poll" => batch[u] = {}  BY <1>t DEF OOnce
  <2> QED BY <1>t, <2>1, <2>2, OnceKept
<1>1. CASE Arrive(f) \/ PeerShutdown(f)
  <2>1. UNCHANGED <<inc, reg, shot, mask, slot, app>>
    BY <1>1 DEF Arrive, PeerShutdown, appvars
  <2> QED BY <1>t, <1>o, <2>1 DEF OItem, OEvent, OHandler
<1>2. CASE f \notin reg /\ ~Arrive(f) /\ ~PeerShutdown(f)
  <2>1. \A u \in Thr : \A e \in batch[u] : e.fd # f  BY <1>2, HeldIsRegistered DEF HasEvent
  <2>2. \A u \in Thr : pc[u] \in Handling => cur[u].fd # f  BY <1>2, HeldIsRegistered DEF Handles
  <2>3. \A g \in Fd \ {f} : /\ inc'[g] = inc[g] /\ mask'[g] = mask[g]
                            /\ slot'[g] = slot[g] /\ app'[g] = app[g]
                            /\ (g \in reg' <=> g \in reg) /\ (g \in shot' <=> g \in shot)
    <3>1. CASE Open(f)  BY <3>1 DEF Open, itemvars, TypeOK
    <3>2. CASE SetupEvsource(f)  BY <3>2 DEF SetupEvsource, sockvars, itemvars, TypeOK
    <3>3. CASE AddFdEvent(f)
      <4>1. CASE f \in open
        BY SMTT(30), <3>3, <4>1 DEF AddFdEvent, sockvars, TypeOK
      <4>2. CASE f \notin open
        BY <3>3, <4>2 DEF AddFdEvent, sockvars, itemvars, TypeOK
      <4> QED BY <4>1, <4>2
    <3> QED BY <1>2, <3>1, <3>2, <3>3 DEF Environment, Registration
  <2>4. OEvent'
    <3> SUFFICES ASSUME NEW u \in Thr, NEW e \in batch[u]
                 PROVE  e.fd \in reg' /\ e.inc = inc'[e.fd] /\ mask'[e.fd] = {}
      BY <1>t DEF OEvent
    <3> QED BY <1>u, <2>1, <2>3 DEF OEvent
  <2>5. OHandler'
    <3> SUFFICES ASSUME NEW u \in Thr, pc[u] \in Handling
                 PROVE  /\ pc[u] \in RxLabels
                        /\ cur[u].fd \in reg' /\ mask'[cur[u].fd] = {}
                        /\ cur[u].inc = inc'[cur[u].fd] /\ cur[u].disp = inc'[cur[u].fd]
                        /\ cur[u].class = slot'[cur[u].fd].class
      BY <1>t DEF OHandler
    <3> QED BY <1>u, <2>2, <2>3 DEF OHandler
  <2>6. /\ f \in reg' => f \in shot' /\ app'[f] = "idle" /\ slot'[f].class # "concurrent"
        /\ f \notin reg' => f \notin shot'
        /\ mask'[f] # {} => f \in reg'
        /\ mask'[f] # {"R", "W"}
    <3>1. mask[f] = {} /\ f \notin shot  BY <1>2 DEF OItem
    <3>2. CASE Open(f) \/ SetupEvsource(f)
      BY <3>1, <3>2, <1>2 DEF Open, SetupEvsource, itemvars
    <3>3. CASE AddFdEvent(f)
      <4>1. CASE f \in open
        <5>1. Interest = {"R"}  BY DEF OneShot, Interest
        <5>2. slot[f].class # "concurrent"  BY <3>3 DEF AddFdEvent, OSetup
        <5>3. /\ reg' = reg \cup {f} /\ shot' = shot \cup {f} /\ slot' = slot
              /\ mask' = [mask EXCEPT ![f] = {"R"}] /\ app' = [app EXCEPT ![f] = "idle"]
          BY <3>3, <4>1, <5>1, <5>2 DEF AddFdEvent
        <5>4. {"R"} # {"R", "W"}
          <6>1. "W" \in {"R", "W"} /\ "W" \notin {"R"}  OBVIOUS
          <6> QED BY <6>1
        <5>5. mask'[f] = {"R"} /\ app'[f] = "idle" /\ f \in reg' /\ f \in shot'
          BY <5>3 DEF TypeOK
        <5> QED BY <5>2, <5>3, <5>4, <5>5
      <4>2. CASE f \notin open
        BY <3>1, <3>3, <4>2, <1>2 DEF AddFdEvent, itemvars
      <4> QED BY <4>1, <4>2
    <3> QED BY <1>2, <3>2, <3>3 DEF Environment, Registration
  <2>7. OItem'
    <3>1. reg' \subseteq Fd /\ shot' \subseteq Fd
      <4>1. reg' \subseteq reg \cup {f} /\ shot' \subseteq shot \cup {f}
        BY <1>2 DEF Environment, Registration, Open, SetupEvsource, AddFdEvent, itemvars
      <4> QED BY <4>1 DEF TypeOK
    <3>2. shot' = reg'
      <4>1. shot = reg  BY DEF OItem
      <4>2. \A g \in Fd : g \in shot' <=> g \in reg'  BY <2>3, <2>6, <4>1
      <4> QED BY <3>1, <4>2
    <3>3. \A g \in reg' : app'[g] = "idle" /\ slot'[g].class # "concurrent"
      BY <2>3, <2>6, <3>1 DEF OItem
    <3>4. \A g \in Fd : (mask'[g] # {} => g \in reg') /\ mask'[g] # {"R", "W"}
      BY <2>3, <2>6 DEF OItem
    <3> QED BY <3>2, <3>3, <3>4 DEF OItem
  <2> QED BY <1>o, <2>4, <2>5, <2>7
<1>3. CASE f \in reg /\ ~Arrive(f) /\ ~PeerShutdown(f)
  <2>1. app[f] = "idle" /\ f \in open  BY <1>3 DEF OItem, TypeOK
  <2> QED BY <1>3, <2>1 DEF Environment, Registration, Open, SetupEvsource, AddFdEvent
<1> QED BY <1>1, <1>2, <1>3

\* The class of a slot that is being registered is that of the registration.
LEMMA SetupNext == OwnInv /\ [Next]_vars => OSetup'
<1> SUFFICES ASSUME OwnInv, [Next]_vars PROVE OSetup'
  OBVIOUS
<1> USE DEF OwnInv, RegInv, OSetup
<1>1. ASSUME NEW f \in Fd, Environment(f) \/ Registration(f) PROVE OSetup'
  <2>1. CASE SetupEvsource(f)
    <3>1. PICK c \in Classes : slot' = [slot EXCEPT ![f] = [class |-> c, inc |-> inc[f]]]
      BY <2>1 DEF SetupEvsource
    <3>2. c # "concurrent"  BY DEF OneShot
    <3>3. slot'[f].class = c /\ \A g \in Fd \ {f} : slot'[g] = slot[g] /\ app'[g] = app[g]
      BY <2>1, <3>1 DEF SetupEvsource, TypeOK
    <3> QED BY <3>2, <3>3
  <2>2. CASE Environment(f) \/ AddFdEvent(f)
    <3>1. slot' = slot
      BY <2>2 DEF Environment, Open, Arrive, PeerShutdown, AddFdEvent, appvars
    <3>2. \A g \in Fd : app'[g] = "setup" => app[g] = "setup"
      BY <2>2 DEF Environment, Open, Arrive, PeerShutdown, AddFdEvent, appvars, TypeOK
    <3> QED BY <3>1, <3>2
  <2> QED BY <1>1, <2>1, <2>2 DEF Registration
<1>2. ASSUME NEW t \in Thr, Retrieve(t) \/ Interrupt(t) \/ RetrieveAndDiscard(t) PROVE OSetup'
  BY <1>2 DEF Retrieve, Interrupt, RetrieveAndDiscard, appvars
<1>3. ASSUME NEW t \in Thr, Dispatch(t) PROVE OSetup'
  BY <1>3, DispatchFrame
<1>4. CASE UNCHANGED vars
  BY <1>4 DEF vars, appvars
<1> QED BY <1>1, <1>2, <1>3, <1>4 DEF Next

\* Each step of a handler is one of the four kinds above.
LEMMA OwnDispatch ==
    ASSUME OwnInv, NEW t \in Thr, Dispatch(t)
    PROVE  OItem' /\ OEvent' /\ OHandler' /\ OOnce'
<1> USE DEF OwnInv, RegInv
<1>l. /\ {"rxread", "rxcb", "rxeof", "rearm", "rearmw"} \subseteq RxLabels
      /\ RxLabels \subseteq Handling /\ Handling \subseteq Labels
      /\ {"poll", "next", "wcheck"} \subseteq Labels
      /\ "wcheck" \notin Handling /\ "next" \notin Handling /\ "poll" \notin Handling
  BY DEF RxLabels, TxLabels, Handling, Labels
<1>f. cur[t].fd \in Fd  BY DEF TypeOK, Current
<1>1. CASE HandleRead(t)
  BY <1>1, OwnHandleRead
<1>2. CASE BatchDone(t)
  <2>1. /\ pc' = [pc EXCEPT ![t] = "poll"] /\ batch[t] = {}
        /\ UNCHANGED <<inc, reg, shot, mask, slot, app, batch, cur>>
    BY <1>2 DEF BatchDone, Goto, sockvars, itemvars, appvars
  <2> QED BY <2>1, <1>l, OwnProgress
<1>3. CASE RxRead(t)
  <2>1. UNCHANGED <<inc, reg, shot, mask, slot, app, batch, cur>> /\ pc[t] \in Handling
    BY <1>3, <1>l DEF RxRead, itemvars, appvars
  <2>2. PICK l \in {"rxread", "rxeof", "rxcb", "wcheck"} : pc' = [pc EXCEPT ![t] = l]
    <3>1. pc' = pc => pc' = [pc EXCEPT ![t] = "rxread"]  BY <1>3 DEF RxRead, TypeOK
    <3> QED BY <1>3, <3>1 DEF RxRead, Goto
  <2>3. l \in Labels /\ l # "poll" /\ (l \in Handling => l \in RxLabels)
    BY <1>l
  <2> QED BY <2>1, <2>2, <2>3, OwnProgress
<1>4. CASE RxFull(t)
  <2>1. pc[t] \in Handling  BY <1>4, <1>l DEF RxFull
  <2>2. CASE CloseFd(cur[t].fd) /\ Goto(t, "wcheck")
    <3>1. UNCHANGED <<slot, app, batch, cur>>  BY <1>4 DEF RxFull, appvars
    <3>2. "wcheck" \in Labels \ (Handling \cup {"poll"})  BY <1>l
    <3> QED BY <2>1, <2>2, <3>1, <3>2, OwnClose DEF Goto
  <2>3. CASE UNCHANGED <<pc, sockvars, itemvars>>
    <3>1. UNCHANGED <<inc, reg, shot, mask, slot, app, batch, cur>> /\ pc' = [pc EXCEPT ![t] = "rxread"]
      BY <1>4, <2>3 DEF RxFull, sockvars, itemvars, appvars, TypeOK
    <3> QED BY <2>1, <3>1, <1>l, OwnProgress
  <2> QED BY <1>4, <2>2, <2>3 DEF RxFull
<1>5. CASE RxCallback(t)
  <2>1. pc[t] \in Handling /\ UNCHANGED <<slot, app, batch, cur>>
    BY <1>5, <1>l DEF RxCallback, appvars
  <2>2. CASE CloseFd(cur[t].fd) /\ Goto(t, "wcheck")
    <3>1. "wcheck" \in Labels \ (Handling \cup {"poll"})  BY <1>l
    <3> QED BY <2>1, <2>2, <3>1, OwnClose DEF Goto
  <2>3. CASE UNCHANGED <<sockvars, itemvars>> /\ (Goto(t, "rearm") \/ Goto(t, "wcheck"))
    <3>1. UNCHANGED <<inc, reg, shot, mask, slot, app, batch, cur>>
      BY <2>1, <2>3 DEF sockvars, itemvars
    <3> QED BY <2>1, <2>3, <3>1, <1>l, OwnProgress DEF Goto
  <2> QED BY <1>5, <2>2, <2>3 DEF RxCallback
<1>6. CASE RxEof(t)
  <2>1. pc[t] \in Handling /\ UNCHANGED <<slot, app, batch, cur>>
    BY <1>6, <1>l DEF RxEof, appvars
  <2>2. CASE CloseFd(cur[t].fd) /\ Goto(t, "wcheck")
    <3>1. "wcheck" \in Labels \ (Handling \cup {"poll"})  BY <1>l
    <3> QED BY <2>1, <2>2, <3>1, OwnClose DEF Goto
  <2>3. CASE UNCHANGED <<sockvars, itemvars>> /\ Goto(t, "rearmw")
    <3>1. UNCHANGED <<inc, reg, shot, mask, slot, app, batch, cur>>
      BY <2>1, <2>3 DEF sockvars, itemvars
    <3> QED BY <2>1, <2>3, <3>1, <1>l, OwnProgress DEF Goto
  <2> QED BY <1>6, <2>2, <2>3 DEF RxEof
<1>7. CASE RxRestore(t) \/ RxEofRestore(t)
  BY <1>7, OwnRestore DEF RxRestore, RxEofRestore
<1>8. CASE HandleWrite(t)
  <2>1. /\ pc' = [pc EXCEPT ![t] = "next"]
        /\ UNCHANGED <<inc, reg, shot, mask, slot, app, batch, cur>>
    BY <1>8 DEF HandleWrite, Goto, OneShot, sockvars, itemvars, appvars
  <2> QED BY <2>1, <1>l, OwnProgress
<1>9. CASE TxCallback(t) \/ TxRestore(t)
  <2>1. pc[t] \in {"tx", "txarm"}  BY <1>9 DEF TxCallback, TxRestore
  <2>2. pc[t] \in Handling /\ pc[t] \notin RxLabels  BY <2>1 DEF Handling, RxLabels, TxLabels
  <2> QED BY <2>2 DEF OHandler
<1> QED BY <1>1, <1>2, <1>3, <1>4, <1>5, <1>6, <1>7, <1>8, <1>9 DEF Dispatch

\* Ownership is inductive for one-shot registrations.
LEMMA OwnNext == OwnInv /\ [Next]_vars => OwnInv'
<1> SUFFICES ASSUME OwnInv, [Next]_vars PROVE OwnInv'
  OBVIOUS
<1>1. RegInv' /\ OSetup' /\ OneShot'
  BY TypeNext, RegNext, SetupNext DEF OwnInv, RegInv, OneShot
<1>2. OItem' /\ OEvent' /\ OHandler' /\ OOnce'
  <2>1. CASE \E f \in Fd : Environment(f) \/ Registration(f)
    BY <2>1, OwnApplication
  <2>2. CASE \E t \in Thr : Retrieve(t)
    BY <2>2, OwnRetrieve
  <2>3. CASE \E t \in Thr : RetrieveAndDiscard(t)
    BY <2>3, OwnDiscard
  <2>4. CASE \E t \in Thr : Dispatch(t)
    BY <2>4, OwnDispatch
  <2>5. CASE UNCHANGED vars \/ \E t \in Thr : Interrupt(t)
    <3>1. UNCHANGED <<inc, reg, shot, mask, slot, app, batch, cur, pc>>
      BY <2>5 DEF vars, Interrupt, sockvars, itemvars, appvars, thrvars
    <3> QED BY <3>1 DEF OwnInv, OItem, OEvent, OHandler, OOnce, HasEvent, Handles
  <2> QED BY <2>1, <2>2, <2>3, <2>4, <2>5 DEF Next
<1> QED BY <1>1, <1>2 DEF OwnInv

\* Nobody owns anything in the initial state.
LEMMA OwnInit == OneShot /\ Init => OwnInv
<1> SUFFICES ASSUME OneShot, Init PROVE OwnInv
  OBVIOUS
<1>1. RegInv  BY TypeInit DEF RegInv, Init, SetUp, SlotBeforeItem
<1>2. \A t \in Thr : pc[t] = "poll" /\ batch[t] = {} /\ "poll" \notin Handling
  BY DEF Init, Handling, RxLabels, TxLabels
<1>3. OSetup  BY DEF Init, OSetup
<1>4. OItem  BY DEF Init, OItem
<1> QED BY <1>1, <1>2, <1>3, <1>4 DEF OwnInv, OEvent, OHandler, OOnce, HasEvent, Handles

\* Ownership holds in every reachable state.
LEMMA OwnInductive == OneShot /\ Spec => []OwnInv
BY OwnInit, OwnNext, PTL DEF Spec

\* For any number of threads and descriptors, any batch size, any reuse of
\* descriptor numbers and with interrupted calls of epoll_wait(2): a descriptor
\* registered one-shot and without a tx callback (torque_addfd(),
\* torque_addfd_unbuffered()) is never inside the callbacks of two threads.
THEOREM DispatchExclusive == OneShot /\ Spec => []ExclusiveDispatch
<1>1. OwnInv => ExclusiveDispatch
  <2> SUFFICES ASSUME OwnInv, NEW t \in Thr, NEW u \in Thr,
                      pc[t] \in Handling, pc[u] \in Handling, cur[t].fd = cur[u].fd
               PROVE  t = u
    BY DEF ExclusiveDispatch
  <2>1. cur[t].fd \in Fd  BY DEF OwnInv, RegInv, TypeOK, Current
  <2>2. Handles(t, cur[t].fd) /\ Handles(u, cur[t].fd)  BY DEF Handles
  <2> QED BY <2>1, <2>2 DEF OwnInv, OOnce
<1> QED BY <1>1, OwnInductive, PTL

\* Under the same conditions every event is handled by the callbacks of the
\* incarnation it was generated for, which is not closed under them: the
\* assumption for which setup_evsource() takes no lock.
THEOREM DispatchFresh == OneShot /\ Spec => []NoStaleDispatch
<1>1. OwnInv => NoStaleDispatch
  BY DEF OwnInv, RegInv, TypeOK, OHandler, NoStaleDispatch
<1> QED BY <1>1, OwnInductive, PTL

-----------------------------------------------------------------------------
(* No forgotten data.                                                        *)

\* A step of thread t that moves it only: it stops reading a descriptor only
\* when there is nothing left, and takes the end of file for one only then.
LEMMA WakeMove ==
    ASSUME LiveInv, NEW t \in Thr, NEW l,
           pc' = [pc EXCEPT ![t] = l],
           UNCHANGED <<avail, left, eof, reg, mask, ready, slot, batch, cur>>,
           pc[t] \in ReadLabels => l \in ReadLabels \/ Drained(cur[t].fd) \/ cur[t].fd \notin Buffered,
           l \in {"rxeof", "rearmw"} => Drained(cur[t].fd)
    PROVE  WakeInv'
<1> USE DEF LiveInv, WakeInv
<1>1. pc'[t] = l /\ \A u \in Thr \ {t} : pc'[u] = pc[u]  BY DEF OwnInv, RegInv, TypeOK
<1>2. Buffered' = Buffered /\ \A f \in Fd : Drained(f)' = Drained(f)
  BY DEF Buffered, Drained
<1>t. reg \subseteq Fd /\ \A u \in Thr : cur[u].fd \in Fd /\ \A e \in batch[u] : e.fd \in Fd
  BY DEF OwnInv, RegInv, TypeOK, Current, Event
<1>3. WLeft' /\ WReady' /\ WWrite'  BY <1>2 DEF WLeft, WReady, WWrite
<1>4. WEvent'  BY <1>2, <1>t DEF WEvent
<1>5. WEof'  BY <1>1, <1>2, <1>t DEF WEof
<1>6. WServed'
  <2> SUFFICES ASSUME NEW f \in Buffered, ~Drained(f), "R" \notin mask[f]
               PROVE  \E u \in Thr : Reads(u, f)'
    BY <1>2, <1>t DEF WServed, Buffered
  <2>1. PICK u \in Thr : Reads(u, f)  BY DEF WServed
  <2>2. Reads(u, f)'
    BY <1>1, <2>1 DEF Reads, ReadLabels
  <2> QED BY <2>2
<1> QED BY <1>3, <1>4, <1>5, <1>6

\* The owner closes its descriptor.
LEMMA WakeClose ==
    ASSUME LiveInv, NEW t \in Thr, NEW l \in {"wcheck", "next"}, CloseFd(cur[t].fd),
           pc' = [pc EXCEPT ![t] = l], UNCHANGED <<slot, batch, cur>>
    PROVE  WakeInv'
<1> USE DEF LiveInv, WakeInv
<1> DEFINE f == cur[t].fd
<1>1. pc'[t] = l /\ \A u \in Thr \ {t} : pc'[u] = pc[u]  BY DEF OwnInv, RegInv, TypeOK
<1>t. reg \subseteq Fd /\ \A u \in Thr : cur[u].fd \in Fd /\ \A e \in batch[u] : e.fd \in Fd
  BY DEF OwnInv, RegInv, TypeOK, Current, Event
<1>2. /\ avail' = avail /\ left' = left /\ eof' = eof /\ reg' = reg \ {f} /\ ready' = ready \ {f}
      /\ mask'[f] = {} /\ \A g \in Fd \ {f} : mask'[g] = mask[g]
  BY <1>t DEF CloseFd, OwnInv, RegInv, TypeOK
<1>3. Buffered' = Buffered \ {f} /\ \A g \in Fd : Drained(g)' = Drained(g)
  BY <1>2 DEF Buffered, Drained
<1>4. WLeft' /\ WReady' /\ WWrite'
  BY <1>2, <1>3, <1>t DEF WLeft, WReady, WWrite, Buffered
<1>5. WEvent'  BY <1>3, <1>t DEF WEvent
<1>6. WEof'  BY <1>1, <1>3, <1>t DEF WEof
<1>7. WServed'
  <2> SUFFICES ASSUME NEW g \in Buffered \ {f}, ~Drained(g), "R" \notin mask[g]
               PROVE  \E u \in Thr : Reads(u, g)'
    BY <1>2, <1>3, <1>t DEF WServed, Buffered
  <2>1. PICK u \in Thr : Reads(u, g)  BY DEF WServed
  <2>2. Reads(u, g)'
    BY <1>1, <2>1 DEF Reads, ReadLabels
  <2> QED BY <2>2
<1> QED BY <1>4, <1>5, <1>6, <1>7

\* restorefd() looks at the descriptor again, so that what arrived before it is
\* on the ready list.
LEMMA WakeRestore ==
    ASSUME LiveInv, NEW t \in Thr, NEW dir \in {"R", "W"},
           pc[t] \in {"rearm", "rearmw"}, RestoreFd(t, dir, "wcheck"),
           dir = "W" => pc[t] = "rearmw"
    PROVE  WakeInv'
<1> USE DEF LiveInv, WakeInv
<1> DEFINE f == cur[t].fd
<1>t. reg \subseteq Fd /\ \A u \in Thr : cur[u].fd \in Fd /\ \A e \in batch[u] : e.fd \in Fd
  BY DEF OwnInv, RegInv, TypeOK, Current, Event
<1>r. f \in reg
  <2>1. pc[t] \in Handling  BY DEF Handling, RxLabels
  <2> QED BY <2>1 DEF OwnInv, OHandler
<1>1. pc'[t] = "wcheck" /\ \A u \in Thr \ {t} : pc'[u] = pc[u]
  BY DEF OwnInv, RegInv, TypeOK, RestoreFd, Goto
<1>2. /\ avail' = avail /\ left' = left /\ eof' = eof /\ reg' = reg /\ slot' = slot
      /\ batch' = batch /\ cur' = cur
      /\ ready' = (IF dir \in Level(f) THEN ready \cup {f} ELSE ready)
      /\ mask'[f] = {dir} /\ \A g \in Fd \ {f} : mask'[g] = mask[g]
  BY <1>r, <1>t DEF RestoreFd, OwnInv, RegInv, TypeOK, sockvars, appvars
<1>3. Buffered' = Buffered /\ \A g \in Fd : Drained(g)' = Drained(g)
  BY <1>2 DEF Buffered, Drained
<1>4. dir = "W" => Drained(f)  BY DEF WEof
<1>5. WLeft'  BY <1>2 DEF WLeft
<1>6. WReady'
  <2>1. avail[f] > 0 /\ dir = "R" => f \in ready'  BY <1>2 DEF Level
  <2>2. "R" \in {dir} => dir = "R"  OBVIOUS
  <2> QED BY <1>2, <1>3, <1>t, <2>1, <2>2 DEF WReady, Buffered
<1>7. WWrite'
  <2>1. "W" \in {dir} => dir = "W"  OBVIOUS
  <2> QED BY <1>2, <1>3, <1>4, <2>1 DEF WWrite
<1>8. WEvent'  BY <1>2, <1>3, <1>t DEF WEvent
<1>9. WEof'  BY <1>1, <1>2, <1>3, <1>t DEF WEof
<1>10. WServed'
  <2>1. Drained(f)' \/ "R" \in mask'[f]  BY <1>2, <1>3, <1>4, <1>t
  <2>2. ASSUME NEW g \in Buffered \ {f}, ~Drained(g), "R" \notin mask[g]
        PROVE  \E u \in Thr : Reads(u, g)'
    <3>1. PICK u \in Thr : Reads(u, g)  BY <2>2 DEF WServed
    <3>2. Reads(u, g)'  BY <1>1, <1>2, <2>2, <3>1 DEF Reads, ReadLabels
    <3> QED BY <3>2
  <2> QED BY <1>2, <1>3, <1>t, <2>1, <2>2 DEF WServed, Buffered
<1> QED BY <1>5, <1>6, <1>7, <1>8, <1>9, <1>10

\* read(2) takes a byte, or finds none and leaves for the callback or the end
\* of file; the descriptor is open (NoStaleDispatch).
LEMMA WakeRxRead == ASSUME LiveInv, NEW t \in Thr, RxRead(t) PROVE WakeInv'
<1> USE DEF LiveInv
<1> DEFINE f == cur[t].fd
<1>t. reg \subseteq Fd /\ \A u \in Thr : cur[u].fd \in Fd /\ \A e \in batch[u] : e.fd \in Fd
  BY DEF OwnInv, RegInv, TypeOK, Current, Event
<1>p. pc[t] = "rxread"  BY DEF RxRead
<1>r. f \in reg /\ f \in open
  <2>1. pc[t] \in Handling  BY <1>p DEF Handling, RxLabels
  <2> QED BY <2>1 DEF OwnInv, OHandler, RegInv, TypeOK
<1>1. UNCHANGED <<inc, open, left, eof, reg, shot, mask, ready, slot, app, batch, cur, intr>>
  BY DEF RxRead, itemvars, appvars
<1>2. CASE avail[f] > 0
  <2>1. pc' = pc /\ avail' = [avail EXCEPT ![f] = @ - 1]  BY <1>2, <1>r DEF RxRead
  <2>2. \A g \in Fd : (avail'[g] > 0 => avail[g] > 0) /\ (avail[g] = 0 => avail'[g] = 0)
    BY <1>2, <2>1, <1>t DEF OwnInv, RegInv, TypeOK
  <2>3. Buffered' = Buffered /\ \A g \in Fd : Drained(g) => Drained(g)'
    BY <1>1, <2>2 DEF Buffered, Drained
  <2>4. \A u \in Thr : \A g \in Fd : Reads(u, g)' = Reads(u, g)
    BY <1>1, <2>1 DEF Reads
  <2>5. WLeft' /\ WReady' /\ WWrite'
    BY <1>1, <1>t, <2>2, <2>3 DEF WakeInv, WLeft, WReady, WWrite, Buffered
  <2>6. WEvent' /\ WEof'  BY <1>1, <1>t, <2>1, <2>3 DEF WakeInv, WEvent, WEof
  <2>7. WServed'  BY <1>1, <1>t, <2>3, <2>4 DEF WakeInv, WServed, Buffered
  <2> QED BY <2>5, <2>6, <2>7 DEF WakeInv
<1>3. CASE avail[f] = 0
  <2>1. avail' = avail  BY <1>3, <1>r DEF RxRead
  <2>2. pc' = [pc EXCEPT ![t] = "rxcb"] \/ (f \in eof /\ pc' = [pc EXCEPT ![t] = "rxeof"])
    BY <1>3, <1>r DEF RxRead, Goto
  <2>3. CASE pc' = [pc EXCEPT ![t] = "rxcb"]
    BY <2>1, <2>3, <1>1, WakeMove DEF ReadLabels
  <2>4. CASE f \in eof /\ pc' = [pc EXCEPT ![t] = "rxeof"]
    <3>1. Drained(f)  BY <1>3, <2>4 DEF Drained
    <3> QED BY <2>1, <2>4, <3>1, <1>1, WakeMove
  <2> QED BY <2>2, <2>3, <2>4
<1>4. avail[f] \in Nat  BY <1>t DEF OwnInv, RegInv, TypeOK
<1> QED BY <1>2, <1>3, <1>4

\* The event that is taken from the batch is read, or there is nothing to read.
LEMMA WakeHandleRead == ASSUME LiveInv, NEW t \in Thr, HandleRead(t) PROVE WakeInv'
<1> USE DEF LiveInv, WakeInv
<1>t. reg \subseteq Fd /\ \A u \in Thr : cur[u].fd \in Fd /\ \A e \in batch[u] : e.fd \in Fd
  BY DEF OwnInv, RegInv, TypeOK, Current, Event
<1>1. PICK e \in batch[t] :
        /\ batch' = [batch EXCEPT ![t] = @ \ {e}]
        /\ cur' = [cur EXCEPT ![t] = [fd |-> e.fd, inc |-> e.inc, ev |-> e.ev,
                                      class |-> slot[e.fd].class, disp |-> slot[e.fd].inc]]
        /\ pc' = [pc EXCEPT ![t] = IF "R" \in e.ev THEN "rxread" ELSE "wcheck"]
  BY DEF HandleRead, Goto
<1>2. UNCHANGED <<avail, left, eof, reg, mask, ready, slot>> /\ pc[t] = "next"
  BY DEF HandleRead, sockvars, itemvars, appvars
<1>3. batch'[t] = batch[t] \ {e} /\ \A u \in Thr \ {t} : batch'[u] = batch[u]
  BY <1>1 DEF OwnInv, RegInv, TypeOK
<1>4. cur'[t].fd = e.fd /\ \A u \in Thr \ {t} : cur'[u] = cur[u]
  BY <1>1 DEF OwnInv, RegInv, TypeOK
<1>5. /\ pc'[t] = (IF "R" \in e.ev THEN "rxread" ELSE "wcheck")
      /\ \A u \in Thr \ {t} : pc'[u] = pc[u]
  BY <1>1 DEF OwnInv, RegInv, TypeOK
<1>6. Buffered' = Buffered /\ \A f \in Fd : Drained(f)' = Drained(f)
  BY <1>2 DEF Buffered, Drained
<1>7. WLeft' /\ WReady' /\ WWrite'  BY <1>2, <1>6 DEF WLeft, WReady, WWrite
<1>8. WEvent'
  <2>1. \A u \in Thr : batch'[u] \subseteq batch[u]  BY <1>3
  <2> QED BY <1>6, <1>t, <2>1 DEF WEvent
<1>9. WEof'
  <2> SUFFICES ASSUME NEW u \in Thr, pc'[u] \in {"rxeof", "rearmw"}
               PROVE  cur'[u].fd \in eof' /\ avail'[cur'[u].fd] = 0
    BY DEF WEof, Drained
  <2>1. u # t  BY <1>5
  <2>2. Drained(cur[u].fd) /\ cur'[u] = cur[u]  BY <2>1, <1>4, <1>5 DEF WEof
  <2> QED BY <2>2, <1>2, <1>t DEF Drained
<1>10. WServed'
  <2> SUFFICES ASSUME NEW f \in Buffered, ~Drained(f), "R" \notin mask[f]
               PROVE  \E u \in Thr : Reads(u, f)'
    BY <1>2, <1>6, <1>t DEF WServed, Buffered
  <2>1. PICK u \in Thr : Reads(u, f)  BY DEF WServed
  <2>2. CASE u # t
    BY <2>1, <2>2, <1>3, <1>4, <1>5 DEF Reads
  <2>3. CASE u = t
    <3>1. PICK d \in batch[t] : d.fd = f /\ "R" \in d.ev
      BY <2>1, <2>3, <1>2 DEF Reads, ReadLabels
    <3>2. CASE d = e
      <4>1. Reads(t, f)'  BY <3>1, <3>2, <1>4, <1>5 DEF Reads, ReadLabels
      <4> QED BY <4>1
    <3>3. CASE d # e
      <4>1. Reads(t, f)'  BY <3>1, <3>3, <1>3 DEF Reads
      <4> QED BY <4>1
    <3> QED BY <3>2, <3>3
  <2> QED BY <2>2, <2>3
<1> QED BY <1>7, <1>8, <1>9, <1>10

\* What is retrieved goes to the thread with its read side; what is not
\* delivered stays on the ready list or had nothing to read.
LEMMA WakeRetrieve == ASSUME LiveInv, NEW t \in Thr, Retrieve(t) PROVE WakeInv'
<1> USE DEF LiveInv, WakeInv
<1>t. reg \subseteq Fd /\ \A u \in Thr : cur[u].fd \in Fd /\ \A e \in batch[u] : e.fd \in Fd
  BY DEF OwnInv, RegInv, TypeOK, Current, Event
<1>1. PICK S \in Retrievable :
        /\ Disarm(S) /\ batch' = [batch EXCEPT ![t] = Events(S)]
        /\ pc' = [pc EXCEPT ![t] = IF Delivered(S) = {} THEN "poll" ELSE "next"]
  BY DEF Retrieve, Goto
<1> DEFINE D == Delivered(S)
<1>2. UNCHANGED <<avail, left, eof, slot, cur, reg>> /\ pc[t] = "poll" /\ ready' = ready \ S
  BY <1>1 DEF Retrieve, Disarm, sockvars, appvars
<1>3. D \subseteq reg /\ D \subseteq S /\ \A f \in D : Level(f) \cap mask[f] # {}
  BY DEF Delivered, Retrievable, OwnInv, RegInv, TypeOK
<1>4. \A f \in Fd : mask'[f] = IF f \in D THEN {} ELSE mask[f]
  BY <1>1, <1>3 DEF Disarm, OwnInv, OItem
<1>5. batch'[t] = Events(S) /\ \A u \in Thr \ {t} : batch'[u] = batch[u]
  BY <1>1 DEF OwnInv, RegInv, TypeOK
<1>6. pc'[t] \in {"poll", "next"} /\ \A u \in Thr \ {t} : pc'[u] = pc[u]
  BY <1>1 DEF OwnInv, RegInv, TypeOK
<1>7. Buffered' = Buffered /\ \A f \in Fd : Drained(f)' = Drained(f)
  BY <1>2 DEF Buffered, Drained
<1>8. \A f \in Fd : ~Reads(t, f)
  BY <1>2 DEF OwnInv, OOnce, Reads, ReadLabels
<1>9. WLeft'  BY <1>2 DEF WLeft
<1>10. WWrite'  BY <1>4, <1>7 DEF WWrite
<1>11. WReady'
  <2> SUFFICES ASSUME NEW f \in Buffered, avail[f] > 0, "R" \in mask'[f] PROVE f \in ready \ S
    BY <1>2, <1>7 DEF WReady
  <2>1. f \in Fd /\ f \notin D /\ "R" \in mask[f]  BY <1>4, <1>t DEF Buffered
  <2>2. f \in ready  BY <2>1 DEF WReady
  <2>3. "R" \in Level(f)  BY DEF Level
  <2>4. f \notin S  BY <2>1, <2>3 DEF Delivered
  <2> QED BY <2>2, <2>4
<1>12. WEvent'
  <2>1. ASSUME NEW e \in Events(S) PROVE "R" \in e.ev \/ Drained(e.fd)
    <3>1. PICK f \in D : e = [fd |-> f, inc |-> inc[f], ev |-> Level(f) \cap mask[f]]
      BY <2>1 DEF Events
    <3>2. f \in Fd /\ mask[f] \subseteq {"R", "W"}  BY <3>1, <1>3, <1>t DEF OwnInv, RegInv, TypeOK
    <3>3. "R" \in e.ev \/ "W" \in mask[f]  BY <3>1, <3>2, <1>3
    <3> QED BY <3>1, <3>2, <3>3 DEF WWrite
  <2>2. \A e \in Events(S) : e.fd \in Fd  BY <1>3, <1>t DEF Events
  <2> QED BY <1>5, <1>7, <1>t, <2>1, <2>2 DEF WEvent
<1>13. WEof'  BY <1>2, <1>6, <1>7, <1>t DEF WEof
<1>14. WServed'
  <2> SUFFICES ASSUME NEW f \in Buffered, ~Drained(f), "R" \notin mask'[f]
               PROVE  \E u \in Thr : Reads(u, f)'
    BY <1>2, <1>7, <1>t DEF WServed, Buffered
  <2>f. f \in Fd  BY <1>t DEF Buffered
  <2>1. CASE "R" \in mask[f]
    <3>1. f \in D /\ f \in Fd  BY <2>1, <2>f, <1>4
    <3>2. mask[f] = {"R"}
      <4>1. mask[f] \subseteq {"R", "W"}  BY <2>f DEF OwnInv, RegInv, TypeOK
      <4>2. mask[f] # {"R", "W"}  BY <2>f DEF OwnInv, OItem
      <4> QED BY <2>1, <4>1, <4>2
    <3>3. "R" \in Level(f) \cap mask[f]  BY <3>1, <3>2, <1>3
    <3>4. [fd |-> f, inc |-> inc[f], ev |-> Level(f) \cap mask[f]] \in batch'[t]
      BY <3>1, <1>5 DEF Events
    <3>5. Reads(t, f)'  BY <3>3, <3>4 DEF Reads
    <3> QED BY <3>5
  <2>2. CASE "R" \notin mask[f]
    <3>1. PICK u \in Thr : Reads(u, f)  BY <2>2 DEF WServed
    <3>2. u # t  BY <3>1, <2>f, <1>8
    <3>3. Reads(u, f)'  BY <3>1, <3>2, <1>2, <1>5, <1>6 DEF Reads
    <3> QED BY <3>3
  <2> QED BY <2>1, <2>2
<1> QED BY <1>9, <1>10, <1>11, <1>12, <1>13, <1>14

\* Arrivals put an armed item on the ready list; new registrations look at the
\* descriptor; a new incarnation has no item yet.
LEMMA WakeApplication ==
    ASSUME LiveInv, NEW f \in Fd, Environment(f) \/ Registration(f)
    PROVE  WakeInv'
<1> USE DEF LiveInv, WakeInv
<1>y. reg \subseteq Fd /\ \A u \in Thr : cur[u].fd \in Fd /\ \A e \in batch[u] : e.fd \in Fd
  BY DEF OwnInv, RegInv, TypeOK, Current, Event
<1>t. batch' = batch /\ cur' = cur /\ pc' = pc
  BY DEF Environment, Registration, Open, Arrive, PeerShutdown, SetupEvsource, AddFdEvent, thrvars
<1>r. \A u \in Thr : \A g \in Fd : Reads(u, g)' = Reads(u, g)  BY <1>t DEF Reads
<1>1. CASE Arrive(f)
  <2>1. /\ UNCHANGED <<eof, reg, mask, slot>> /\ f \notin eof
        /\ \A g \in Fd \ {f} : avail'[g] = avail[g] /\ left'[g] = left[g]
        /\ ready \subseteq ready' /\ (f \in reg /\ "R" \in mask[f] => f \in ready')
    BY <1>1 DEF Arrive, Edge, appvars, WLeft, OwnInv, RegInv, TypeOK
  <2>2. Buffered' = Buffered /\ \A g \in Fd : Drained(g)' = Drained(g)
    BY <2>1 DEF Buffered, Drained
  <2>3. WLeft'
    <3>1. eof \subseteq Fd  BY DEF OwnInv, RegInv, TypeOK
    <3> QED BY <2>1, <3>1 DEF WLeft
  <2>4. WReady'  BY <2>1, <2>2, <1>y DEF WReady, Buffered
  <2>5. WWrite' /\ WEvent' /\ WEof'
    BY <2>1, <2>2, <1>t, <1>y DEF WWrite, WEvent, WEof
  <2>6. WServed'  BY <2>1, <2>2, <1>r, <1>y DEF WServed, Buffered
  <2> QED BY <2>3, <2>4, <2>5, <2>6
<1>2. CASE PeerShutdown(f)
  <2>1. /\ UNCHANGED <<avail, reg, mask, slot>> /\ eof' = eof \cup {f}
        /\ left'[f] = 0 /\ \A g \in Fd \ {f} : left'[g] = left[g]
        /\ ready \subseteq ready'
    BY <1>2 DEF PeerShutdown, Edge, appvars, OwnInv, RegInv, TypeOK
  <2>2. Buffered' = Buffered /\ \A g \in Fd : Drained(g) => Drained(g)'
    BY <2>1 DEF Buffered, Drained
  <2>3. WLeft'
    <3>1. eof \subseteq Fd  BY DEF OwnInv, RegInv, TypeOK
    <3> QED BY <2>1, <3>1 DEF WLeft
  <2>4. WReady'  BY <2>1, <2>2 DEF WReady
  <2>5. WWrite' /\ WEvent' /\ WEof'
    BY <2>1, <2>2, <1>t, <1>y DEF WWrite, WEvent, WEof
  <2>6. WServed'  BY <2>1, <2>2, <1>r, <1>y DEF WServed, Buffered
  <2> QED BY <2>3, <2>4, <2>5, <2>6
<1>3. CASE Open(f)
  <2>1. /\ UNCHANGED <<reg, mask, ready, slot>> /\ eof' = eof \ {f} /\ f \notin reg
        /\ \A g \in Fd \ {f} : avail'[g] = avail[g] /\ left'[g] = left[g]
    BY <1>3 DEF Open, itemvars, OwnInv, RegInv, TypeOK
  <2>2. Buffered' = Buffered /\ \A g \in Fd \ {f} : Drained(g)' = Drained(g)
    BY <2>1 DEF Buffered, Drained
  <2>3. /\ f \notin Buffered /\ mask[f] = {}
        /\ \A u \in Thr : \A e \in batch[u] : e.fd # f
        /\ \A u \in Thr : pc[u] \in {"rxeof", "rearmw"} => cur[u].fd # f
    <3>1. \A u \in Thr : ~HasEvent(u, f) /\ ~Handles(u, f)  BY <2>1, HeldIsRegistered
    <3>2. {"rxeof", "rearmw"} \subseteq Handling  BY DEF Handling, RxLabels
    <3> QED BY <2>1, <3>1, <3>2 DEF Buffered, HasEvent, Handles, OwnInv, OItem
  <2>4. WLeft'
    <3>1. eof \subseteq Fd  BY DEF OwnInv, RegInv, TypeOK
    <3> QED BY <2>1, <3>1 DEF WLeft
  <2>5. WReady'  BY <2>1, <2>2, <2>3, <1>y DEF WReady, Buffered
  <2>6. WWrite' /\ WEvent' /\ WEof'
    BY <2>1, <2>2, <2>3, <1>t, <1>y DEF WWrite, WEvent, WEof
  <2>7. WServed'  BY <2>1, <2>2, <2>3, <1>r, <1>y DEF WServed, Buffered
  <2> QED BY <2>4, <2>5, <2>6, <2>7
<1>4. CASE SetupEvsource(f)
  <2>1. f \notin reg  BY <1>4 DEF SetupEvsource, OwnInv, OItem
  <2>2. /\ UNCHANGED <<avail, left, eof, reg, mask, ready>>
        /\ \A g \in Fd \ {f} : slot'[g] = slot[g]
    BY <1>4 DEF SetupEvsource, sockvars, itemvars, OwnInv, RegInv, TypeOK
  <2>3. Buffered' = Buffered /\ \A g \in Fd : Drained(g)' = Drained(g)
    BY <2>1, <2>2, <1>y DEF Buffered, Drained
  <2>4. WLeft' /\ WReady' /\ WWrite'  BY <2>2, <2>3 DEF WLeft, WReady, WWrite
  <2>5. WEvent' /\ WEof'  BY <2>3, <1>t, <1>y DEF WEvent, WEof
  <2>6. WServed'  BY <2>2, <2>3, <1>r, <1>y DEF WServed, Buffered
  <2> QED BY <2>4, <2>5, <2>6
<1>5. CASE AddFdEvent(f)
  <2>1. CASE f \in open
    <3>1. Interest = {"R"}  BY DEF OwnInv, OneShot, Interest
    <3>2. /\ UNCHANGED <<avail, left, eof, slot>> /\ reg' = reg \cup {f}
          /\ mask'[f] = {"R"} /\ \A g \in Fd \ {f} : mask'[g] = mask[g]
          /\ ready' = IF Level(f) \cap {"R"} # {} THEN ready \cup {f} ELSE ready
      BY <1>5, <2>1, <3>1 DEF AddFdEvent, sockvars, OwnInv, RegInv, TypeOK
    <3>3. avail[f] > 0 => f \in ready'
      <4>1. avail[f] > 0 => "R" \in Level(f) \cap {"R"}  BY DEF Level
      <4> QED BY <3>2, <4>1
    <3>4. Buffered' \subseteq Buffered \cup {f} /\ \A g \in Fd : Drained(g)' = Drained(g)
      BY <3>2 DEF Buffered, Drained
    <3>5. WLeft'  BY <3>2 DEF WLeft
    <3>6. WReady'
      <4>1. ready \subseteq ready'  BY <3>2
      <4> QED BY <3>2, <3>3, <3>4, <4>1, <1>y DEF WReady, Buffered
    <3>7. WWrite'
      <4>1. "W" \notin {"R"}  OBVIOUS
      <4> QED BY <3>2, <3>4, <4>1 DEF WWrite
    <3>8. WEvent' /\ WEof'  BY <3>4, <1>t, <1>y DEF WEvent, WEof
    <3>9. WServed'
      <4>1. "R" \in mask'[f]  BY <3>2
      <4>2. \A g \in Buffered \ {f} : "R" \in mask[g] => "R" \in mask'[g]
        BY <3>2, <1>y DEF Buffered
      <4>3. Buffered \subseteq Fd /\ Buffered' \subseteq Fd  BY <3>2, <1>y DEF Buffered
      <4> QED BY <3>4, <4>1, <4>2, <4>3, <1>r DEF WServed
    <3> QED BY <3>5, <3>6, <3>7, <3>8, <3>9
  <2>2. CASE f \notin open
    <3>1. UNCHANGED <<avail, left, eof, reg, mask, ready, slot>>
      BY <1>5, <2>2 DEF AddFdEvent, sockvars, itemvars
    <3>2. Buffered' = Buffered /\ \A g \in Fd : Drained(g)' = Drained(g)
      BY <3>1 DEF Buffered, Drained
    <3>3. WLeft' /\ WReady' /\ WWrite'  BY <3>1, <3>2 DEF WLeft, WReady, WWrite
    <3>4. WEvent' /\ WEof'  BY <3>2, <1>t, <1>y DEF WEvent, WEof
    <3>5. WServed'  BY <3>1, <3>2, <1>r, <1>y DEF WServed, Buffered
    <3> QED BY <3>3, <3>4, <3>5
  <2> QED BY <2>1, <2>2
<1> QED BY <1>1, <1>2, <1>3, <1>4, <1>5 DEF Environment, Registration

\* Each step of a handler keeps the data of its descriptor in sight.
LEMMA WakeDispatch == ASSUME LiveInv, NEW t \in Thr, Dispatch(t) PROVE WakeInv'
<1> DEFINE f == cur[t].fd
<1>k. {"rxread", "rxcb", "rxeof"} \subseteq Handling  BY DEF Handling, RxLabels
<1>1. CASE HandleRead(t)
  BY <1>1, WakeHandleRead
<1>2. CASE BatchDone(t) \/ HandleWrite(t)
  <2>1. PICK l \in {"poll", "next"} :
          /\ pc' = [pc EXCEPT ![t] = l] /\ pc[t] \notin ReadLabels
          /\ UNCHANGED <<avail, left, eof, reg, mask, ready, slot, batch, cur>>
    BY <1>2 DEF BatchDone, HandleWrite, Goto, ReadLabels, sockvars, itemvars, appvars,
                LiveInv, OwnInv, OneShot
  <2> QED BY <2>1, WakeMove
<1>3. CASE RxRead(t)
  BY <1>3, WakeRxRead
<1>4. CASE RxFull(t)
  <2>1. CASE CloseFd(f) /\ Goto(t, "wcheck")
    <3>1. UNCHANGED <<slot, batch, cur>>  BY <1>4 DEF RxFull, appvars
    <3> QED BY <2>1, <3>1, WakeClose DEF Goto
  <2>2. CASE UNCHANGED <<pc, sockvars, itemvars>>
    <3>1. /\ pc' = [pc EXCEPT ![t] = "rxread"]
          /\ UNCHANGED <<avail, left, eof, reg, mask, ready, slot, batch, cur>>
      BY <1>4, <2>2 DEF RxFull, sockvars, itemvars, appvars, LiveInv, OwnInv, RegInv, TypeOK
    <3> QED BY <3>1, WakeMove DEF ReadLabels
  <2> QED BY <1>4, <2>1, <2>2 DEF RxFull
<1>5. CASE RxCallback(t)
  <2>1. pc[t] = "rxcb" /\ UNCHANGED <<slot, batch, cur>>  BY <1>5 DEF RxCallback, appvars
  <2>2. CASE CloseFd(f) /\ Goto(t, "wcheck")
    BY <2>1, <2>2, WakeClose DEF Goto
  <2>3. CASE Goto(t, "rearm") /\ UNCHANGED <<sockvars, itemvars>>
    BY <2>1, <2>3, WakeMove DEF Goto, ReadLabels, sockvars, itemvars
  <2>4. CASE cur[t].class # "buffered" /\ Goto(t, "wcheck") /\ UNCHANGED <<sockvars, itemvars>>
    <3>1. f \notin Buffered  BY <2>1, <2>4, <1>k DEF Buffered, LiveInv, OwnInv, OHandler
    <3> QED BY <2>1, <2>4, <3>1, WakeMove DEF Goto, sockvars, itemvars
  <2> QED BY <1>5, <2>2, <2>3, <2>4 DEF RxCallback
<1>6. CASE RxEof(t)
  <2>1. pc[t] = "rxeof" /\ UNCHANGED <<slot, batch, cur>>  BY <1>6 DEF RxEof, appvars
  <2>2. CASE CloseFd(f) /\ Goto(t, "wcheck")
    BY <2>1, <2>2, WakeClose DEF Goto
  <2>3. CASE Goto(t, "rearmw") /\ UNCHANGED <<sockvars, itemvars>>
    <3>1. Drained(f)  BY <2>1 DEF LiveInv, WakeInv, WEof
    <3> QED BY <2>1, <2>3, <3>1, WakeMove DEF Goto, sockvars, itemvars
  <2> QED BY <1>6, <2>2, <2>3 DEF RxEof
<1>7. CASE RxRestore(t)
  BY <1>7, WakeRestore DEF RxRestore
<1>8. CASE RxEofRestore(t)
  BY <1>8, WakeRestore DEF RxEofRestore
<1>9. CASE TxCallback(t) \/ TxRestore(t)
  <2>1. pc[t] \in {"tx", "txarm"}  BY <1>9 DEF TxCallback, TxRestore
  <2>2. pc[t] \in Handling /\ pc[t] \notin RxLabels  BY <2>1 DEF Handling, RxLabels, TxLabels
  <2> QED BY <2>2 DEF LiveInv, OwnInv, OHandler
<1> QED BY <1>1, <1>2, <1>3, <1>4, <1>5, <1>6, <1>7, <1>8, <1>9 DEF Dispatch

\* No step loses sight of data.
LEMMA WakeNext == LiveInv /\ [Next]_vars => LiveInv'
<1> SUFFICES ASSUME LiveInv, [Next]_vars PROVE LiveInv'
  OBVIOUS
<1>1. OwnInv' /\ Uninterrupted'  BY OwnNext DEF LiveInv, Uninterrupted
<1>2. intr' = {} /\ WakeInv'
  <2>1. CASE \E f \in Fd : Environment(f) \/ Registration(f)
    <3>1. intr' = intr
      BY <2>1 DEF Environment, Registration, Open, Arrive, PeerShutdown, SetupEvsource, AddFdEvent, thrvars
    <3> QED BY <2>1, <3>1, WakeApplication DEF LiveInv
  <2>2. CASE \E t \in Thr : Retrieve(t)
    <3>1. intr' = intr  BY <2>2 DEF Retrieve
    <3> QED BY <2>2, <3>1, WakeRetrieve DEF LiveInv
  <2>3. CASE \E t \in Thr : Interrupt(t) \/ RetrieveAndDiscard(t)
    BY <2>3 DEF Interrupt, RetrieveAndDiscard, LiveInv, Uninterrupted
  <2>4. CASE \E t \in Thr : Dispatch(t)
    <3>1. intr' = intr
      BY <2>4 DEF Dispatch, HandleRead, BatchDone, RxRead, RxFull, RxCallback, RxEof, RxRestore,
                  RxEofRestore, HandleWrite, TxCallback, TxRestore, RestoreFd
    <3> QED BY <2>4, <3>1, WakeDispatch DEF LiveInv
  <2>5. CASE UNCHANGED vars
    <3>1. UNCHANGED <<avail, left, eof, reg, mask, ready, slot, batch, cur, pc, intr>>
      BY <2>5 DEF vars, sockvars, itemvars, appvars, thrvars
    <3> QED BY <3>1 DEF LiveInv, WakeInv, WLeft, WReady, WServed, WWrite, WEvent, WEof,
                        Drained, Reads, Buffered
  <2> QED BY <2>1, <2>2, <2>3, <2>4, <2>5 DEF Next
<1> QED BY <1>1, <1>2 DEF LiveInv

\* The invariant holds in every reachable state.
LEMMA WakeInductive == OneShot /\ Uninterrupted /\ Spec => []LiveInv
<1>1. OneShot /\ Init => OwnInv
  BY OwnInit
<1>2. Init => intr = {} /\ WakeInv
  BY DEF Init, WakeInv, WLeft, WReady, WServed, WWrite, WEvent, WEof, Drained, Buffered
<1>3. OneShot /\ Uninterrupted /\ Init => LiveInv
  BY <1>1, <1>2 DEF LiveInv
<1> QED BY <1>3, WakeNext, PTL DEF Spec

\* Data on a descriptor of torque_addfd() is never forgotten, for any number of
\* threads, descriptors, bytes and incarnations and any batch size, as long as
\* epoll_wait(2) is not interrupted: it is on the ready list, or a thread holds
\* its event, or a handler has yet to re-arm it with restorefd().
THEOREM WakeupKept == OneShot /\ Uninterrupted /\ Spec => []NoLostWakeup
<1>1. LiveInv => NoLostWakeup
  <2> SUFFICES ASSUME LiveInv, NEW f \in Buffered, avail[f] > 0, ~(f \in ready /\ "R" \in mask[f])
               PROVE  \E t \in Thr : Reads(t, f)
    BY DEF NoLostWakeup, Reads, ReadLabels
  <2>1. ~Drained(f)  BY DEF Drained
  <2> QED BY <2>1 DEF LiveInv, WakeInv, WReady, WServed
<1> QED BY <1>1, WakeInductive, PTL

=============================================================================
