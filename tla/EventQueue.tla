----------------------------- MODULE EventQueue -----------------------------
(***************************************************************************)
(* Descriptors registered with a context's event queue, and the threads    *)
(* that retrieve and dispatch their events.                                *)
(*                                                                         *)
(* events/fd.c (add_fd_to_evhandler), events/sources.h (setup_evsource,    *)
(* handle_evsource_read, handle_evsource_write), events/thread.c           *)
(* (event_thread, handle_event), events/sysdep.[ch] (kevent_retrieve,      *)
(* restorefd), buffers.c (buffered_rxfxn, buffered_txfxn), torque.c        *)
(* (torque_addfd, torque_addfd_unbuffered, torque_addfd_concurrent).       *)
(* epoll is modelled from how this code uses it: EPOLLET with or without   *)
(* EPOLLONESHOT, EPOLL_CTL_ADD, EPOLL_CTL_MOD, removal on close(2).        *)
(*                                                                         *)
(* A descriptor number that is closed and opened again starts a new        *)
(* incarnation; events carry the incarnation they were generated for,      *)
(* which the code cannot see.                                              *)
(***************************************************************************)
EXTENDS Naturals, FiniteSets

CONSTANTS
    Thr,         \* event threads
    Fd,          \* descriptor numbers
    Classes,     \* registration calls the application uses
    UseTx,       \* registrations pass a tx callback as well
    CbCloses,    \* a callback may close its own descriptor
    Interrupts,  \* epoll_wait() may return EINTR
    Reused,      \* bound: numbers that are opened more than once
    MaxInc,      \* bound: incarnations of such a number
    MaxArrive,   \* bound: bytes the peer sends on one incarnation
    BatchMax     \* evec.vsizes: events taken by one epoll_wait()

ClassNames == {"buffered", "unbuffered", "concurrent"}
RxLabels == {"rxread", "rxcb", "rxeof", "rearm", "rearmw"}
TxLabels == {"tx", "txarm"}
Handling == RxLabels \cup TxLabels
Labels == {"poll", "next", "wcheck"} \cup Handling

ASSUME SetAssumption == Fd # {} /\ Reused \subseteq Fd /\ Classes \subseteq ClassNames
ASSUME BoolAssumption == {UseTx, CbCloses, Interrupts} \subseteq BOOLEAN
ASSUME BoundAssumption == MaxInc \in Nat \ {0} /\ MaxArrive \in Nat /\ BatchMax \in Nat \ {0}

VARIABLES
    inc,     \* incarnation of each number; 0 before it is first opened
    open,    \* numbers currently open
    avail,   \* bytes in the socket's receive queue
    left,    \* bytes the peer will still send on this incarnation
    eof,     \* numbers whose peer has shut down its side
    reg,     \* numbers the epoll set holds an item for
    shot,    \* items registered with EPOLLONESHOT
    mask,    \* directions each item is armed for
    ready,   \* items on epoll's ready list
    slot,    \* evsource of each number: class and incarnation it was set up for
    app,     \* the application's registration of each number in progress
    pc,      \* where each thread is
    batch,   \* events each thread has retrieved and not yet handled
    cur,     \* the event each thread handles, and the slot it found for it
    held,    \* numbers whose buffer holds bytes the client has not released
    intr     \* threads whose errno is EINTR

sockvars == <<inc, open, avail, left, eof>>
itemvars == <<reg, shot, mask, ready>>
appvars == <<slot, app>>
thrvars == <<pc, batch, cur, held, intr>>
vars == <<sockvars, itemvars, appvars, thrvars>>

Interest == IF UseTx THEN {"R", "W"} ELSE {"R"}
Event == [fd : Fd, inc : 0 .. MaxInc, ev : SUBSET {"R", "W"}]
Current == [fd : Fd, inc : 0 .. MaxInc, ev : SUBSET {"R", "W"},
            class : ClassNames \cup {"none"}, disp : 0 .. MaxInc]
NoCurrent == [fd |-> CHOOSE f \in Fd : TRUE, inc |-> 0, ev |-> {}, class |-> "none", disp |-> 0]

\* What the descriptor would poll as: readable with data or at end of file,
\* and always writable.
Level(f) == (IF avail[f] > 0 \/ f \in eof THEN {"R"} ELSE {}) \cup {"W"}

Init ==
    /\ inc = [f \in Fd |-> 0] /\ open = {}
    /\ avail = [f \in Fd |-> 0] /\ left = [f \in Fd |-> 0] /\ eof = {}
    /\ reg = {} /\ shot = {} /\ mask = [f \in Fd |-> {}] /\ ready = {}
    /\ slot = [f \in Fd |-> [class |-> "none", inc |-> 0]]
    /\ app = [f \in Fd |-> "idle"]
    /\ pc = [t \in Thr |-> "poll"]
    /\ batch = [t \in Thr |-> {}]
    /\ cur = [t \in Thr |-> NoCurrent]
    /\ held = {} /\ intr = {}

Goto(t, l) == pc' = [pc EXCEPT ![t] = l]

-----------------------------------------------------------------------------
(* Sockets: opened by the application, fed by the peer.                      *)

\* socket(2) or accept(2) hands the application a number that is not open
Open(f) ==
    /\ f \notin open /\ app[f] = "idle"
    /\ inc[f] < IF f \in Reused THEN MaxInc ELSE 1
    /\ inc' = [inc EXCEPT ![f] = @ + 1]
    /\ open' = open \cup {f}
    /\ avail' = [avail EXCEPT ![f] = 0]
    /\ left' = [left EXCEPT ![f] = MaxArrive]
    /\ eof' = eof \ {f}
    /\ app' = [app EXCEPT ![f] = "opened"]
    /\ UNCHANGED <<itemvars, slot, thrvars>>

\* An edge: the item joins the ready list if it is armed for reading
Edge(f) == ready' = IF f \in reg /\ "R" \in mask[f] THEN ready \cup {f} ELSE ready

Arrive(f) ==
    /\ f \in open /\ left[f] > 0
    /\ avail' = [avail EXCEPT ![f] = @ + 1]
    /\ left' = [left EXCEPT ![f] = @ - 1]
    /\ Edge(f)
    /\ UNCHANGED <<inc, open, eof, reg, shot, mask, appvars, thrvars>>

PeerShutdown(f) ==
    /\ f \in open \ eof
    /\ eof' = eof \cup {f}
    /\ left' = [left EXCEPT ![f] = 0]
    /\ Edge(f)
    /\ UNCHANGED <<inc, open, avail, reg, shot, mask, appvars, thrvars>>

\* close(2) on the number, whatever it names by now; epoll drops the item
CloseFd(f) ==
    /\ open' = open \ {f}
    /\ reg' = reg \ {f} /\ shot' = shot \ {f} /\ ready' = ready \ {f}
    /\ mask' = [mask EXCEPT ![f] = {}]
    /\ UNCHANGED <<inc, avail, left, eof>>

-----------------------------------------------------------------------------
(* Registration.                                                             *)

\* Mutant: a slot that is set up is left alone
SetupEvsourceMutant(f) ==
    /\ app[f] = "opened"
    /\ IF slot[f].class = "none"
       THEN \E c \in Classes : slot' = [slot EXCEPT ![f] = [class |-> c, inc |-> inc[f]]]
       ELSE UNCHANGED slot
    /\ held' = held \ {f}
    /\ app' = [app EXCEPT ![f] = "setup"]
    /\ UNCHANGED <<sockvars, itemvars, pc, batch, cur, intr>>

\* torque_addfd*(): setup_evsource() overwrites the slot before the item exists
SetupEvsource(f) ==
    /\ app[f] = "opened"
    /\ \E c \in Classes : slot' = [slot EXCEPT ![f] = [class |-> c, inc |-> inc[f]]]
    /\ held' = held \ {f}
    /\ app' = [app EXCEPT ![f] = "setup"]
    /\ UNCHANGED <<sockvars, itemvars, pc, batch, cur, intr>>

\* Mutant: an error of EPOLL_CTL_ADD is taken for success
AddFdEventErrorMutant(f) ==
    /\ app[f] = "setup"
    /\ app' = [app EXCEPT ![f] = "idle"]
    /\ reg' = reg \cup {f}
    /\ shot' = IF slot[f].class = "concurrent" THEN shot \ {f} ELSE shot \cup {f}
    /\ mask' = [mask EXCEPT ![f] = Interest]
    /\ ready' = IF Level(f) \cap Interest # {} THEN ready \cup {f} ELSE ready
    /\ UNCHANGED <<sockvars, slot, thrvars>>

\* Mutant: EPOLLONESHOT is never passed
AddFdEventShotMutant(f) ==
    /\ app[f] = "setup" /\ f \in open
    /\ app' = [app EXCEPT ![f] = "idle"]
    /\ reg' = reg \cup {f}
    /\ mask' = [mask EXCEPT ![f] = Interest]
    /\ ready' = IF Level(f) \cap Interest # {} THEN ready \cup {f} ELSE ready
    /\ UNCHANGED <<sockvars, slot, shot, thrvars>>

\* add_fd_event(): EPOLL_CTL_ADD, which fails on a closed descriptor
AddFdEvent(f) ==
    /\ app[f] = "setup"
    /\ app' = [app EXCEPT ![f] = "idle"]
    /\ IF f \in open
       THEN /\ reg' = reg \cup {f}
            /\ shot' = IF slot[f].class = "concurrent" THEN shot \ {f} ELSE shot \cup {f}
            /\ mask' = [mask EXCEPT ![f] = Interest]
            /\ ready' = IF Level(f) \cap Interest # {} THEN ready \cup {f} ELSE ready
       ELSE UNCHANGED itemvars
    /\ UNCHANGED <<sockvars, slot, thrvars>>

-----------------------------------------------------------------------------
(* Retrieval: kevent_retrieve() and event_thread().                          *)

\* epoll_wait() is greedy: all that is ready, or as much as there is room for
Retrievable ==
    {S \in SUBSET ready : S # {} /\ Cardinality(S) <= BatchMax
                          /\ (S = ready \/ Cardinality(S) = BatchMax)}
Delivered(S) == {f \in S : Level(f) \cap mask[f] # {}}
Events(S) == {[fd |-> f, inc |-> inc[f], ev |-> Level(f) \cap mask[f]] : f \in Delivered(S)}
Disarm(S) ==
    /\ ready' = ready \ S
    /\ mask' = [f \in Fd |-> IF f \in Delivered(S) \cap shot THEN {} ELSE mask[f]]
    /\ UNCHANGED <<reg, shot>>

Retrieve(t) ==
    /\ pc[t] = "poll" /\ t \notin intr
    /\ \E S \in Retrievable :
         /\ Disarm(S)
         /\ batch' = [batch EXCEPT ![t] = Events(S)]
         /\ Goto(t, IF Delivered(S) = {} THEN "poll" ELSE "next")
    /\ UNCHANGED <<sockvars, appvars, cur, held, intr>>

\* epoll_wait() returns -1 with EINTR (a stop and continue of the process)
Interrupt(t) ==
    /\ Interrupts /\ pc[t] = "poll"
    /\ intr' = intr \cup {t}
    /\ UNCHANGED <<sockvars, itemvars, appvars, pc, batch, cur, held>>

\* "while(ret < 0 || errno == EINTR)": a successful epoll_wait() does not
\* touch errno, so what it returned is thrown away and the loop goes round
RetrieveAndDiscard(t) ==
    /\ pc[t] = "poll" /\ t \in intr
    /\ \E S \in Retrievable : Disarm(S)
    /\ UNCHANGED <<sockvars, appvars, thrvars>>

-----------------------------------------------------------------------------
(* Dispatch: handle_event() and the callbacks.                               *)

\* The next event of the batch; handle_evsource_read() looks the callback up
\* by number alone
HandleRead(t) ==
    /\ pc[t] = "next" /\ batch[t] # {}
    /\ \E e \in batch[t] :
         /\ batch' = [batch EXCEPT ![t] = @ \ {e}]
         /\ cur' = [cur EXCEPT ![t] = [fd |-> e.fd, inc |-> e.inc, ev |-> e.ev,
                                       class |-> slot[e.fd].class, disp |-> slot[e.fd].inc]]
         /\ Goto(t, IF "R" \in e.ev THEN "rxread" ELSE "wcheck")
    /\ UNCHANGED <<sockvars, itemvars, appvars, held, intr>>

\* Mutant: the loop does not go back to kevent_retrieve()
BatchDoneMutant(t) ==
    /\ pc[t] = "next" /\ batch[t] = {}
    /\ UNCHANGED vars

BatchDone(t) ==
    /\ pc[t] = "next" /\ batch[t] = {}
    /\ Goto(t, "poll")
    /\ UNCHANGED <<sockvars, itemvars, appvars, batch, cur, held, intr>>

\* One read(2) of buffered_rxfxn(), or of a client callback that follows the
\* README and reads until EAGAIN or end of file
RxRead(t) ==
    LET f == cur[t].fd
        buffered == cur[t].class = "buffered" IN
    /\ pc[t] = "rxread"
    /\ \/ /\ f \in open /\ avail[f] > 0
          /\ avail' = [avail EXCEPT ![f] = @ - 1]
          /\ held' = IF buffered THEN held \cup {f} ELSE held
          /\ UNCHANGED pc
       \/ /\ f \in open /\ avail[f] = 0
          /\ Goto(t, IF f \in eof /\ buffered THEN "rxeof" ELSE "rxcb")
          /\ UNCHANGED <<avail, held>>
       \/ /\ f \notin open      \* EBADF: an internal error, closed again in vain
          /\ Goto(t, "wcheck")
          /\ UNCHANGED <<avail, held>>
    /\ UNCHANGED <<inc, open, left, eof, itemvars, appvars, batch, cur, intr>>

\* The buffer fills up before the data ends: the callback releases some of
\* it, or none and the buffer grows (BufferedConn), or the descriptor is
\* closed, by the client or because the buffer cannot grow.
RxFull(t) ==
    LET f == cur[t].fd IN
    /\ pc[t] = "rxread" /\ cur[t].class = "buffered" /\ f \in held
    /\ \/ held' = held \ {f} /\ UNCHANGED <<pc, sockvars, itemvars>>
       \/ CbCloses /\ CloseFd(f) /\ Goto(t, "wcheck") /\ UNCHANGED held
    /\ UNCHANGED <<appvars, batch, cur, intr>>

\* Mutant: the result of a callback that closed the descriptor is ignored
RxCallbackResultMutant(t) ==
    LET f == cur[t].fd IN
    /\ pc[t] = "rxcb"
    /\ \/ Goto(t, "rearm") /\ UNCHANGED <<sockvars, itemvars, held>>
       \/ f \in held /\ CloseFd(f) /\ Goto(t, "rearm") /\ UNCHANGED held
    /\ UNCHANGED <<appvars, batch, cur, intr>>

\* The client's callback has all the data there is.  A buffered descriptor is
\* re-armed if it returned zero, or was not called at all; otherwise, as for
\* the other classes, what becomes of the descriptor is the client's affair.
RxCallback(t) ==
    LET f == cur[t].fd IN
    /\ pc[t] = "rxcb"
    /\ \/ /\ cur[t].class = "buffered"
          /\ \/ f \in held /\ held' = held \ {f}
             \/ UNCHANGED held
          /\ Goto(t, "rearm")
          /\ UNCHANGED <<sockvars, itemvars>>
       \/ /\ cur[t].class # "buffered"
          /\ Goto(t, "wcheck")
          /\ UNCHANGED <<sockvars, itemvars, held>>
       \/ /\ CbCloses /\ (cur[t].class = "buffered" => f \in held)
          /\ CloseFd(f)
          /\ Goto(t, "wcheck")
          /\ UNCHANGED held
    /\ UNCHANGED <<appvars, batch, cur, intr>>

\* End of file: the client's callback is called whether or not there is data
RxEof(t) ==
    /\ pc[t] = "rxeof"
    /\ \/ Goto(t, "rearmw") /\ UNCHANGED <<sockvars, itemvars>>
       \/ CbCloses /\ CloseFd(cur[t].fd) /\ Goto(t, "wcheck")
    /\ UNCHANGED <<appvars, batch, cur, held, intr>>

\* restorefd(): EPOLL_CTL_MOD arms the item and looks at the descriptor's
\* state again; when there is no item, the descriptor is closed
RestoreFd(t, dir, label) ==
    LET f == cur[t].fd IN
    /\ IF f \in reg
       THEN /\ mask' = [mask EXCEPT ![f] = {dir}]
            /\ shot' = shot \cup {f}
            /\ ready' = IF dir \in Level(f) THEN ready \cup {f} ELSE ready
            /\ UNCHANGED <<reg, sockvars>>
       ELSE CloseFd(f)
    /\ Goto(t, label)
    /\ UNCHANGED <<appvars, batch, cur, held, intr>>

\* Mutant: the descriptor is armed for writing
RxRestoreMutant(t) == pc[t] = "rearm" /\ RestoreFd(t, "W", "wcheck")

RxRestore(t) == pc[t] = "rearm" /\ RestoreFd(t, "R", "wcheck")
RxEofRestore(t) == pc[t] = "rearmw" /\ RestoreFd(t, "W", "wcheck")

\* handle_event() goes on to the write side of the same event, and
\* handle_evsource_write() looks the slot up again
HandleWrite(t) ==
    LET f == cur[t].fd IN
    /\ pc[t] = "wcheck"
    /\ IF "W" \in cur[t].ev /\ UseTx
       THEN /\ cur' = [cur EXCEPT ![t].class = slot[f].class, ![t].disp = slot[f].inc]
            /\ Goto(t, "tx")
       ELSE Goto(t, "next") /\ UNCHANGED cur
    /\ UNCHANGED <<sockvars, itemvars, appvars, batch, held, intr>>

\* buffered_txfxn(): with buffered data the client's callback runs, and its
\* result decides between restorefd() and close(2); without, nothing happens
TxCallback(t) ==
    LET f == cur[t].fd
        called == cur[t].class = "buffered" => f \in held IN
    /\ pc[t] = "tx"
    /\ \/ /\ cur[t].class = "buffered" /\ called
          /\ Goto(t, "txarm")
          /\ UNCHANGED <<sockvars, itemvars>>
       \/ /\ CbCloses /\ called
          /\ CloseFd(f)
          /\ Goto(t, "next")
       \/ /\ cur[t].class = "buffered" => ~called
          /\ Goto(t, "next")
          /\ UNCHANGED <<sockvars, itemvars>>
    /\ UNCHANGED <<appvars, batch, cur, held, intr>>

TxRestore(t) == pc[t] = "txarm" /\ RestoreFd(t, "R", "next")

-----------------------------------------------------------------------------
Environment(f) == Open(f) \/ Arrive(f) \/ PeerShutdown(f)
Registration(f) == SetupEvsource(f) \/ AddFdEvent(f)
Dispatch(t) == \/ HandleRead(t) \/ BatchDone(t) \/ RxRead(t) \/ RxFull(t) \/ RxCallback(t)
               \/ RxEof(t) \/ RxRestore(t) \/ RxEofRestore(t)
               \/ HandleWrite(t) \/ TxCallback(t) \/ TxRestore(t)

Next == \/ \E f \in Fd : Environment(f) \/ Registration(f)
        \/ \E t \in Thr : \/ Retrieve(t) \/ Interrupt(t) \/ RetrieveAndDiscard(t)
                          \/ Dispatch(t)

\* Threads run, callbacks return, and a thread in epoll_wait() is woken when
\* the ready list is not empty.  Nothing obliges the peer or the application.
Fairness == \A t \in Thr : /\ WF_vars(Dispatch(t))
                           /\ WF_vars(Retrieve(t)) /\ WF_vars(RetrieveAndDiscard(t))

Spec == Init /\ [][Next]_vars
FairSpec == Spec /\ Fairness

-----------------------------------------------------------------------------
(* Properties.                                                               *)

\* Every variable stays within its range; in particular only open descriptors
\* have items, and only items are armed or ready.
TypeOK ==
    /\ inc \in [Fd -> 0 .. MaxInc] /\ open \subseteq Fd
    /\ avail \in [Fd -> Nat] /\ left \in [Fd -> Nat] /\ eof \subseteq Fd
    /\ reg \subseteq open /\ shot \subseteq reg /\ ready \subseteq reg
    /\ mask \in [Fd -> SUBSET {"R", "W"}]
    /\ slot \in [Fd -> [class : ClassNames \cup {"none"}, inc : 0 .. MaxInc]]
    /\ app \in [Fd -> {"idle", "opened", "setup"}]
    /\ pc \in [Thr -> Labels]
    /\ batch \in [Thr -> SUBSET Event]
    /\ cur \in [Thr -> Current]
    /\ held \subseteq Fd /\ intr \subseteq Thr

\* "No more than one libtorque thread will dispatch a given event's handler at
\* once" (README): two threads are never inside callbacks of the same
\* descriptor, unless it was registered with torque_addfd_concurrent().
ExclusiveDispatch ==
    \A t, u \in Thr :
        /\ pc[t] \in Handling /\ pc[u] \in Handling /\ cur[t].fd = cur[u].fd
        /\ cur[t].class # "concurrent" /\ cur[u].class # "concurrent"
        => t = u

\* An event is handled by the callbacks of the incarnation it was generated
\* for, and that incarnation is not closed under a running callback: the
\* assumption stated before setup_evsource() for using no lock.
NoStaleDispatch ==
    \A t \in Thr : pc[t] \in Handling =>
        LET f == cur[t].fd IN
        cur[t].inc = cur[t].disp /\ f \in open /\ inc[f] = cur[t].inc

\* An item of the epoll set always finds the callbacks of its own incarnation
\* in the slot: registration never exposes an old or an empty slot.
SlotBeforeItem == \A f \in reg : slot[f].class # "none" /\ slot[f].inc = inc[f]

\* Descriptors whose one-shot items libtorque itself re-arms: those of
\* torque_addfd().
Buffered == {f \in reg : slot[f].class = "buffered"}

\* Data on a buffered descriptor is never forgotten: the item is ready, or
\* a thread holds its event, or a handler has yet to re-arm it (and
\* restorefd() will look again).
NoLostWakeup ==
    \A f \in Buffered : avail[f] > 0 =>
        \/ f \in ready /\ "R" \in mask[f]
        \/ \E t \in Thr :
             \/ \E e \in batch[t] : e.fd = f /\ "R" \in e.ev
             \/ pc[t] \in {"rxread", "rxcb", "rearm"} /\ cur[t].fd = f

\* Data that arrives on a buffered descriptor is read, or the descriptor is
\* closed by its client.
DataIsRead ==
    \A f \in Fd : (f \in Buffered /\ avail[f] > 0) ~> (avail[f] = 0 \/ f \notin open)

=============================================================================
