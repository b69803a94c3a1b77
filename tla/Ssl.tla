-------------------------------- MODULE Ssl ---------------------------------
(***************************************************************************)
(* TLS connections: a listening descriptor registered by torque_addssl(),  *)
(* the connections ssl_accept_rxfxn() takes from it, and the handlers of   *)
(* protos/ssl.c that hand each other a connection by rewriting its         *)
(* evsource and re-arming its one-shot epoll item.                         *)
(*                                                                         *)
(* OpenSSL is modelled from how this code uses it.  A handshake is a       *)
(* sequence of flights to read and to write; a call proceeds as long as    *)
(* the socket lets it and then wants to read or to write.  A one-shot item *)
(* is delivered while it is armed for what its socket polls as, because    *)
(* EPOLL_CTL_MOD looks at the socket again; delivery disarms it.  A thread *)
(* handles one event of its batch at a time; batches only delay events.    *)
(* close(2) and the reuse of descriptor numbers are EventQueue's subject.  *)
(***************************************************************************)
EXTENDS Naturals, Sequences, FiniteSets

CONSTANTS
    Thr,          \* event threads
    Conn,         \* connections the peers open
    Clients,      \* callbacks passed to torque_addssl(): "rx", "tx" or "both"
    Flights,      \* the handshake: directions of its flights, in order
    MaxRecords,   \* bound: records a peer sends after its handshake
    Renegotiates, \* SSL_read() may have to write
    TxBlocks,     \* SSL_write() in a callback may not go through at once
    Faults        \* allocation, epoll_ctl(2), accept(2) or TLS may fail

ASSUME SslAssumption ==
    /\ Conn # {} /\ Clients \subseteq {"rx", "tx", "both"} /\ Flights \in Seq({"R", "W"})
    /\ MaxRecords \in Nat /\ {Renegotiates, TxBlocks, Faults} \subseteq BOOLEAN

VARIABLES
    client,  \* the callbacks of the listener; "none" before torque_addssl()
    larmed,  \* the listener's item is armed
    st,      \* connections: "none", "pending" in the backlog, "open", "closed"
    sock,    \* their sockets: input queued, records to come, end of file, room to send
    hs,      \* flights of the handshake done; Len(Flights) + 1 once SSL_accept() returned 1
    want,    \* what OpenSSL waits for
    sc,      \* the ssl_cbstate: "none", "live", "freed"
    maps,    \* receive buffers mapped for it
    slot,    \* rx and tx handler in the evsource
    armed,   \* directions the connection's item is armed for
    last,    \* the handler that ran last, "null" for an event that found none
    th       \* where each thread is, its connection, event, handler, and what it will arm

vars == <<client, larmed, st, sock, hs, want, sc, maps, slot, armed, last, th>>

Handlers == {"ssl_accept_internal", "accept_contrxfxn", "accept_conttxfxn",
             "ssl_rxfxn", "ssl_txrxfxn", "ssl_txfxn"}
Null == "null"
HandlerPcs == {"hs", "add", "read", "cb", "txcb", "arm", "fail"}
Pcs == {"poll", "listen", "create", "event"} \cup HandlerPcs
Idle == [pc |-> "poll", conn |-> CHOOSE c \in Conn : TRUE, ev |-> {}, fn |-> Null, arm |-> {}]
NRead == Cardinality({i \in 1 .. Len(Flights) : Flights[i] = "R"})

Init ==
    /\ client = "none" /\ larmed = FALSE
    /\ st = [c \in Conn |-> "none"]
    /\ sock = [c \in Conn |-> [inb |-> 0, left |-> NRead + MaxRecords, eof |-> FALSE, room |-> TRUE]]
    /\ hs = [c \in Conn |-> 0] /\ want = [c \in Conn |-> "R"]
    /\ sc = [c \in Conn |-> "none"] /\ maps = [c \in Conn |-> 0]
    /\ slot = [c \in Conn |-> [rx |-> Null, tx |-> Null]]
    /\ armed = [c \in Conn |-> {}] /\ last = [c \in Conn |-> Null]
    /\ th = [t \in Thr |-> Idle]

Go(t, l) == th' = [th EXCEPT ![t].pc = l]
GoArm(t, dirs) == th' = [th EXCEPT ![t].pc = "arm", ![t].arm = dirs]
SetEvsource(c, rx, tx) == slot' = [slot EXCEPT ![c] = [rx |-> rx, tx |-> tx]]
Level(c) == (IF sock[c].inb > 0 \/ sock[c].eof THEN {"R"} ELSE {})
            \cup (IF sock[c].room THEN {"W"} ELSE {})

\* OpenSSL writes to a socket with room; that may leave it full
Sends(c) == sock[c].room /\ \E full \in BOOLEAN : sock' = [sock EXCEPT ![c].room = ~full]

-----------------------------------------------------------------------------
(* The application and the peers.                                            *)

\* torque_addssl(); when it fails the listener's state is freed again
AddSsl ==
    /\ client = "none"
    /\ \/ \E k \in Clients : client' = k /\ larmed' = TRUE
       \/ Faults /\ client' = "failed" /\ UNCHANGED larmed
    /\ UNCHANGED <<st, sock, hs, want, sc, maps, slot, armed, last, th>>

PeerConnect(c) ==
    /\ client \in Clients /\ st[c] = "none"
    /\ st' = [st EXCEPT ![c] = "pending"]
    /\ UNCHANGED <<client, larmed, sock, hs, want, sc, maps, slot, armed, last, th>>

PeerAct(c) ==
    /\ st[c] \in {"pending", "open"}
    /\ \/ sock[c].left > 0 /\ sock' = [sock EXCEPT ![c].inb = @ + 1, ![c].left = @ - 1]
       \/ ~sock[c].eof /\ sock' = [sock EXCEPT ![c].eof = TRUE, ![c].left = 0]
    /\ UNCHANGED <<client, larmed, st, hs, want, sc, maps, slot, armed, last, th>>

\* The peer reads what it was sent
PeerDrain(c) ==
    /\ ~sock[c].room
    /\ sock' = [sock EXCEPT ![c].room = TRUE]
    /\ UNCHANGED <<client, larmed, st, hs, want, sc, maps, slot, armed, last, th>>

-----------------------------------------------------------------------------
(* The listener: ssl_accept_rxfxn().                                         *)

Pending == {c \in Conn : st[c] = "pending"}

PollListener(t) ==
    /\ th[t].pc = "poll" /\ larmed /\ Pending # {}
    /\ larmed' = FALSE
    /\ Go(t, "listen")
    /\ UNCHANGED <<client, st, sock, hs, want, sc, maps, slot, armed, last>>

Accept(t) ==
    /\ th[t].pc = "listen"
    /\ \E c \in Pending :
         /\ st' = [st EXCEPT ![c] = "open"]
         /\ th' = [th EXCEPT ![t].pc = "create", ![t].conn = c]
    /\ UNCHANGED <<client, larmed, sock, hs, want, sc, maps, slot, armed, last>>

\* accept(2) fails, with EAGAIN once the backlog is empty: the listener is
\* re-armed; when restorefd() fails, which is ignored, it stays deaf for good
AcceptEnds(t) ==
    /\ th[t].pc = "listen" /\ (Pending = {} \/ Faults)
    /\ larmed' = TRUE \/ (Faults /\ UNCHANGED larmed)
    /\ Go(t, "poll")
    /\ UNCHANGED <<client, st, sock, hs, want, sc, maps, slot, armed, last>>

\* fcntl(2), create_ssl_cbstate(), SSL_new() and SSL_set_fd(): a failure frees
\* what there is and closes the connection
CreateSslCbstate(t) ==
    LET c == th[t].conn IN
    /\ th[t].pc = "create"
    /\ \/ /\ sc' = [sc EXCEPT ![c] = "live"] /\ maps' = [maps EXCEPT ![c] = 1]
          /\ last' = [last EXCEPT ![c] = "ssl_accept_internal"]
          /\ th' = [th EXCEPT ![t].pc = "hs", ![t].fn = "ssl_accept_internal"]
          /\ UNCHANGED st
       \/ /\ Faults /\ st' = [st EXCEPT ![c] = "closed"]
          /\ Go(t, "listen")
          /\ UNCHANGED <<sc, maps, last>>
    /\ UNCHANGED <<client, larmed, sock, hs, want, slot, armed>>

-----------------------------------------------------------------------------
(* The handshake: SSL_accept() as called by ssl_accept_internal(),           *)
(* accept_contrxfxn() and accept_conttxfxn().                                *)

HsAdvance(t) ==
    LET c == th[t].conn IN
    /\ th[t].pc = "hs" /\ hs[c] < Len(Flights)
    /\ IF Flights[hs[c] + 1] = "W" THEN Sends(c)
       ELSE sock[c].inb > 0 /\ sock' = [sock EXCEPT ![c].inb = @ - 1]
    /\ hs' = [hs EXCEPT ![c] = @ + 1]
    /\ UNCHANGED <<client, larmed, st, want, sc, maps, slot, armed, last, th>>

AfterAccept == [rx |-> IF client = "tx" THEN Null ELSE "ssl_rxfxn",
                tx |-> IF client = "rx" THEN Null ELSE "ssl_txfxn"]
AcceptDirs == (IF client = "tx" THEN {} ELSE {"R"}) \cup (IF client = "rx" THEN {} ELSE {"W"})

\* Mutant: accept_contrxfxn() does not re-arm either
HsDoneMutant(t) ==
    LET c == th[t].conn IN
    /\ th[t].pc = "hs" /\ hs[c] = Len(Flights)
    /\ hs' = [hs EXCEPT ![c] = @ + 1]
    /\ maps' = [maps EXCEPT ![c] = @ + 1]
    /\ slot' = [slot EXCEPT ![c] = AfterAccept]
    /\ want' = [want EXCEPT ![c] = IF client = "tx" THEN "W" ELSE "R"]
    /\ IF th[t].fn = "ssl_accept_internal" THEN Go(t, "add") ELSE Go(t, "event")
    /\ UNCHANGED <<client, larmed, st, sock, sc, armed, last>>

\* SSL_accept() returned 1: initialize_rxbuffer() maps a second buffer over
\* the first, and the data handlers take over.  accept_conttxfxn() does not
\* re-arm.  When the mapping fails free_ssl_cbstate() has no buffer to unmap.
HsDone(t) ==
    LET c == th[t].conn
        done == hs' = [hs EXCEPT ![c] = @ + 1] IN
    /\ th[t].pc = "hs" /\ hs[c] = Len(Flights)
    /\ \/ /\ done /\ maps' = [maps EXCEPT ![c] = @ + 1]
          /\ slot' = [slot EXCEPT ![c] = AfterAccept]
          /\ want' = [want EXCEPT ![c] = IF client = "tx" THEN "W" ELSE "R"]
          /\ CASE th[t].fn = "ssl_accept_internal" -> Go(t, "add")
               [] th[t].fn = "accept_contrxfxn" -> GoArm(t, AcceptDirs)
               [] OTHER -> Go(t, "event")
          /\ UNCHANGED <<st, sc, armed>>
       \/ /\ Faults /\ done
          /\ sc' = [sc EXCEPT ![c] = "freed"] /\ st' = [st EXCEPT ![c] = "closed"]
          /\ armed' = [armed EXCEPT ![c] = {}]
          /\ Go(t, IF th[t].fn = "ssl_accept_internal" THEN "listen" ELSE "event")
          /\ UNCHANGED <<maps, slot, want>>
    /\ UNCHANGED <<client, larmed, sock, last>>

HsWants(c) ==
    IF hs[c] >= Len(Flights) THEN {}
    ELSE IF Flights[hs[c] + 1] = "W" THEN (IF sock[c].room THEN {} ELSE {"W"})
    ELSE IF sock[c].inb > 0 \/ sock[c].eof THEN {} ELSE {"R"}

\* Mutant: accept_contrxfxn() arms what it was waiting for before
HsBlockedMutant(t) ==
    LET c == th[t].conn
        fn == th[t].fn IN
    /\ th[t].pc = "hs"
    /\ \E d \in HsWants(c) :
         /\ want' = [want EXCEPT ![c] = d]
         /\ IF d = "W" THEN SetEvsource(c, Null, "accept_conttxfxn")
                       ELSE SetEvsource(c, "accept_contrxfxn", Null)
         /\ CASE fn = "ssl_accept_internal" -> Go(t, "add")
              [] fn = "accept_contrxfxn" -> GoArm(t, {"R"})
              [] OTHER -> Go(t, "event")
    /\ UNCHANGED <<client, larmed, st, sock, hs, sc, maps, armed, last>>

\* SSL_accept() wants to read or to write: the handler for that direction is
\* put in place.  accept_conttxfxn() leaves the item as it is, disarmed.
HsBlocked(t) ==
    LET c == th[t].conn
        fn == th[t].fn IN
    /\ th[t].pc = "hs"
    /\ \E d \in HsWants(c) :
         /\ want' = [want EXCEPT ![c] = d]
         /\ IF d = "W" THEN SetEvsource(c, Null, "accept_conttxfxn")
                       ELSE SetEvsource(c, "accept_contrxfxn", Null)
         /\ CASE fn = "ssl_accept_internal" -> Go(t, "add")
              [] fn = "accept_contrxfxn" -> GoArm(t, {d})
              [] OTHER -> Go(t, "event")
    /\ UNCHANGED <<client, larmed, st, sock, hs, sc, maps, armed, last>>

\* Any other result, end of file in the handshake among them
TlsError(t) ==
    LET c == th[t].conn IN
    /\ \/ th[t].pc = "hs" /\ hs[c] < Len(Flights)
          /\ (Faults \/ (sock[c].eof /\ sock[c].inb = 0))
       \/ th[t].pc = "read" /\ Faults
    /\ Go(t, "fail")
    /\ UNCHANGED <<client, larmed, st, sock, hs, want, sc, maps, slot, armed, last>>

\* torque_addfd_unbuffered(): armed for the directions that have a handler
AddFd(t) ==
    LET c == th[t].conn
        s == slot[c] IN
    /\ th[t].pc = "add"
    /\ \/ /\ armed' = [armed EXCEPT ![c] = (IF s.rx = Null THEN {} ELSE {"R"})
                                           \cup (IF s.tx = Null THEN {} ELSE {"W"})]
          /\ Go(t, "listen")
       \/ Faults /\ Go(t, "fail") /\ UNCHANGED armed
    /\ UNCHANGED <<client, larmed, st, sock, hs, want, sc, maps, slot, last>>

\* Mutant: both the handler and its caller free the state
FailTwiceMutant(t) ==
    LET c == th[t].conn IN
    /\ th[t].pc = "fail"
    /\ sc' = [sc EXCEPT ![c] = "freed"] /\ maps' = [maps EXCEPT ![c] = @ - 2]
    /\ st' = [st EXCEPT ![c] = "closed"] /\ armed' = [armed EXCEPT ![c] = {}]
    /\ Go(t, IF th[t].fn = "ssl_accept_internal" THEN "listen" ELSE "event")
    /\ UNCHANGED <<client, larmed, sock, hs, want, slot, last>>

\* Mutant: the receive buffer is not unmapped
FailLeakMutant(t) ==
    LET c == th[t].conn IN
    /\ th[t].pc = "fail"
    /\ sc' = [sc EXCEPT ![c] = "freed"] /\ st' = [st EXCEPT ![c] = "closed"]
    /\ armed' = [armed EXCEPT ![c] = {}]
    /\ Go(t, IF th[t].fn = "ssl_accept_internal" THEN "listen" ELSE "event")
    /\ UNCHANGED <<client, larmed, sock, hs, want, maps, slot, last>>

\* Every error path: free_ssl_cbstate() and close(2), in this order; the
\* evsource keeps pointing at the freed state
Fail(t) ==
    LET c == th[t].conn IN
    /\ th[t].pc = "fail"
    /\ sc' = [sc EXCEPT ![c] = "freed"] /\ maps' = [maps EXCEPT ![c] = @ - 1]
    /\ st' = [st EXCEPT ![c] = "closed"] /\ armed' = [armed EXCEPT ![c] = {}]
    /\ Go(t, IF th[t].fn = "ssl_accept_internal" THEN "listen" ELSE "event")
    /\ UNCHANGED <<client, larmed, sock, hs, want, slot, last>>

-----------------------------------------------------------------------------
(* Events of a connection: handle_event() calls the rx handler first, and    *)
(* then looks the tx handler up.                                             *)

Poll(t, c) ==
    /\ th[t].pc = "poll" /\ armed[c] \cap Level(c) # {}
    /\ th' = [th EXCEPT ![t].pc = "event", ![t].conn = c, ![t].ev = armed[c] \cap Level(c)]
    /\ armed' = [armed EXCEPT ![c] = {}]
    /\ UNCHANGED <<client, larmed, st, sock, hs, want, sc, maps, slot, last>>

Entry(fn) == CASE fn \in {"accept_contrxfxn", "accept_conttxfxn"} -> "hs"
               [] fn \in {"ssl_rxfxn", "ssl_txrxfxn"} -> "read"
               [] fn = "ssl_txfxn" -> "txcb"

HandleEvent(t) ==
    LET c == th[t].conn
        ev == th[t].ev
        d == IF "R" \in ev THEN "R" ELSE "W"
        fn == IF d = "R" THEN slot[c].rx ELSE slot[c].tx IN
    /\ th[t].pc = "event"
    /\ IF ev = {} THEN th' = [th EXCEPT ![t] = Idle] /\ UNCHANGED last
       ELSE /\ last' = [last EXCEPT ![c] = fn]
            /\ th' = [th EXCEPT ![t].ev = ev \ {d}, ![t].fn = fn,
                                ![t].pc = IF fn = Null THEN "event" ELSE Entry(fn)]
    /\ UNCHANGED <<client, larmed, st, sock, hs, want, sc, maps, slot, armed>>

\* restorefd(); its failure is an error of the handler
Arm(t) ==
    LET c == th[t].conn IN
    /\ th[t].pc = "arm"
    /\ \/ armed' = [armed EXCEPT ![c] = th[t].arm] /\ Go(t, "event")
       \/ Faults /\ Go(t, "fail") /\ UNCHANGED armed
    /\ UNCHANGED <<client, larmed, st, sock, hs, want, sc, maps, slot, last>>

-----------------------------------------------------------------------------
(* Data: ssl_rxfxn() and ssl_txrxfxn(), which read until SSL_read() has no   *)
(* more, and ssl_txfxn().                                                    *)

\* Mutant: the descriptor is armed again before the callback is called
SslReadMutant(t) ==
    LET c == th[t].conn IN
    /\ th[t].pc = "read" /\ sock[c].inb > 0
    /\ sock' = [sock EXCEPT ![c].inb = @ - 1]
    /\ armed' = [armed EXCEPT ![c] = {"R"}]
    /\ Go(t, "cb")
    /\ UNCHANGED <<client, larmed, st, hs, want, sc, maps, slot, last>>

\* rxbuffer_ssl() returned data
SslRead(t) ==
    LET c == th[t].conn IN
    /\ th[t].pc = "read" /\ sock[c].inb > 0
    /\ sock' = [sock EXCEPT ![c].inb = @ - 1]
    /\ Go(t, "cb")
    /\ UNCHANGED <<client, larmed, st, hs, want, sc, maps, slot, armed, last>>

\* rxbuffer_ssl() returned 0 at end of file.  ssl_rxfxn() calls the callback,
\* which returns nonzero when it is given no data (as torquessl.c's does);
\* ssl_txrxfxn() fails at once.
SslEof(t) ==
    LET c == th[t].conn IN
    /\ th[t].pc = "read" /\ sock[c].inb = 0 /\ sock[c].eof
    /\ Go(t, "fail")
    /\ UNCHANGED <<client, larmed, st, sock, hs, want, sc, maps, slot, armed, last>>

\* rxbuffer_ssl() wants to read, or to write: the handlers change places
SslReadBlocked(t) ==
    LET c == th[t].conn
        other == th[t].fn = "ssl_txrxfxn" IN
    /\ th[t].pc = "read" /\ sock[c].inb = 0 /\ ~sock[c].eof
    /\ \/ /\ want' = [want EXCEPT ![c] = "R"]
          /\ IF other THEN SetEvsource(c, "ssl_rxfxn", Null) ELSE UNCHANGED slot
          /\ GoArm(t, {"R"})
       \/ /\ Renegotiates /\ ~sock[c].room
          /\ want' = [want EXCEPT ![c] = "W"]
          /\ IF other THEN UNCHANGED slot ELSE SetEvsource(c, Null, "ssl_txrxfxn")
          /\ GoArm(t, {"R", "W"})
    /\ UNCHANGED <<client, larmed, st, sock, hs, sc, maps, armed, last>>

\* The client's rx callback: returns zero or not, and may answer with ssl_tx(),
\* which arms the item itself when SSL_write() does not go through.  The
\* callback then returns nonzero, as torquessl.c's does.
Callback(t) ==
    LET c == th[t].conn IN
    /\ th[t].pc = "cb"
    /\ \/ Go(t, "read") /\ UNCHANGED <<sock, want, slot, armed>>
       \/ Go(t, "fail") /\ UNCHANGED <<sock, want, slot, armed>>
       \/ Sends(c) /\ Go(t, "read") /\ UNCHANGED <<want, slot, armed>>
       \/ /\ TxBlocks /\ Go(t, "fail")
          /\ \/ /\ ~sock[c].room /\ want' = [want EXCEPT ![c] = "W"]
                /\ armed' = [armed EXCEPT ![c] = {"R", "W"}] /\ UNCHANGED slot
             \/ /\ Renegotiates /\ want' = [want EXCEPT ![c] = "R"]
                /\ SetEvsource(c, "ssl_rxfxn", Null)
                /\ armed' = [armed EXCEPT ![c] = {"R"}]
          /\ UNCHANGED sock
    /\ UNCHANGED <<client, larmed, st, hs, sc, maps, last>>

\* ssl_txfxn(): nothing is re-armed after a callback that returned zero
TxCallback(t) ==
    /\ th[t].pc = "txcb"
    /\ Go(t, "event") \/ Go(t, "fail")
    /\ UNCHANGED <<client, larmed, st, sock, hs, want, sc, maps, slot, armed, last>>

-----------------------------------------------------------------------------
Environment(c) == PeerConnect(c) \/ PeerAct(c) \/ PeerDrain(c)
Step(t) ==
    \/ Accept(t) \/ AcceptEnds(t) \/ CreateSslCbstate(t)
    \/ HsAdvance(t) \/ HsDone(t) \/ HsBlocked(t) \/ TlsError(t)
    \/ AddFd(t) \/ Fail(t) \/ HandleEvent(t) \/ Arm(t)
    \/ SslRead(t) \/ SslEof(t) \/ SslReadBlocked(t)
    \/ Callback(t) \/ TxCallback(t)
Next == \/ AddSsl
        \/ \E c \in Conn : Environment(c) \/ \E t \in Thr : Poll(t, c)
        \/ \E t \in Thr : PollListener(t) \/ Step(t)

\* Threads run and peers read.  epoll's ready list is a queue, so a ready item
\* is not passed over for ever by the threads that poll.
Fairness ==
    /\ \A t \in Thr : WF_vars(Step(t))
    /\ \A c \in Conn : WF_vars(PeerDrain(c)) /\ SF_vars(\E t \in Thr : Poll(t, c))

Spec == Init /\ [][Next]_vars
FairSpec == Spec /\ Fairness

-----------------------------------------------------------------------------
(* Properties.                                                               *)

\* Every variable stays within its range: in particular no connection ever has
\* more than the two receive buffers protos/ssl.c maps for it, nor fewer than none.
TypeOK ==
    /\ client \in Clients \cup {"none", "failed"} /\ larmed \in BOOLEAN
    /\ st \in [Conn -> {"none", "pending", "open", "closed"}]
    /\ sock \in [Conn -> [inb : Nat, left : Nat, eof : BOOLEAN, room : BOOLEAN]]
    /\ hs \in [Conn -> 0 .. Len(Flights) + 1] /\ want \in [Conn -> {"R", "W"}]
    /\ sc \in [Conn -> {"none", "live", "freed"}] /\ maps \in [Conn -> 0 .. 2]
    /\ slot \in [Conn -> [rx : Handlers \cup {Null}, tx : Handlers \cup {Null}]]
    /\ armed \in [Conn -> SUBSET {"R", "W"}] /\ last \in [Conn -> Handlers \cup {Null}]
    /\ th \in [Thr -> [pc : Pcs, conn : Conn, ev : SUBSET {"R", "W"},
                       fn : Handlers \cup {Null}, arm : SUBSET {"R", "W"}]]

In(t, c) == th[t].pc \in HandlerPcs /\ th[t].conn = c

\* "No more than one libtorque thread will dispatch a given event's handler at
\* once" (README): two threads are never inside handlers of one connection.
ExclusiveHandler == \A c \in Conn : \A t, u \in Thr : In(t, c) /\ In(u, c) => t = u

\* A handler never runs on a freed ssl_cbstate, and the state goes exactly when
\* its connection does: an open connection of which threads know has its state,
\* a closed one has none.
StateOutlivesHandlers ==
    \A c \in Conn :
        /\ \A t \in Thr : In(t, c) => sc[c] = "live" /\ st[c] = "open"
        /\ armed[c] # {} => sc[c] = "live"
        /\ st[c] = "closed" => sc[c] # "live"

\* Handlers after which the item stays disarmed: accept_conttxfxn() and
\* ssl_txfxn() call no restorefd(), and an event that finds no handler is lost.
Stranding == {"accept_conttxfxn", "ssl_txfxn", Null}

\* Left alone by the threads, an open connection is armed for the direction
\* OpenSSL waits for and has a handler for it, unless one of the stranding
\* handlers was the last to see it.
ArmedForWhatIsWanted ==
    \A c \in Conn :
        /\ st[c] = "open" /\ last[c] \notin Stranding
        /\ \A t \in Thr : th[t].conn = c => th[t].pc \in {"poll", "listen"}
        => want[c] \in armed[c] /\ (IF want[c] = "R" THEN slot[c].rx ELSE slot[c].tx) # Null

\* A connection that ends before its handshake is complete leaves no mapping
\* behind; one that completed it leaves exactly the buffer that
\* create_ssl_cbstate() had mapped and initialize_rxbuffer() wrote over.
BuffersAccounted ==
    \A c \in Conn : st[c] = "closed" => maps[c] = IF hs[c] > Len(Flights) THEN 1 ELSE 0

\* What a peer sent is read, or its connection is closed, or a stranding
\* handler has seen it.
InputServed ==
    \A c \in Conn :
        (st[c] = "open" /\ sc[c] = "live" /\ sock[c].inb > 0)
            ~> (sock[c].inb = 0 \/ st[c] = "closed" \/ last[c] \in Stranding)
=============================================================================
