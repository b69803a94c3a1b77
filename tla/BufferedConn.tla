---------------------------- MODULE BufferedConn ----------------------------
(***************************************************************************)
(* One connection registered with torque_addfd(): buffered_rxfxn(),        *)
(* buffered_txfxn() (buffers.c) and the client's callbacks, which may      *)
(* release any part of what they are shown.  The same buffer behind a TLS  *)
(* connection: ssl_rxfxn() and ssl_txrxfxn() (protos/ssl.c).               *)
(*                                                                         *)
(* One thread at a time runs these functions for a descriptor (EventQueue, *)
(* ExclusiveDispatch), except after an event that reports both input and   *)
(* room for output on a connection with a tx callback: there the model     *)
(* stops, at label overlap, and EventQueue goes on.                        *)
(***************************************************************************)
EXTENDS RxBuffer

CONSTANTS
    Page,      \* large_system_pagesize(): the buffer's initial size
    MaxTot,    \* bound: growrxbuf() fails beyond this size
    MaxSend,   \* bound: bytes the peer sends
    Kinds,     \* kinds of connection: "plain" (no tx callback), "duplex"
               \* (rx and tx callbacks), "tls" (served by ssl_rxfxn())
    Partial,   \* kinds whose clients may return zero with input unreleased
    MayFail    \* read(2), mremap(2) and epoll_ctl(2) may fail

ASSUME PageAssumption == Page \in Nat \ {0}
ASSUME SizeAssumption == MaxTot \in Nat /\ MaxSend \in Nat
ASSUME KindAssumption == Kinds \subseteq {"plain", "duplex", "tls"} /\ Partial \subseteq Kinds
ASSUME FailAssumption == MayFail \in BOOLEAN

VARIABLES
    kind,     \* how the connection was registered; never changes
    rxb,      \* the receive buffer
    pc,       \* where the connection's handler is
    sent,     \* bytes the peer has sent
    eof,      \* the peer has shut down its side
    recv,     \* bytes read into the buffer
    rel,      \* bytes the client has released
    shown     \* bytes the client's callback has been shown

vars == <<kind, rxb, pc, sent, eof, recv, rel, shown>>

Tls == kind = "tls"
Whole == kind \notin Partial

\* inside a callback of the client
Callback == {"fullcb", "drycb", "eofcb", "txcb", "sslcb", "txrxcb"}
\* about to call rxbuffer_ssl(), in ssl_rxfxn() or in ssl_txrxfxn()
SslReading == {"sslread", "txrxread"}
\* waiting for an event; a connection with a tx callback is "registered" with
\* EVREAD | EVWRITE, and re-armed with one of them only
Armed == {"registered", "armed", "armedw", "armedrw"}
Rearm == {"rearm", "rearmw", "rearmrw"}
Labels == {"loop", "grow", "read", "stranded", "overlap", "closed"}
            \cup Armed \cup Rearm \cup SslReading \cup Callback

\* torque_addfd(), whose add_fd_event() arms the item for each direction that
\* has a handler; a TLS connection is armed for reading by its handshake
Init ==
    /\ kind \in Kinds
    /\ rxb = InitializeRxbuffer(Page)
    /\ pc = IF kind = "duplex" THEN "registered" ELSE "armed"
    /\ sent = 0 /\ eof = FALSE
    /\ recv = 0 /\ rel = 0 /\ shown = 0

-----------------------------------------------------------------------------
(* The peer, and the event that starts the handler.                          *)

Send ==
    /\ sent < MaxSend /\ ~eof
    /\ sent' = sent + 1
    /\ UNCHANGED <<kind, rxb, pc, eof, recv, rel, shown>>

Shutdown ==
    /\ ~eof
    /\ eof' = TRUE
    /\ UNCHANGED <<kind, rxb, pc, sent, recv, rel, shown>>

\* Input or end of file, and no room for output if that is asked for
ReadEvent ==
    /\ pc \in {"armed", "registered"} /\ (sent > recv \/ eof)
    /\ pc' = IF Tls THEN "sslread" ELSE "loop"
    /\ UNCHANGED <<kind, rxb, sent, eof, recv, rel, shown>>

\* Room for output, and no input if that is asked for.  buffered_txfxn(), not
\* called if the client has no tx callback: txback() runs the client's only if
\* there is unreleased input.  Otherwise the descriptor stays unarmed.
WriteEvent ==
    /\ pc \in {"armedw", "registered"}
    /\ pc' = IF kind = "duplex" /\ Valid(rxb) # 0 THEN "txcb" ELSE "stranded"
    /\ UNCHANGED <<kind, rxb, sent, eof, recv, rel, shown>>

\* Both at once: buffered_rxfxn() re-arms the descriptor, and handle_event()
\* goes on with buffered_txfxn() while another thread may serve the next event
BothEvents ==
    /\ pc = "registered" /\ (sent > recv \/ eof)
    /\ pc' = "overlap"
    /\ UNCHANGED <<kind, rxb, sent, eof, recv, rel, shown>>

-----------------------------------------------------------------------------
(* buffered_rxfxn().                                                         *)

\* rxback(): a callback only if there is something to show
Rxback(called, otherwise) ==
    IF Valid(rxb) # 0 THEN pc' = called /\ shown' = recv
                      ELSE pc' = otherwise /\ UNCHANGED shown

\* the top of the loop: a full buffer is shown to the client before it grows
LoopTop ==
    /\ pc = "loop"
    /\ IF Room(rxb) = 0 THEN Rxback("fullcb", "grow")
                        ELSE pc' = "read" /\ UNCHANGED shown
    /\ UNCHANGED <<kind, rxb, sent, eof, recv, rel>>

\* Mutant: a buffer that is still full after the callback does not grow
GrowRxbufMutant ==
    /\ pc = "grow"
    /\ pc' = "read"
    /\ UNCHANGED <<kind, rxb, sent, eof, recv, rel, shown>>

\* after the callback: a buffer that is still full doubles, or the descriptor
\* is closed
GrowRxbuf ==
    /\ pc = "grow"
    /\ \/ Room(rxb) # 0 /\ pc' = "read" /\ UNCHANGED rxb
       \/ Room(rxb) = 0 /\ 2 * rxb.buftot <= MaxTot /\ rxb' = Grow(rxb) /\ pc' = "read"
       \/ Room(rxb) = 0 /\ (MayFail \/ 2 * rxb.buftot > MaxTot) /\ pc' = "closed" /\ UNCHANGED rxb
    /\ UNCHANGED <<kind, sent, eof, recv, rel, shown>>

\* read(2) is asked for as much as there is room for, and returns some of what
\* there is
ReadSome ==
    /\ pc = "read"
    /\ \E n \in 1 .. sent - recv :
         /\ n <= Room(rxb)
         /\ rxb' = ReadInto(rxb, recv + 1, n)
         /\ recv' = recv + n
    /\ pc' = "loop"
    /\ UNCHANGED <<kind, sent, eof, rel, shown>>

\* read(2) returns zero: end of file, or a read of no bytes
ReadZero ==
    /\ pc = "read" /\ ((eof /\ recv = sent) \/ Room(rxb) = 0)
    /\ pc' = "eofcb" /\ shown' = recv
    /\ UNCHANGED <<kind, rxb, sent, eof, recv, rel>>

\* Mutant: the client is not called before the descriptor is re-armed
ReadAgainMutant ==
    /\ pc = "read" /\ ~eof /\ recv = sent /\ Room(rxb) # 0
    /\ pc' = "rearm"
    /\ UNCHANGED <<kind, rxb, sent, eof, recv, rel, shown>>

\* read(2) returns EAGAIN (EINTR only goes round the loop)
ReadAgain ==
    /\ pc = "read" /\ ~eof /\ recv = sent /\ Room(rxb) # 0
    /\ Rxback("drycb", "rearm")
    /\ UNCHANGED <<kind, rxb, sent, eof, recv, rel>>

\* read(2), SSL_read() or restorefd() fails: the handler closes the descriptor
InternalError ==
    /\ MayFail /\ pc \in {"read"} \cup Rearm \cup SslReading
    /\ pc' = "closed"
    /\ UNCHANGED <<kind, rxb, sent, eof, recv, rel, shown>>

\* Mutant: the descriptor is armed for writing in both cases
RestoreFdMutant ==
    /\ pc \in Rearm
    /\ pc' = "armedw"
    /\ UNCHANGED <<kind, rxb, sent, eof, recv, rel, shown>>

\* restorefd(): EVREAD after EAGAIN and the tx callback, EVWRITE at end of
\* file, both when SSL_read() wants to write
RestoreFd ==
    /\ pc \in Rearm
    /\ pc' = CASE pc = "rearm" -> "armed" [] pc = "rearmw" -> "armedw" [] pc = "rearmrw" -> "armedrw"
    /\ UNCHANGED <<kind, rxb, sent, eof, recv, rel, shown>>

-----------------------------------------------------------------------------
(* ssl_rxfxn(), and ssl_txrxfxn(), which replaces it while SSL_read() wants  *)
(* to write.  Every read is shown at once.                                   *)

SslReadSome ==
    /\ pc \in SslReading
    /\ \E n \in 1 .. sent - recv :
         /\ n <= Room(rxb)
         /\ rxb' = SslReadInto(rxb, recv + 1, n)
         /\ recv' = recv + n /\ shown' = recv + n
    /\ pc' = IF pc = "sslread" THEN "sslcb" ELSE "txrxcb"
    /\ UNCHANGED <<kind, sent, eof, rel>>

\* SSL_read() returns zero: ssl_rxfxn() calls the client like after any other
\* read, ssl_txrxfxn() takes it for an error
SslReadZero ==
    /\ pc \in SslReading /\ ((eof /\ recv = sent) \/ Room(rxb) = 0)
    /\ IF pc = "sslread" THEN pc' = "sslcb" /\ shown' = recv
                         ELSE pc' = "closed" /\ UNCHANGED shown
    /\ UNCHANGED <<kind, rxb, sent, eof, recv, rel>>

\* SSL_ERROR_WANT_READ: both go on with ssl_rxfxn()
SslWantRead ==
    /\ pc \in SslReading /\ ~eof /\ recv = sent /\ Room(rxb) # 0
    /\ pc' = "rearm"
    /\ UNCHANGED <<kind, rxb, sent, eof, recv, rel, shown>>

\* SSL_ERROR_WANT_WRITE, in a renegotiation: both go on with ssl_txrxfxn()
SslWantWrite ==
    /\ pc \in SslReading
    /\ pc' = "rearmrw"
    /\ UNCHANGED <<kind, rxb, sent, eof, recv, rel, shown>>

\* The event finds ssl_txrxfxn() as tx callback and no rx callback, so that
\* one which does not report EVWRITE spends the one-shot item on nothing.
TxRxEvent ==
    /\ pc = "armedrw"
    /\ \/ pc' = "txrxread"
       \/ (sent > recv \/ eof) /\ pc' = "stranded"
    /\ UNCHANGED <<kind, rxb, sent, eof, recv, rel, shown>>

-----------------------------------------------------------------------------
(* The client's callbacks.                                                   *)

RxbufferAdvance ==
    /\ pc \in Callback
    /\ \E s \in 1 .. Valid(rxb) :
         /\ Whole => s = Valid(rxb)
         /\ rxb' = Advance(rxb, s)
         /\ rel' = rel + s
    /\ UNCHANGED <<kind, pc, sent, eof, recv, shown>>

\* The callback returns zero: the handler goes on where it called it
CallbackReturns ==
    /\ pc \in Callback /\ (Whole => Valid(rxb) = 0)
    /\ pc' = CASE pc = "fullcb" -> "grow"
               [] pc = "drycb"  -> "rearm"
               [] pc = "eofcb"  -> "rearmw"
               [] pc = "txcb"   -> "rearm"
               [] pc = "sslcb"  -> "sslread"
               [] pc = "txrxcb" -> "txrxread"
    /\ UNCHANGED <<kind, rxb, sent, eof, recv, rel, shown>>

\* It returns non-zero: the descriptor is closed, by the client (rx) or by
\* buffered_txfxn(), ssl_rxfxn() and ssl_txrxfxn()
CallbackCloses ==
    /\ pc \in Callback
    /\ pc' = "closed"
    /\ UNCHANGED <<kind, rxb, sent, eof, recv, rel, shown>>

Handler == \/ ReadEvent \/ WriteEvent \/ BothEvents \/ LoopTop \/ GrowRxbuf \/ ReadSome \/ ReadZero
           \/ ReadAgain \/ InternalError \/ RestoreFd
           \/ SslReadSome \/ SslReadZero \/ SslWantRead \/ SslWantWrite \/ TxRxEvent
Client == RxbufferAdvance \/ CallbackReturns \/ CallbackCloses
Next == Send \/ Shutdown \/ Handler \/ Client

\* Callbacks return, and what is armed and ready is dispatched (EventQueue,
\* DataIsRead); a socket that waits for room for output gets it.  Nothing
\* obliges the peer to send or to shut down.
Fairness == WF_vars(Handler) /\ WF_vars(CallbackReturns \/ CallbackCloses)

Spec == Init /\ [][Next]_vars
FairSpec == Spec /\ Fairness

-----------------------------------------------------------------------------
(* Properties.                                                               *)

\* The cursors stay ordered within the buffer, whatever sequence of reads,
\* growth and partial releases moved them: a read never gets a negative length.
TypeOK ==
    /\ rxb.buftot \in Nat \ {0} /\ rxb \in Rxbuf(rxb.buftot)
    /\ rxb.bufate <= rxb.bufoff
    /\ pc \in Labels /\ kind \in Kinds
    /\ sent \in Nat /\ eof \in BOOLEAN
    /\ recv \in 0 .. sent /\ rel \in 0 .. recv /\ shown \in 0 .. recv

\* What rxbuffer_valid() offers the client is the stream after what it has
\* released, without loss, duplication or reordering.
WindowIntact == recv = rel + Valid(rxb) /\ HoldsFrom(rxb, rel + 1)

\* buffered_rxfxn() never reads with a length of zero, so that a return of
\* zero, taken for end of file, is one.
EofIsReal == pc = "eofcb" => eof /\ recv = sent

\* The handler never goes back to sleep on input the client has not seen.
SeenBeforeSleep == pc \in Armed => shown = recv

\* What the peer sends on a connection of kind k is shown to the client, or the
\* connection comes to one of these ends.
ShownOr(k, ends) ==
    \A n \in 1 .. MaxSend : (kind = k /\ sent >= n) ~> (shown >= n \/ pc \in ends)

\* On a connection without a tx callback everything the peer sends is shown, or
\* the descriptor is closed: buffered_rxfxn() reads to EAGAIN, calls the client
\* and re-arms for reading.
SentIsShown == ShownOr("plain", {"closed"})

\* The same on a connection with a tx callback, unless two threads are in its
\* handlers: "Watch for events on the specified file descriptor, and invoke the
\* callbacks" (torque.h:99).  The code does not do this: the first EVWRITE of the
\* one-shot item finds an empty buffer, and txback() re-arms nothing.
DuplexIsShown == ShownOr("duplex", {"closed", "overlap"})

=============================================================================
