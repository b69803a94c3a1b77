------------------------------ MODULE RxBuffer ------------------------------
(***************************************************************************)
(* The receive buffer of buffers.h as operators on a record: buffer, the   *)
(* bytes; buftot, their number; bufoff, how far the buffer is dirty;       *)
(* bufate, how much of it the client has released.  A byte is named by its *)
(* position in the peer's stream, counted from 1; 0 is memory that was     *)
(* never written.                                                          *)
(***************************************************************************)
EXTENDS Integers

Rxbuf(tot) == [buffer : [0 .. tot - 1 -> Nat], buftot : {tot}, bufoff : 0 .. tot, bufate : 0 .. tot]

\* struct torque_rxbuf, without its callbacks
TorqueRxbuf(buffer, tot, off, ate) ==
    [buffer |-> buffer, buftot |-> tot, bufoff |-> off, bufate |-> ate]

\* initialize_rxbuffer(): one large page
InitializeRxbuffer(page) == TorqueRxbuf([i \in 0 .. page - 1 |-> 0], page, 0, 0)

\* rxbuffer_valid(): how many bytes the client has not released
Valid(rxb) == rxb.bufoff - rxb.bufate
Room(rxb) == rxb.buftot - rxb.bufoff

\* memmove(buffer,buffer + from,n)
Moved(buffer, from, n) ==
    [i \in DOMAIN buffer |-> IF i < n THEN buffer[from + i] ELSE buffer[i]]

\* Mutant: bufate is not reset after the move
AdvanceCursorMutant(rxb, s) ==
    LET ate == rxb.bufate + s
        rest == rxb.bufoff - ate IN
    IF ate = rxb.buftot THEN TorqueRxbuf(rxb.buffer, rxb.buftot, 0, 0)
    ELSE IF rxb.bufoff = rxb.buftot
    THEN TorqueRxbuf(Moved(rxb.buffer, ate, rest), rxb.buftot, rest, ate)
    ELSE TorqueRxbuf(rxb.buffer, rxb.buftot, rxb.bufoff, ate)

\* Mutant: the cursors move, the bytes do not
AdvanceMoveMutant(rxb, s) ==
    LET ate == rxb.bufate + s
        rest == rxb.bufoff - ate IN
    IF ate = rxb.buftot THEN TorqueRxbuf(rxb.buffer, rxb.buftot, 0, 0)
    ELSE IF rxb.bufoff = rxb.buftot
    THEN TorqueRxbuf(rxb.buffer, rxb.buftot, rest, 0)
    ELSE TorqueRxbuf(rxb.buffer, rxb.buftot, rxb.bufoff, ate)

\* rxbuffer_advance(): the client releases s bytes.  A buffer that is entirely
\* released starts again; one that is dirty to its end is moved to its start.
Advance(rxb, s) ==
    LET ate == rxb.bufate + s
        rest == rxb.bufoff - ate IN
    IF ate = rxb.buftot THEN TorqueRxbuf(rxb.buffer, rxb.buftot, 0, 0)
    ELSE IF rxb.bufoff = rxb.buftot
    THEN TorqueRxbuf(Moved(rxb.buffer, ate, rest), rxb.buftot, rest, 0)
    ELSE TorqueRxbuf(rxb.buffer, rxb.buftot, rxb.bufoff, ate)

\* n bytes of the stream, from position first on, stored at offset at
Stored(buffer, at, first, n) ==
    [i \in DOMAIN buffer |-> IF at <= i /\ i < at + n THEN first + (i - at) ELSE buffer[i]]

\* read(fd,buffer + bufoff,buftot - bufoff) returned n > 0
ReadInto(rxb, first, n) ==
    TorqueRxbuf(Stored(rxb.buffer, rxb.bufoff, first, n), rxb.buftot, rxb.bufoff + n, rxb.bufate)

\* rxbuffer_ssl(): SSL_read(s,buffer + bufate,buftot - bufoff) returned n > 0
SslReadInto(rxb, first, n) ==
    TorqueRxbuf(Stored(rxb.buffer, rxb.bufate, first, n), rxb.buftot, rxb.bufoff + n, rxb.bufate)

\* mremap(buffer,tot,2 * tot): what is there is kept
Enlarged(buffer, tot) == [i \in 0 .. 2 * tot - 1 |-> IF i < tot THEN buffer[i] ELSE 0]

\* growrxbuf()
Grow(rxb) ==
    TorqueRxbuf(Enlarged(rxb.buffer, rxb.buftot), 2 * rxb.buftot, rxb.bufoff, rxb.bufate)

\* The unreleased bytes are the stream from position first on, in order.
HoldsFrom(rxb, first) ==
    \A i \in 0 .. Valid(rxb) - 1 : rxb.buffer[rxb.bufate + i] = first + i
=============================================================================
