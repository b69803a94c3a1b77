------------------------- MODULE BufferedConnProofs -------------------------
(***************************************************************************)
(* Proofs about the receive buffer, for every page size, every amount of   *)
(* input and every sequence of partial releases.                           *)
(***************************************************************************)
EXTENDS BufferedConn, TLAPS

\* a buffer whose cursors are in order
Sound(r) == /\ r.buftot \in Nat \ {0}
            /\ r \in Rxbuf(r.buftot)
            /\ r.bufate <= r.bufoff

\* initialize_rxbuffer() makes a sound, empty buffer.
LEMMA InitializeSound ==
    ASSUME NEW page \in Nat \ {0}
    PROVE  Sound(InitializeRxbuffer(page)) /\ Valid(InitializeRxbuffer(page)) = 0
  BY DEF Sound, Rxbuf, InitializeRxbuffer, TorqueRxbuf, Valid

\* What memmove() in rxbuffer_advance() leaves at the buffer's start.
LEMMA MovedBuffer ==
    ASSUME NEW tot \in Nat, NEW b \in [0 .. tot - 1 -> Nat], NEW from \in Nat, NEW n \in Nat, from + n <= tot
    PROVE  /\ Moved(b, from, n) \in [0 .. tot - 1 -> Nat]
           /\ \A i \in 0 .. n - 1 : Moved(b, from, n)[i] = b[from + i]
  BY DEF Moved

\* What read(2) stores, and what it leaves alone.
LEMMA StoredBuffer ==
    ASSUME NEW tot \in Nat, NEW b \in [0 .. tot - 1 -> Nat], NEW at \in Nat, NEW n \in Nat, at + n <= tot,
           NEW first \in Nat
    PROVE  /\ Stored(b, at, first, n) \in [0 .. tot - 1 -> Nat]
           /\ \A i \in 0 .. at - 1 : Stored(b, at, first, n)[i] = b[i]
           /\ \A i \in at .. at + n - 1 : Stored(b, at, first, n)[i] = first + (i - at)
  BY DEF Stored

\* mremap() in growrxbuf() keeps what is there.
LEMMA EnlargedBuffer ==
    ASSUME NEW tot \in Nat, NEW b \in [0 .. tot - 1 -> Nat]
    PROVE  /\ Enlarged(b, tot) \in [0 .. 2 * tot - 1 -> Nat]
           /\ \A i \in 0 .. tot - 1 : Enlarged(b, tot)[i] = b[i]
  BY DEF Enlarged

\* The constructor puts each field of struct torque_rxbuf in its place.
LEMMA Fields ==
    ASSUME NEW b, NEW tot, NEW off, NEW ate
    PROVE  /\ TorqueRxbuf(b, tot, off, ate).buffer = b
           /\ TorqueRxbuf(b, tot, off, ate).buftot = tot
           /\ TorqueRxbuf(b, tot, off, ate).bufoff = off
           /\ TorqueRxbuf(b, tot, off, ate).bufate = ate
  BY DEF TorqueRxbuf

\* A sound buffer as a record of its four fields.
LEMMA SoundRecord ==
    ASSUME NEW r, Sound(r)
    PROVE  \E b, tot, off, ate :
             /\ r = TorqueRxbuf(b, tot, off, ate)
             /\ tot \in Nat /\ tot > 0 /\ off \in 0 .. tot /\ ate \in 0 .. off
             /\ b \in [0 .. tot - 1 -> Nat]
<1> WITNESS r.buffer, r.buftot, r.bufoff, r.bufate
<1> QED  BY DEF Sound, Rxbuf, TorqueRxbuf

\* Four fields in range and in order make a sound buffer.
LEMMA RecordSound ==
    ASSUME NEW b, NEW tot \in Nat, tot > 0, NEW off \in 0 .. tot, NEW ate \in 0 .. off,
           b \in [0 .. tot - 1 -> Nat]
    PROVE  Sound(TorqueRxbuf(b, tot, off, ate))
  BY DEF Sound, Rxbuf, TorqueRxbuf

\* rxbuffer_advance() by any part of what is valid drops exactly that part of
\* the window, in each of its three cases.
LEMMA AdvanceWindow ==
    ASSUME NEW r, Sound(r), NEW s \in 1 .. Valid(r), NEW first \in Nat, HoldsFrom(r, first)
    PROVE  /\ Sound(Advance(r, s))
           /\ Valid(Advance(r, s)) = Valid(r) - s
           /\ HoldsFrom(Advance(r, s), first + s)
<1>0. PICK b, tot, off, old :
        /\ r = TorqueRxbuf(b, tot, off, old)
        /\ tot \in Nat /\ tot > 0 /\ off \in 0 .. tot /\ old \in 0 .. off
        /\ b \in [0 .. tot - 1 -> Nat]
  BY SoundRecord
<1>f. r.buffer = b /\ r.buftot = tot /\ r.bufoff = off /\ r.bufate = old
  BY <1>0, Fields
<1> DEFINE ate == old + s
           rest == off - ate
<1>v. Valid(r) = off - old
  BY <1>f DEF Valid
<1>a. /\ Valid(r) = off - old /\ rest = Valid(r) - s
      /\ ate \in Nat /\ rest \in Nat /\ ate + rest = off /\ ate <= off /\ rest <= off
  BY <1>0, <1>v
<1>b. \A i \in 0 .. off - old - 1 : b[old + i] = first + i
  BY <1>0, <1>f, <1>a DEF HoldsFrom
<1>c. \A i \in 0 .. rest - 1 : b[ate + i] = first + s + i
  <2> TAKE i \in 0 .. rest - 1
  <2>1. s + i \in 0 .. off - old - 1 /\ ate + i = old + (s + i)
    BY <1>0, <1>a
  <2> QED  BY <1>b, <2>1
<1> HIDE DEF ate, rest
<1>1. CASE ate = tot
  <2>1. Advance(r, s) = TorqueRxbuf(b, tot, 0, 0)
    BY <1>f, <1>1 DEF Advance, ate, rest
  <2>2. rest = 0
    BY <1>0, <1>a, <1>1
  <2>3. Sound(Advance(r, s))
    <3>1. tot \in Nat /\ tot > 0 /\ 0 \in 0 .. tot /\ 0 \in 0 .. 0 /\ b \in [0 .. tot - 1 -> Nat]
      BY <1>0
    <3>2. Sound(TorqueRxbuf(b, tot, 0, 0))
      BY <3>1, RecordSound
    <3> QED  BY <2>1, <3>2
  <2>4. Valid(Advance(r, s)) = 0
    BY <2>1, Fields DEF Valid
  <2> QED  BY <1>a, <2>2, <2>3, <2>4 DEF HoldsFrom
<1>2. CASE ate # tot /\ off = tot
  <2> DEFINE moved == Moved(b, ate, rest)
  <2>1. Advance(r, s) = TorqueRxbuf(moved, tot, rest, 0)
    BY <1>f, <1>2 DEF Advance, ate, rest
  <2>2. /\ moved \in [0 .. tot - 1 -> Nat]
        /\ \A i \in 0 .. rest - 1 : moved[i] = b[ate + i]
    <3>1. ate + rest <= tot
      BY <1>0, <1>a
    <3>2. tot \in Nat /\ b \in [0 .. tot - 1 -> Nat] /\ ate \in Nat /\ rest \in Nat
      BY <1>0, <1>a
    <3> QED  BY <3>1, <3>2, MovedBuffer
  <2> HIDE DEF moved
  <2>3. Sound(Advance(r, s))
    <3>1. tot \in Nat /\ tot > 0 /\ rest \in 0 .. tot /\ 0 \in 0 .. rest /\ moved \in [0 .. tot - 1 -> Nat]
      BY <1>0, <1>a, <2>2
    <3>2. Sound(TorqueRxbuf(moved, tot, rest, 0))
      BY <3>1, RecordSound
    <3> QED  BY <2>1, <3>2
  <2>4. Valid(Advance(r, s)) = rest
    BY <1>a, <2>1, Fields DEF Valid
  <2>5. \A i \in 0 .. rest - 1 : moved[0 + i] = first + s + i
    BY <1>a, <1>c, <2>2
  <2>6. HoldsFrom(Advance(r, s), first + s)
    BY <2>1, <2>4, <2>5, Fields DEF HoldsFrom
  <2> QED  BY <1>a, <2>3, <2>4, <2>6
<1>3. CASE ate # tot /\ off # tot
  <2>1. Advance(r, s) = TorqueRxbuf(b, tot, off, ate)
    BY <1>f, <1>3 DEF Advance, ate, rest
  <2>2. Sound(Advance(r, s))
    <3>1. tot \in Nat /\ tot > 0 /\ off \in 0 .. tot /\ ate \in 0 .. off /\ b \in [0 .. tot - 1 -> Nat]
      BY <1>0, <1>a
    <3>2. Sound(TorqueRxbuf(b, tot, off, ate))
      BY <3>1, RecordSound
    <3> QED  BY <2>1, <3>2
  <2>3. Valid(Advance(r, s)) = rest
    <3>1. Valid(Advance(r, s)) = off - ate
      BY <2>1, Fields DEF Valid
    <3> QED  BY <1>0, <1>a, <3>1
  <2>4. HoldsFrom(Advance(r, s), first + s)
    BY <1>c, <2>1, <2>3, Fields DEF HoldsFrom
  <2> QED  BY <1>a, <2>2, <2>3, <2>4
<1> QED  BY <1>1, <1>2, <1>3

\* A read of n bytes into the free part extends the window by n bytes.
LEMMA ReadWindow ==
    ASSUME NEW r, Sound(r), NEW n \in Nat, n <= Room(r), NEW first \in Nat, HoldsFrom(r, first)
    PROVE  /\ Sound(ReadInto(r, first + Valid(r), n))
           /\ Valid(ReadInto(r, first + Valid(r), n)) = Valid(r) + n
           /\ HoldsFrom(ReadInto(r, first + Valid(r), n), first)
<1>0. PICK b, tot, off, ate :
        /\ r = TorqueRxbuf(b, tot, off, ate)
        /\ tot \in Nat /\ tot > 0 /\ off \in 0 .. tot /\ ate \in 0 .. off
        /\ b \in [0 .. tot - 1 -> Nat]
  BY SoundRecord
<1>f. r.buffer = b /\ r.buftot = tot /\ r.bufoff = off /\ r.bufate = ate
  BY <1>0, Fields
<1> DEFINE from == first + Valid(r)
           filled == Stored(b, off, from, n)
           q == ReadInto(r, from, n)
<1>a. /\ Valid(r) = off - ate /\ off \in Nat /\ ate \in Nat /\ off + n <= tot
      /\ from \in Nat /\ from = first + (off - ate)
  BY <1>0, <1>f DEF Valid, Room
<1>b. \A i \in 0 .. off - ate - 1 : b[ate + i] = first + i
  BY <1>0, <1>f, <1>a DEF HoldsFrom
<1> HIDE DEF from
<1>1. q = TorqueRxbuf(filled, tot, off + n, ate)
  BY <1>f DEF ReadInto
<1>2. /\ filled \in [0 .. tot - 1 -> Nat]
      /\ \A i \in 0 .. off - 1 : filled[i] = b[i]
      /\ \A i \in off .. off + n - 1 : filled[i] = from + (i - off)
  <2>1. tot \in Nat /\ b \in [0 .. tot - 1 -> Nat] /\ off \in Nat /\ off + n <= tot /\ from \in Nat
    BY <1>0, <1>a
  <2>2. n \in Nat
    OBVIOUS
  <2>3. filled \in [0 .. tot - 1 -> Nat]
    BY <2>1, <2>2 DEF Stored
  <2>4. \A i \in 0 .. off - 1 : filled[i] = b[i]
    BY <2>1, <2>2 DEF Stored
  <2>5. \A i \in off .. off + n - 1 : filled[i] = from + (i - off)
    BY <2>1, <2>2, StoredBuffer
  <2> QED  BY <2>3, <2>4, <2>5
<1> HIDE DEF filled, q
<1>3. Sound(q)
  <2>1. off + n \in 0 .. tot /\ ate \in 0 .. off + n
    BY <1>0, <1>a
  <2> QED  BY <1>0, <1>1, <1>2, <2>1, RecordSound
<1>4. Valid(q) = off + n - ate
  BY <1>0, <1>1, Fields DEF Valid
<1>5. \A i \in 0 .. off + n - ate - 1 : filled[ate + i] = first + i
  <2> TAKE i \in 0 .. off + n - ate - 1
  <2>1. CASE i < off - ate
    <3>1. ate + i \in 0 .. off - 1 /\ i \in 0 .. off - ate - 1
      BY <1>0, <2>1
    <3> QED  BY <1>b, <1>2, <3>1
  <2>2. CASE i >= off - ate
    <3>1. ate + i \in off .. off + n - 1
      BY <1>0, <2>2
    <3>2. filled[ate + i] = from + (ate + i - off)
      BY <1>0, <1>a, <1>2, <3>1
    <3> QED  BY <1>0, <1>a, <3>2
  <2> QED  BY <1>0, <2>1, <2>2
<1>6. HoldsFrom(q, first)
  <2>1. q.buffer = filled /\ q.bufate = ate
    BY <1>1, Fields
  <2> QED  BY <1>0, <1>a, <1>4, <1>5, <2>1 DEF HoldsFrom
<1> QED  BY <1>0, <1>a, <1>3, <1>4, <1>6 DEF q, from

\* growrxbuf() leaves the window alone and makes room.
LEMMA GrowWindow ==
    ASSUME NEW r, Sound(r), NEW first \in Nat, HoldsFrom(r, first)
    PROVE  /\ Sound(Grow(r)) /\ Valid(Grow(r)) = Valid(r) /\ HoldsFrom(Grow(r), first)
           /\ Room(Grow(r)) > 0
<1>0. PICK b, tot, off, ate :
        /\ r = TorqueRxbuf(b, tot, off, ate)
        /\ tot \in Nat /\ tot > 0 /\ off \in 0 .. tot /\ ate \in 0 .. off
        /\ b \in [0 .. tot - 1 -> Nat]
  BY SoundRecord
<1>f. r.buffer = b /\ r.buftot = tot /\ r.bufoff = off /\ r.bufate = ate
  BY <1>0, Fields
<1> DEFINE grown == Enlarged(b, tot)
<1>1. Grow(r) = TorqueRxbuf(grown, 2 * tot, off, ate)
  BY <1>f DEF Grow
<1>2. /\ grown \in [0 .. 2 * tot - 1 -> Nat]
      /\ \A i \in 0 .. tot - 1 : grown[i] = b[i]
  BY <1>0, EnlargedBuffer
<1> HIDE DEF grown
<1>3. Sound(Grow(r))
  BY <1>0, <1>1, <1>2, RecordSound
<1>4. Valid(Grow(r)) = Valid(r) /\ Valid(r) = off - ate /\ Room(Grow(r)) > 0
  BY <1>0, <1>f, <1>1, Fields DEF Valid, Room
<1>5. \A i \in 0 .. off - ate - 1 : grown[ate + i] = first + i
  <2> TAKE i \in 0 .. off - ate - 1
  <2>1. ate + i \in 0 .. tot - 1
    BY <1>0
  <2>2. b[ate + i] = first + i
    BY <1>f, <1>4 DEF HoldsFrom
  <2> QED  BY <1>2, <2>1, <2>2
<1>6. HoldsFrom(Grow(r), first)
  BY <1>1, <1>4, <1>5, Fields DEF HoldsFrom
<1> QED  BY <1>3, <1>4, <1>6

\* rxbuffer_ssl() is a read into the free part if nothing is unreleased.
LEMMA SslReadWindow ==
    ASSUME NEW r, Sound(r), Valid(r) = 0, NEW first, NEW n
    PROVE  SslReadInto(r, first, n) = ReadInto(r, first, n)
<1>1. r.bufate = r.bufoff
  BY DEF Sound, Rxbuf, Valid
<1> QED  BY <1>1, Zenon DEF SslReadInto, ReadInto

-----------------------------------------------------------------------------
(* The connection.  A TLS connection keeps its window only for clients that  *)
(* release all they are shown: between callbacks its buffer is empty.        *)

Sane == "tls" \notin Partial

\* The inductive invariant: a sound buffer that holds the stream; room before
\* every read; the client has seen all there is when the handler re-arms; and
\* the empty buffer of a TLS connection.
Counts == /\ pc \in Labels /\ kind \in Kinds
          /\ sent \in Nat /\ eof \in BOOLEAN
          /\ recv \in 0 .. sent /\ rel \in 0 .. recv /\ shown \in 0 .. recv
RoomToRead == pc = "read" => Room(rxb) > 0
Seen == /\ pc \in Armed \cup Rearm \cup Callback => shown = recv
        /\ shown >= rel
        /\ pc = "eofcb" => eof /\ recv = sent
TlsAsleep == {"armed", "armedrw", "rearm", "rearmrw"}
TlsEmpty == /\ ~Tls => pc \notin {"armedrw", "rearmrw", "sslcb", "txrxcb"} \cup SslReading
            /\ Tls => /\ pc \in {"sslcb", "txrxcb", "stranded", "closed"} \cup TlsAsleep \cup SslReading
                      /\ pc \in TlsAsleep \cup SslReading => Valid(rxb) = 0 /\ shown = recv
IInv == Sound(rxb) /\ WindowIntact /\ Counts /\ RoomToRead /\ Seen /\ TlsEmpty

\* A connection starts with an empty buffer and nothing sent, read or shown.
LEMMA ConnInit == Init => IInv
<1> SUFFICES ASSUME Init PROVE IInv  OBVIOUS
<1>1. Sound(rxb) /\ Valid(rxb) = 0
  BY InitializeSound, PageAssumption DEF Init
<1>2. WindowIntact
  BY <1>1 DEF Init, WindowIntact, HoldsFrom
<1>3. Counts
  <2>1. pc \in Labels /\ eof \in BOOLEAN
    BY DEF Init, Labels, Armed
  <2> QED  BY <2>1 DEF Init, Counts
<1>c. RoomToRead /\ Seen
  BY DEF Init, RoomToRead, Seen
<1>4. TlsEmpty
  BY <1>1 DEF Init, TlsEmpty, TlsAsleep, Tls, SslReading
<1> QED  BY <1>1, <1>2, <1>3, <1>c, <1>4 DEF IInv

\* Every step keeps the buffer sound and its window the stream.
LEMMA WindowNext ==
    ASSUME Sane, IInv, [Next]_vars
    PROVE  Sound(rxb') /\ recv' = rel' + Valid(rxb') /\ HoldsFrom(rxb', rel' + 1)
<1>0. /\ Sound(rxb) /\ recv = rel + Valid(rxb) /\ HoldsFrom(rxb, rel + 1)
      /\ sent \in Nat /\ recv \in Nat /\ rel \in Nat /\ rel + 1 \in Nat /\ Valid(rxb) \in Nat
      /\ recv + 1 = rel + 1 + Valid(rxb)
  BY DEF IInv, Counts, WindowIntact, Sound, Rxbuf, Valid
<1>1. CASE GrowRxbuf /\ rxb' = Grow(rxb)
  <2>1. UNCHANGED <<recv, rel>>
    BY <1>1 DEF GrowRxbuf
  <2> QED  BY <1>0, <1>1, <2>1, GrowWindow
<1>2. CASE ReadSome
  <2>1. PICK n \in 1 .. sent - recv :
          n <= Room(rxb) /\ rxb' = ReadInto(rxb, recv + 1, n) /\ recv' = recv + n /\ rel' = rel
    BY <1>2 DEF ReadSome
  <2>2. n \in Nat
    BY <1>0, <2>1
  <2>3. rxb' = ReadInto(rxb, rel + 1 + Valid(rxb), n)
    BY <1>0, <2>1
  <2>4. Sound(rxb') /\ Valid(rxb') = Valid(rxb) + n /\ HoldsFrom(rxb', rel + 1)
    BY <1>0, <2>1, <2>2, <2>3, ReadWindow
  <2> QED  BY <1>0, <2>1, <2>2, <2>4
<1>3. CASE SslReadSome
  <2>1. PICK n \in 1 .. sent - recv :
          n <= Room(rxb) /\ rxb' = SslReadInto(rxb, recv + 1, n) /\ recv' = recv + n /\ rel' = rel
    BY <1>3 DEF SslReadSome
  <2>2. n \in Nat
    BY <1>0, <2>1
  <2>3. Valid(rxb) = 0
    BY <1>3 DEF SslReadSome, SslReading, IInv, TlsEmpty, Tls
  <2>4. rxb' = ReadInto(rxb, rel + 1 + Valid(rxb), n)
    BY <1>0, <2>1, <2>3, SslReadWindow
  <2>5. Sound(rxb') /\ Valid(rxb') = Valid(rxb) + n /\ HoldsFrom(rxb', rel + 1)
    BY <1>0, <2>1, <2>2, <2>4, ReadWindow
  <2> QED  BY <1>0, <2>1, <2>2, <2>5
<1>4. CASE RxbufferAdvance
  <2>1. PICK s \in 1 .. Valid(rxb) : rxb' = Advance(rxb, s) /\ rel' = rel + s /\ recv' = recv
    BY <1>4 DEF RxbufferAdvance
  <2>2. Sound(rxb') /\ Valid(rxb') = Valid(rxb) - s /\ HoldsFrom(rxb', rel + 1 + s)
    BY <1>0, <2>1, AdvanceWindow
  <2>3. rel + 1 + s = rel' + 1 /\ recv' = rel' + Valid(rxb')
    BY <1>0, <2>1, <2>2
  <2> QED  BY <2>2, <2>3
<1>5. CASE UNCHANGED <<rxb, recv, rel>>
  BY <1>0, <1>5
<1> QED  BY <1>1, <1>2, <1>3, <1>4, <1>5
         DEF Next, vars, Handler, Client, Send, Shutdown, ReadEvent, WriteEvent, BothEvents, LoopTop, GrowRxbuf,
             ReadZero, ReadAgain, InternalError, RestoreFd, SslReadSome, SslReadZero,
         SslWantRead, SslWantWrite, TxRxEvent, CallbackReturns, CallbackCloses

\* Every step keeps the counters ordered: nothing is shown before it is read
\* or released before it is shown.
LEMMA CountsNext ==
    ASSUME Sane, IInv, [Next]_vars
    PROVE  Counts'
<1>0. /\ Sound(rxb) /\ recv = rel + Valid(rxb) /\ Valid(rxb) \in Nat /\ Valid(rxb') \in Nat
      /\ recv' = rel' + Valid(rxb')
  BY WindowNext DEF IInv, WindowIntact, Sound, Rxbuf, Valid
<1>1. pc' \in Labels
  BY DEF IInv, Counts, Next, vars, Handler, Client, Send, Shutdown, ReadEvent, WriteEvent, BothEvents, LoopTop, GrowRxbuf,
         ReadSome, ReadZero, ReadAgain, InternalError, RestoreFd, SslReadSome, SslReadZero,
         SslWantRead, SslWantWrite, TxRxEvent, RxbufferAdvance, CallbackReturns,
         CallbackCloses, Rxback, Labels, Callback, Armed, Rearm, SslReading
<1>2. eof' \in BOOLEAN
  BY Zenon DEF IInv, Counts, Next, vars, Handler, Client, Send, Shutdown, ReadEvent, WriteEvent, BothEvents, LoopTop, GrowRxbuf,
         ReadSome, ReadZero, ReadAgain, InternalError, RestoreFd, SslReadSome, SslReadZero,
         SslWantRead, SslWantWrite, TxRxEvent, RxbufferAdvance, CallbackReturns,
         CallbackCloses, Rxback
<1>3. sent' \in Nat /\ recv' \in 0 .. sent'
  BY DEF IInv, Counts, Next, vars, Handler, Client, Send, Shutdown, ReadEvent, WriteEvent, BothEvents, LoopTop, GrowRxbuf,
         ReadSome, ReadZero, ReadAgain, InternalError, RestoreFd, SslReadSome, SslReadZero,
         SslWantRead, SslWantWrite, TxRxEvent, RxbufferAdvance, CallbackReturns,
         CallbackCloses, Rxback
<1>4. rel' \in Nat /\ shown' \in 0 .. recv'
  BY <1>0 DEF IInv, Counts, Next, vars, Handler, Client, Send, Shutdown, ReadEvent, WriteEvent, BothEvents, LoopTop, GrowRxbuf,
         ReadSome, ReadZero, ReadAgain, InternalError, RestoreFd, SslReadSome, SslReadZero,
         SslWantRead, SslWantWrite, TxRxEvent, RxbufferAdvance, CallbackReturns,
         CallbackCloses, Rxback
<1>5. rel' \in 0 .. recv'
  BY <1>0, <1>3, <1>4
<1>6. kind' = kind
  BY DEF Next, vars, Handler, Client, Send, Shutdown, ReadEvent, WriteEvent, BothEvents, LoopTop, GrowRxbuf,
         ReadSome, ReadZero, ReadAgain, InternalError, RestoreFd, SslReadSome, SslReadZero,
         SslWantRead, SslWantWrite, TxRxEvent, RxbufferAdvance, CallbackReturns,
         CallbackCloses
<1> QED  BY <1>1, <1>2, <1>3, <1>4, <1>5, <1>6 DEF IInv, Counts

\* Every read has room, every sleep comes after the client has seen all there
\* is, and a TLS connection sleeps on an empty buffer.
LEMMA HandlerNext ==
    ASSUME Sane, IInv, [Next]_vars
    PROVE  RoomToRead' /\ Seen' /\ TlsEmpty'
<1>0. /\ Sound(rxb) /\ recv = rel + Valid(rxb) /\ Valid(rxb) \in Nat /\ Valid(rxb') \in Nat
      /\ recv' = rel' + Valid(rxb') /\ Sound(rxb')
  BY WindowNext DEF IInv, WindowIntact, Sound, Rxbuf, Valid
<1>1. RoomToRead'
  <2>1. CASE GrowRxbuf
    <3>1. Room(Grow(rxb)) > 0
      BY GrowWindow DEF IInv, Counts, WindowIntact
    <3>2. Room(rxb) \in Nat
      BY <1>0 DEF Sound, Rxbuf, Room
    <3> QED  BY <2>1, <3>1, <3>2 DEF GrowRxbuf, RoomToRead, Room
  <2>2. CASE LoopTop
    BY <2>2, <1>0 DEF LoopTop, Rxback, RoomToRead, Room, Sound, Rxbuf
  <2> QED  BY <2>1, <2>2 DEF IInv, RoomToRead, Next, vars, Handler, Client, Send, Shutdown, ReadEvent, WriteEvent, BothEvents,
         ReadSome, ReadZero, ReadAgain, InternalError, RestoreFd, SslReadSome, SslReadZero,
         SslWantRead, SslWantWrite, TxRxEvent, RxbufferAdvance, CallbackReturns,
         CallbackCloses, Rxback, Callback, Armed, Rearm, SslReading, TlsAsleep
<1>2. Seen'
  BY <1>0, CountsNext DEF IInv, Counts, Seen, RoomToRead, TlsEmpty, Tls, Whole, Next, vars, Handler, Client, Send, Shutdown, ReadEvent,
         WriteEvent, BothEvents, LoopTop, GrowRxbuf, ReadSome, ReadZero, ReadAgain, InternalError, RestoreFd, SslReadSome, SslReadZero,
         SslWantRead, SslWantWrite, TxRxEvent,
         RxbufferAdvance, CallbackReturns, CallbackCloses, Rxback, Callback, Armed, Rearm, SslReading, TlsAsleep
<1>3. TlsEmpty'
  BY <1>0, CountsNext DEF Sane, IInv, Counts, Seen, TlsEmpty, Tls, Whole, Next, vars, Handler, Client, Send, Shutdown, ReadEvent,
         WriteEvent, BothEvents, LoopTop, GrowRxbuf, ReadSome, ReadZero, ReadAgain, InternalError, RestoreFd, SslReadSome, SslReadZero,
         SslWantRead, SslWantWrite, TxRxEvent,
         RxbufferAdvance, CallbackReturns, CallbackCloses, Rxback, Callback, Armed, Rearm, SslReading, TlsAsleep
<1> QED  BY <1>1, <1>2, <1>3

\* Whatever the client releases, and in whatever portions, what it is offered
\* next is the stream after what it has released, end of file is only reported
\* to it at the end of the stream, and the handler sleeps only when it has seen
\* everything: for every page size and every length of the stream, on buffered
\* connections, and on TLS connections of clients that release all they see.
THEOREM Buffering ==
    ASSUME Sane
    PROVE  Spec => [](TypeOK /\ WindowIntact /\ EofIsReal /\ SeenBeforeSleep)
<1>1. Init => IInv
  BY ConnInit
<1>2. IInv /\ [Next]_vars => IInv'
  <2> SUFFICES ASSUME IInv, [Next]_vars PROVE IInv'  OBVIOUS
  <2>1. Sound(rxb)' /\ WindowIntact'
    BY WindowNext DEF WindowIntact
  <2> QED  BY <2>1, CountsNext, HandlerNext DEF IInv
<1>3. IInv => TypeOK /\ WindowIntact /\ EofIsReal /\ SeenBeforeSleep
  BY DEF IInv, Sound, Counts, Seen, TypeOK, EofIsReal, SeenBeforeSleep
<1> QED  BY <1>1, <1>2, <1>3, PTL DEF Spec
\* The receive buffer's indices, the counts of the socket and the handler's
\* state stay within their ranges, whatever is read, grown and released.
THEOREM BufferTyping == ASSUME Sane PROVE Spec => []TypeOK
BY Buffering, PTL

\* buffered_rxfxn() never reads with length zero, so that a return of zero is an
\* end of file, and the client is told of one only after the whole stream.
THEOREM EofSound == ASSUME Sane PROVE Spec => []EofIsReal
BY Buffering, PTL

\* The handler arms its descriptor and goes back to sleep only when the client's
\* callback has been shown all input that was read.
THEOREM SeenFirst == ASSUME Sane PROVE Spec => []SeenBeforeSleep
BY Buffering, PTL
=============================================================================
