----------------------------- MODULE SslProofs ------------------------------
(***************************************************************************)
(* Proofs about Ssl for every set of threads and of connections, every     *)
(* handshake and any number of records.                                    *)
(***************************************************************************)
EXTENDS Ssl, FiniteSetTheorems, TLAPS

-----------------------------------------------------------------------------
(* The inductive invariant.                                                  *)

\* Servers for which the handlers keep to themselves: one callback, and
\* ssl_tx() calls that go through (the others re-arm under a running handler).
OneCallback == Clients \subseteq {"rx", "tx"} /\ TxBlocks = FALSE

Nothing == [rx |-> Null, tx |-> Null]
AcceptRx == [rx |-> "accept_contrxfxn", tx |-> Null]
AcceptTx == [rx |-> Null, tx |-> "accept_conttxfxn"]
DataRx == [rx |-> "ssl_rxfxn", tx |-> Null]
DataTxRx == [rx |-> Null, tx |-> "ssl_txrxfxn"]
DataTx == [rx |-> Null, tx |-> "ssl_txfxn"]
Pairs == {Nothing, AcceptRx, AcceptTx, DataRx, DataTxRx, DataTx}

\* Thread t has taken connection c: it creates its state, is in a handler of
\* it, or still has an event of it to handle.
Owns(t, c) ==
    /\ th[t].conn = c
    /\ th[t].pc \in HandlerPcs \cup {"create"} \/ (th[t].pc = "event" /\ th[t].ev # {})

\* There is a handler for what OpenSSL waits for.
Served(c) == (IF want[c] = "R" THEN slot[c].rx ELSE slot[c].tx) # Null

\* A connection belongs to one thread, or to its item.
Alone == \A t, u \in Thr : \A c \in Conn : Owns(t, c) /\ Owns(u, c) => t = u
OwnerOK(t) ==
    \A c \in Conn : Owns(t, c) =>
        /\ armed[c] = {} /\ st[c] = "open"
        /\ sc[c] = IF th[t].pc = "create" THEN "none" ELSE "live"

\* What the thread at each label knows of its connection.
ThreadOK(t) ==
    LET c == th[t].conn
        p == th[t].pc
        fn == th[t].fn IN
    /\ p \in HandlerPcs \cup {"poll", "listen", "create"} => th[t].ev = {}
    /\ p = "event" /\ th[t].ev = {"R", "W"} => slot[c] = DataTxRx
    /\ p \in HandlerPcs => last[c] = fn
    /\ p = "hs" => fn \in {"ssl_accept_internal", "accept_contrxfxn", "accept_conttxfxn"}
                   /\ hs[c] <= Len(Flights)
    /\ p = "add" => Served(c)
    /\ p \in {"read", "cb"} => (fn = "ssl_rxfxn" /\ slot[c] = DataRx)
                               \/ (fn = "ssl_txrxfxn" /\ slot[c] = DataTxRx)
    /\ p = "txcb" => fn = "ssl_txfxn"
    /\ p = "arm" => /\ want[c] \in th[t].arm /\ Served(c)
                    /\ th[t].arm = {"R", "W"} => slot[c] = DataTxRx

\* How the parts of a connection go together.
ConnOK(c) ==
    /\ st[c] # "none" => client \in Clients
    /\ st[c] \in {"none", "pending"} => sc[c] = "none"
    /\ armed[c] # {} => sc[c] = "live"
    /\ armed[c] = {"R", "W"} => slot[c] = DataTxRx
    /\ slot[c] \in Pairs
    /\ sc[c] = "live" => st[c] = "open" /\ (slot[c] \in {AcceptRx, AcceptTx} => hs[c] <= Len(Flights))
    /\ sc[c] = "none" => hs[c] = 0
    /\ maps[c] = (IF sc[c] = "live" THEN 1 ELSE 0) + (IF hs[c] > Len(Flights) THEN 1 ELSE 0)

\* An open connection no thread has taken is armed for what OpenSSL waits for.
ArmedOK(c) ==
    st[c] = "open" /\ last[c] \notin Stranding /\ (\A t \in Thr : ~Owns(t, c))
        => want[c] \in armed[c] /\ Served(c)

SslInv ==
    /\ OneCallback /\ TypeOK /\ Alone
    /\ \A t \in Thr : OwnerOK(t) /\ ThreadOK(t)
    /\ \A c \in Conn : ConnOK(c) /\ ArmedOK(c)
-----------------------------------------------------------------------------
(* Records.                                                                  *)

ThreadType == [pc : Pcs, conn : Conn, ev : SUBSET {"R", "W"},
               fn : Handlers \cup {Null}, arm : SUBSET {"R", "W"}]
SockType == [inb : Nat, left : Nat, eof : BOOLEAN, room : BOOLEAN]

\* The labels of the model.
LEMMA PcsAre ==
    /\ HandlerPcs \subseteq Pcs /\ {"poll", "listen", "create", "event"} \subseteq Pcs
    /\ {"hs", "add", "read", "cb", "txcb", "arm", "fail"} = HandlerPcs
    /\ HandlerPcs \cap {"poll", "listen", "create", "event"} = {}
BY DEF HandlerPcs, Pcs

\* The ranges of a connection's variables.
LEMMA Ranges ==
    ASSUME TypeOK
    PROVE  /\ st \in [Conn -> {"none", "pending", "open", "closed"}]
           /\ hs \in [Conn -> 0 .. Len(Flights) + 1] /\ want \in [Conn -> {"R", "W"}]
           /\ sc \in [Conn -> {"none", "live", "freed"}] /\ maps \in [Conn -> 0 .. 2]
           /\ slot \in [Conn -> [rx : Handlers \cup {Null}, tx : Handlers \cup {Null}]]
           /\ armed \in [Conn -> SUBSET {"R", "W"}] /\ last \in [Conn -> Handlers \cup {Null}]
BY DEF TypeOK

\* A thread that goes to label l keeps its connection, event, handler and mask.
LEMMA GoStep ==
    ASSUME TypeOK, NEW t \in Thr, NEW l \in Pcs, Go(t, l)
    PROVE  /\ th' \in [Thr -> ThreadType]
           /\ th'[t].pc = l /\ th'[t].conn = th[t].conn /\ th'[t].ev = th[t].ev
           /\ th'[t].fn = th[t].fn /\ th'[t].arm = th[t].arm
           /\ \A u \in Thr \ {t} : th'[u] = th[u]
<1>1. th \in [Thr -> ThreadType]  BY DEF TypeOK, ThreadType
<1>2. th[t] \in ThreadType  BY <1>1
<1>3. [th[t] EXCEPT !.pc = l] \in ThreadType
  BY <1>2 DEF ThreadType
<1>4. th' = [th EXCEPT ![t] = [th[t] EXCEPT !.pc = l]]  BY <1>1 DEF Go
<1>5. /\ [th[t] EXCEPT !.pc = l].pc = l /\ [th[t] EXCEPT !.pc = l].conn = th[t].conn
      /\ [th[t] EXCEPT !.pc = l].ev = th[t].ev /\ [th[t] EXCEPT !.pc = l].fn = th[t].fn
      /\ [th[t] EXCEPT !.pc = l].arm = th[t].arm
  BY <1>2 DEF ThreadType
<1> QED BY <1>1, <1>3, <1>4, <1>5

\* So does one that will arm its connection, but for the mask.
LEMMA GoArmStep ==
    ASSUME TypeOK, NEW t \in Thr, NEW dirs \in SUBSET {"R", "W"}, GoArm(t, dirs)
    PROVE  /\ th' \in [Thr -> ThreadType]
           /\ th'[t].pc = "arm" /\ th'[t].conn = th[t].conn /\ th'[t].ev = th[t].ev
           /\ th'[t].fn = th[t].fn /\ th'[t].arm = dirs
           /\ \A u \in Thr \ {t} : th'[u] = th[u]
<1>1. th \in [Thr -> ThreadType]  BY DEF TypeOK, ThreadType
<1>2. th[t] \in ThreadType  BY <1>1
<1> DEFINE r == [th[t] EXCEPT !.pc = "arm", !.arm = dirs]
<1>3. "arm" \in Pcs  BY DEF Pcs, HandlerPcs
<1>4. r \in ThreadType
  BY <1>2, <1>3 DEF ThreadType
<1>5. th' = [th EXCEPT ![t] = r]  BY <1>1 DEF GoArm
<1>6. r.pc = "arm" /\ r.conn = th[t].conn /\ r.ev = th[t].ev /\ r.fn = th[t].fn /\ r.arm = dirs
  BY <1>2 DEF ThreadType
<1> QED BY <1>1, <1>4, <1>5, <1>6

\* The initial values are in range, and nobody owns anything.
LEMMA SslInit == OneCallback /\ Init => SslInv
<1> SUFFICES ASSUME OneCallback, Init PROVE SslInv
  OBVIOUS
<1> USE SslAssumption DEF Init
<1>1. NRead \in Nat
  <2>1. Len(Flights) \in Nat  OBVIOUS
  <2>2. IsFiniteSet(1 .. Len(Flights))  BY <2>1, FS_Interval
  <2>3. {i \in 1 .. Len(Flights) : Flights[i] = "R"} \in SUBSET (1 .. Len(Flights))  OBVIOUS
  <2> HIDE SslAssumption DEF Init
  <2>4. IsFiniteSet({i \in 1 .. Len(Flights) : Flights[i] = "R"})  BY <2>2, <2>3, FS_Subset
  <2> QED BY <2>4, FS_CardinalityType DEF NRead
<1>2. Idle \in ThreadType /\ Idle.pc = "poll" /\ Idle.ev = {}
  <2>1. (CHOOSE c \in Conn : TRUE) \in Conn  OBVIOUS
  <2> QED BY <2>1 DEF Idle, ThreadType, Pcs
<1>3. sock \in [Conn -> SockType]
  <2>1. NRead + MaxRecords \in Nat  BY <1>1
  <2> HIDE SslAssumption
  <2> QED BY <2>1 DEF SockType
<1>4. TypeOK
  <2>1. th \in [Thr -> ThreadType]  BY <1>2
  <2>2. larmed \in BOOLEAN  BY Zenon
  <2>3. slot \in [Conn -> [rx : Handlers \cup {Null}, tx : Handlers \cup {Null}]]  OBVIOUS
  <2>4. Len(Flights) \in Nat  OBVIOUS
  <2> QED BY <1>3, <2>1, <2>2, <2>3, <2>4 DEF TypeOK, ThreadType, SockType
<1>5. \A t \in Thr : th[t].pc = "poll" /\ th[t].ev = {}  BY <1>2
<1>6. \A t \in Thr : \A c \in Conn : ~Owns(t, c)  BY <1>5, PcsAre DEF Owns
<1>7. \A t \in Thr : OwnerOK(t) /\ ThreadOK(t)
  BY <1>5, <1>6, PcsAre DEF OwnerOK, ThreadOK
<1>8. \A c \in Conn : ConnOK(c) /\ ArmedOK(c)
  <2>1. Len(Flights) \in Nat  OBVIOUS
  <2> QED BY <2>1 DEF ConnOK, ArmedOK, Pairs, Nothing
<1> QED BY <1>4, <1>6, <1>7, <1>8 DEF SslInv, Alone

-----------------------------------------------------------------------------
(* One thread, one connection.                                               *)

\* A step of thread t about connection c, which no other thread has: the
\* invariant holds after it if it does so for the two.
LEMMA Frame ==
    ASSUME SslInv, NEW t \in Thr, NEW c \in Conn,
           client' = client,
           \A u \in Thr \ {t} : th'[u] = th[u] /\ ~Owns(u, c),
           \A d \in Conn \ {c} : /\ st'[d] = st[d] /\ hs'[d] = hs[d] /\ want'[d] = want[d]
                                 /\ sc'[d] = sc[d] /\ maps'[d] = maps[d] /\ slot'[d] = slot[d]
                                 /\ armed'[d] = armed[d] /\ last'[d] = last[d],
           \A d \in Conn \ {c} : ~Owns(t, d) /\ ~Owns(t, d)',
           TypeOK', Owns(t, c)' => /\ armed'[c] = {} /\ st'[c] = "open"
                                   /\ sc'[c] = IF th'[t].pc = "create" THEN "none" ELSE "live",
           ThreadOK(t)', ConnOK(c)', ArmedOK(c)'
    PROVE  SslInv'
<1> USE DEF SslInv
<1>y. \A u \in Thr : th[u].conn \in Conn  BY DEF TypeOK
<1>1. \A u \in Thr \ {t} : \A d \in Conn : Owns(u, d)' <=> Owns(u, d)
  BY DEF Owns
<1>2. Alone'
  <2> SUFFICES ASSUME NEW u \in Thr, NEW v \in Thr, NEW d \in Conn, Owns(u, d)', Owns(v, d)'
               PROVE  u = v
    BY DEF Alone
  <2>1. CASE d = c  BY <2>1, <1>1
  <2>2. CASE d # c  BY <2>2, <1>1 DEF Alone
  <2> QED BY <2>1, <2>2
<1>3. ASSUME NEW u \in Thr PROVE OwnerOK(u)'
  <2>1. CASE u = t  BY <2>1 DEF OwnerOK
  <2>2. CASE u # t  BY <2>2, <1>1 DEF OwnerOK
  <2> QED BY <2>1, <2>2
<1>4. ASSUME NEW u \in Thr \ {t} PROVE ThreadOK(u)'
  <2>1. th'[u] = th[u]  OBVIOUS
  <2>2. CASE th[u].conn # c
    <3>1. /\ slot'[th[u].conn] = slot[th[u].conn] /\ last'[th[u].conn] = last[th[u].conn]
          /\ hs'[th[u].conn] = hs[th[u].conn] /\ want'[th[u].conn] = want[th[u].conn]
      BY <2>2, <1>y
    <3>2. ThreadOK(u)  OBVIOUS
    <3> QED BY <2>1, <3>1, <3>2 DEF ThreadOK, Served
  <2>3. CASE th[u].conn = c
    <3>1. th[u].pc \notin HandlerPcs /\ ~(th[u].pc = "event" /\ th[u].ev # {})
      BY <2>3 DEF Owns
    <3>2. ThreadOK(u)  OBVIOUS
    <3> QED BY <2>1, <3>1, <3>2, PcsAre DEF ThreadOK
  <2> QED BY <2>2, <2>3
<1>5. ASSUME NEW d \in Conn \ {c} PROVE ConnOK(d)' /\ ArmedOK(d)'
  <2>1. ConnOK(d) /\ ArmedOK(d)  OBVIOUS
  <2>2. ConnOK(d)'  BY <2>1 DEF ConnOK
  <2>3. \A u \in Thr : Owns(u, d)' <=> Owns(u, d)  BY <1>1
  <2>4. ArmedOK(d)'  BY <2>1, <2>3 DEF ArmedOK, Served
  <2> QED BY <2>2, <2>4
<1>6. OneCallback'  BY DEF OneCallback
<1> QED BY <1>2, <1>3, <1>4, <1>5, <1>6

\* A thread in a handler, creating a connection's state or handling an event
\* has that connection to itself, and no other.
LEMMA OwnerAlone ==
    ASSUME SslInv, NEW t \in Thr,
           th[t].pc \in HandlerPcs \cup {"create"} \/ (th[t].pc = "event" /\ th[t].ev # {})
    PROVE  /\ th[t].conn \in Conn /\ Owns(t, th[t].conn)
           /\ \A u \in Thr \ {t} : ~Owns(u, th[t].conn)
           /\ \A d \in Conn \ {th[t].conn} : ~Owns(t, d)
           /\ armed[th[t].conn] = {} /\ st[th[t].conn] = "open"
           /\ sc[th[t].conn] = IF th[t].pc = "create" THEN "none" ELSE "live"
           /\ ThreadOK(t) /\ ConnOK(th[t].conn) /\ client \in Clients
<1> USE DEF SslInv
<1>1. th[t].conn \in Conn  BY DEF TypeOK
<1>2. Owns(t, th[t].conn)  BY DEF Owns
<1>3. \A d \in Conn \ {th[t].conn} : ~Owns(t, d)  BY DEF Owns
<1>4. OwnerOK(t)  OBVIOUS
<1>5. ConnOK(th[t].conn)  BY <1>1
<1> QED BY <1>1, <1>2, <1>3, <1>4, <1>5 DEF Alone, OwnerOK, ConnOK

-----------------------------------------------------------------------------
(* The application, the peers and the listener.                              *)

\* torque_addssl() and what the peers do.
LEMMA OutsideStep ==
    ASSUME SslInv, AddSsl \/ (\E c \in Conn : Environment(c))
    PROVE  SslInv'
<1> USE SslAssumption DEF SslInv
<1>1. CASE AddSsl
  <2>1. UNCHANGED <<st, sock, hs, want, sc, maps, slot, armed, last, th>> /\ client = "none"
    BY <1>1 DEF AddSsl
  <2>2. client' \in Clients \cup {"none", "failed"} /\ larmed' \in BOOLEAN
    <3>1. CASE UNCHANGED larmed
      BY <1>1, <3>1 DEF AddSsl, TypeOK
    <3>2. CASE larmed' = TRUE
      BY <1>1, <3>2, Zenon DEF AddSsl
    <3> QED BY <1>1, <3>1, <3>2 DEF AddSsl
  <2>3. TypeOK'  BY <2>1, <2>2 DEF TypeOK
  <2>4. \A c \in Conn : st[c] = "none"
    <3>1. "none" \notin Clients  BY DEF OneCallback
    <3> QED BY <2>1, <3>1 DEF ConnOK
  <2>5. \A t \in Thr : \A c \in Conn : Owns(t, c)' <=> Owns(t, c)  BY <2>1 DEF Owns
  <2>6. Alone'  BY <2>5 DEF Alone
  <2>7. \A t \in Thr : OwnerOK(t)' /\ ThreadOK(t)'
    BY <2>1, <2>5 DEF OwnerOK, ThreadOK, Served
  <2>8. \A c \in Conn : ConnOK(c)'  BY <2>1, <2>4 DEF ConnOK
  <2>9. \A c \in Conn : ArmedOK(c)'  BY <2>1, <2>5 DEF ArmedOK, Served
  <2> QED BY <2>3, <2>6, <2>7, <2>8, <2>9 DEF OneCallback
<1>2. ASSUME NEW c \in Conn, Environment(c) PROVE SslInv'
  <2>1. UNCHANGED <<client, larmed, hs, want, sc, maps, slot, armed, last, th>>
    BY <1>2 DEF Environment, PeerConnect, PeerAct, PeerDrain
  <2>2. st' = st \/ (client \in Clients /\ st[c] = "none" /\ st' = [st EXCEPT ![c] = "pending"])
    BY <1>2 DEF Environment, PeerConnect, PeerAct, PeerDrain
  <2>3. sock' \in [Conn -> SockType]
    <3>0. sock \in [Conn -> SockType]  BY DEF TypeOK, SockType
    <3>1. sock[c] \in SockType  BY <3>0
    <3>2. CASE sock' = sock
      BY <3>0, <3>2
    <3>3. CASE sock[c].left > 0 /\ sock' = [sock EXCEPT ![c].inb = @ + 1, ![c].left = @ - 1]
      <4>1. [sock[c] EXCEPT !.inb = @ + 1, !.left = @ - 1] \in SockType
        <5>1. sock[c].inb + 1 \in Nat /\ sock[c].left - 1 \in Nat  BY <3>1, <3>3 DEF SockType
        <5> HIDE SslAssumption DEF SslInv
        <5> QED BY <3>1, <5>1 DEF SockType
      <4>2. sock' = [sock EXCEPT ![c] = [sock[c] EXCEPT !.inb = @ + 1, !.left = @ - 1]]
        BY <3>0, <3>3
      <4> QED BY <3>0, <4>1, <4>2
    <3>4. CASE sock' = [sock EXCEPT ![c].eof = TRUE, ![c].left = 0]
      <4>1. [sock[c] EXCEPT !.eof = TRUE, !.left = 0] \in SockType
        BY <3>1, <3>4 DEF SockType
      <4>2. sock' = [sock EXCEPT ![c] = [sock[c] EXCEPT !.eof = TRUE, !.left = 0]]
        BY <3>0, <3>4
      <4> QED BY <3>0, <4>1, <4>2
    <3>5. CASE sock' = [sock EXCEPT ![c].room = TRUE]
      <4>1. [sock[c] EXCEPT !.room = TRUE] \in SockType
        BY <3>1, <3>5 DEF SockType
      <4>2. sock' = [sock EXCEPT ![c] = [sock[c] EXCEPT !.room = TRUE]]
        BY <3>0, <3>5
      <4> QED BY <3>0, <4>1, <4>2
    <3> QED BY <1>2, <3>2, <3>3, <3>4, <3>5 DEF Environment, PeerConnect, PeerAct, PeerDrain
  <2>4. st' \in [Conn -> {"none", "pending", "open", "closed"}]
    <3>1. st \in [Conn -> {"none", "pending", "open", "closed"}]  BY DEF TypeOK
    <3> HIDE SslAssumption DEF SslInv
    <3> QED BY <2>2, <3>1
  <2>5. TypeOK'  BY <2>1, <2>3, <2>4 DEF TypeOK, SockType
  <2>6. \A d \in Conn : st'[d] = st[d] \/ (client \in Clients /\ st[d] = "none" /\ st'[d] = "pending")
    BY <2>2 DEF TypeOK
  <2>7. \A t \in Thr : \A d \in Conn : Owns(t, d)' <=> Owns(t, d)  BY <2>1 DEF Owns
  <2>8. Alone'  BY <2>7 DEF Alone
  <2>9. \A t \in Thr : OwnerOK(t)' /\ ThreadOK(t)'
    <3>1. \A t \in Thr : ThreadOK(t)'  BY <2>1 DEF ThreadOK, Served
    <3>2. \A t \in Thr : OwnerOK(t)'  BY <2>1, <2>6, <2>7 DEF OwnerOK
    <3> QED BY <3>1, <3>2
  <2>10. \A d \in Conn : ConnOK(d)'  BY <2>1, <2>6 DEF ConnOK
  <2>11. \A d \in Conn : ArmedOK(d)'  BY <2>1, <2>6, <2>7 DEF ArmedOK, Served
  <2> QED BY <2>5, <2>8, <2>9, <2>10, <2>11 DEF OneCallback
<1> QED BY <1>1, <1>2

\* A step of a thread that has no connection and takes none.
LEMMA IdleFrame ==
    ASSUME SslInv, NEW t \in Thr,
           UNCHANGED <<client, st, hs, want, sc, maps, slot, armed, last>>,
           \A u \in Thr \ {t} : th'[u] = th[u],
           \A d \in Conn : ~Owns(t, d) /\ ~Owns(t, d)',
           TypeOK', ThreadOK(t)'
    PROVE  SslInv'
<1> USE DEF SslInv
<1>1. \A u \in Thr : \A d \in Conn : Owns(u, d)' <=> Owns(u, d)
  BY DEF Owns
<1>2. Alone'  BY <1>1 DEF Alone
<1>3. \A u \in Thr : OwnerOK(u)'
  <2> SUFFICES ASSUME NEW u \in Thr, NEW d \in Conn, Owns(u, d)
               PROVE  /\ armed[d] = {} /\ st[d] = "open"
                      /\ sc[d] = IF th'[u].pc = "create" THEN "none" ELSE "live"
    BY <1>1 DEF OwnerOK
  <2>1. u # t  OBVIOUS
  <2> QED BY <2>1 DEF OwnerOK
<1>4. \A u \in Thr \ {t} : ThreadOK(u)'  BY DEF ThreadOK, Served
<1>5. \A d \in Conn : ConnOK(d)'  BY DEF ConnOK
<1>6. \A d \in Conn : ArmedOK(d)'  BY <1>1 DEF ArmedOK, Served
<1> QED BY <1>2, <1>3, <1>4, <1>5, <1>6 DEF OneCallback

\* The listener's event is taken, and its handler ends.
LEMMA ListenerStep ==
    ASSUME SslInv, NEW t \in Thr, PollListener(t) \/ AcceptEnds(t)
    PROVE  SslInv'
<1>1. PICK l \in {"poll", "listen"} : Go(t, l)
  BY DEF PollListener, AcceptEnds
<1>2. /\ UNCHANGED <<client, st, sock, hs, want, sc, maps, slot, armed, last>>
      /\ th[t].pc \in {"poll", "listen"}
  BY DEF PollListener, AcceptEnds
<1>3. larmed' \in BOOLEAN
  <2>1. larmed' \in BOOLEAN \/ larmed' = larmed  BY Zenon DEF PollListener, AcceptEnds
  <2>2. larmed \in BOOLEAN  BY Zenon DEF SslInv, TypeOK
  <2> QED BY <2>1, <2>2, Zenon
<1>4. /\ th' \in [Thr -> ThreadType]
      /\ th'[t].pc = l /\ th'[t].conn = th[t].conn /\ th'[t].ev = th[t].ev
      /\ \A u \in Thr \ {t} : th'[u] = th[u]
  BY <1>1, GoStep, PcsAre DEF SslInv
<1>5. TypeOK'  BY <1>2, <1>3, <1>4 DEF SslInv, TypeOK, ThreadType
<1>6. \A d \in Conn : ~Owns(t, d) /\ ~Owns(t, d)'  BY <1>2, <1>4, PcsAre DEF Owns
<1>7. ThreadOK(t)'
  <2>1. ThreadOK(t)  BY DEF SslInv
  <2> QED BY <1>2, <1>4, <2>1, PcsAre DEF ThreadOK
<1> QED BY <1>2, <1>4, <1>5, <1>6, <1>7, IdleFrame

\* accept(2) gives the thread a connection nobody has.
LEMMA AcceptStep == ASSUME SslInv, NEW t \in Thr, Accept(t) PROVE SslInv'
<1> USE DEF SslInv
<1>1. PICK c \in Pending :
        st' = [st EXCEPT ![c] = "open"] /\ th' = [th EXCEPT ![t].pc = "create", ![t].conn = c]
  BY DEF Accept
<1>2. UNCHANGED <<client, larmed, sock, hs, want, sc, maps, slot, armed, last>> /\ th[t].pc = "listen"
  BY DEF Accept
<1>3. c \in Conn /\ st[c] = "pending"  BY DEF Pending
<1>4. /\ th' \in [Thr -> ThreadType]
      /\ th'[t].pc = "create" /\ th'[t].conn = c /\ th'[t].ev = th[t].ev
      /\ \A u \in Thr \ {t} : th'[u] = th[u]
  <2> DEFINE r == [th[t] EXCEPT !.pc = "create", !.conn = c]
  <2>1. th \in [Thr -> ThreadType] /\ th[t] \in ThreadType  BY DEF TypeOK, ThreadType
  <2>2. r \in ThreadType /\ r.pc = "create" /\ r.conn = c /\ r.ev = th[t].ev
    BY <2>1, <1>3, PcsAre DEF ThreadType
  <2>3. th' = [th EXCEPT ![t] = r]  BY <2>1, <1>1
  <2> HIDE DEF r
  <2> QED BY <2>1, <2>2, <2>3
<1>5. st' \in [Conn -> {"none", "pending", "open", "closed"}] /\ st'[c] = "open"
      /\ \A d \in Conn \ {c} : st'[d] = st[d]
  BY <1>1, <1>3 DEF TypeOK
<1>6. TypeOK'  BY <1>2, <1>4, <1>5 DEF TypeOK, ThreadType
<1>7. \A u \in Thr : ~Owns(u, c)  BY <1>3 DEF OwnerOK
<1>8. \A d \in Conn : ~Owns(t, d)  BY <1>2, PcsAre DEF Owns
<1>9. Owns(t, c)' /\ \A d \in Conn \ {c} : ~Owns(t, d)'  BY <1>4 DEF Owns
<1>10. ConnOK(c)  BY <1>3
<1>11. sc[c] = "none" /\ armed[c] = {} /\ client \in Clients  BY <1>3, <1>10 DEF ConnOK
<1>12. ThreadOK(t)'
  <2>1. ThreadOK(t)  OBVIOUS
  <2> QED BY <1>2, <1>4, <2>1, PcsAre DEF ThreadOK
<1>13. ConnOK(c)'  BY <1>2, <1>5, <1>10, <1>11 DEF ConnOK
<1>14. ArmedOK(c)'  BY <1>9 DEF ArmedOK
<1> QED BY <1>2, <1>3, <1>4, <1>5, <1>6, <1>7, <1>8, <1>9, <1>11, <1>12, <1>13, <1>14, Frame

-----------------------------------------------------------------------------
(* The owner of a connection.                                                *)

\* A step of a thread about the connection it has.
LEMMA OwnerFrame ==
    ASSUME SslInv, NEW t \in Thr, NEW c \in Conn, th[t].conn = c,
           th[t].pc \in HandlerPcs \cup {"create"} \/ (th[t].pc = "event" /\ th[t].ev # {}),
           client' = client, th'[t].conn = c,
           \A u \in Thr \ {t} : th'[u] = th[u],
           \A d \in Conn \ {c} :
               /\ st'[d] = st[d] /\ hs'[d] = hs[d] /\ want'[d] = want[d]
               /\ sc'[d] = sc[d] /\ maps'[d] = maps[d] /\ slot'[d] = slot[d]
               /\ armed'[d] = armed[d] /\ last'[d] = last[d],
           TypeOK',
           Owns(t, c)' => /\ armed'[c] = {} /\ st'[c] = "open"
                          /\ sc'[c] = IF th'[t].pc = "create" THEN "none" ELSE "live",
           ThreadOK(t)', ConnOK(c)', ArmedOK(c)'
    PROVE  SslInv'
<1>1. /\ \A u \in Thr \ {t} : ~Owns(u, c)
      /\ \A d \in Conn \ {c} : ~Owns(t, d)
  BY OwnerAlone
<1>2. \A d \in Conn \ {c} : ~Owns(t, d)'  BY DEF Owns
<1> QED BY <1>1, <1>2, Frame

\* What the owner of a connection may rely on.
LEMMA OwnerKnows ==
    ASSUME SslInv, NEW t \in Thr,
           th[t].pc \in HandlerPcs \/ (th[t].pc = "event" /\ th[t].ev # {})
    PROVE  /\ th[t].conn \in Conn /\ armed[th[t].conn] = {} /\ st[th[t].conn] = "open"
           /\ sc[th[t].conn] = "live" /\ ThreadOK(t) /\ ConnOK(th[t].conn)
           /\ client \in Clients /\ TypeOK /\ OneCallback
<1>1. th[t].pc # "create"  BY PcsAre
<1> QED BY <1>1, OwnerAlone DEF SslInv

\* fcntl(2), create_ssl_cbstate() and SSL_new() succeed, or the connection is closed.
LEMMA CreateStep == ASSUME SslInv, NEW t \in Thr, CreateSslCbstate(t) PROVE SslInv'
<1>p. th[t].pc = "create"  BY DEF CreateSslCbstate
<1>c. PICK c \in Conn : c = th[t].conn  BY <1>p, OwnerAlone
<1>o. /\ armed[c] = {} /\ st[c] = "open" /\ sc[c] = "none"
      /\ ThreadOK(t) /\ ConnOK(c) /\ client \in Clients
  BY <1>p, <1>c, OwnerAlone
<1>y. TypeOK  BY DEF SslInv
<1>r. /\ sc \in [Conn -> {"none", "live", "freed"}] /\ maps \in [Conn -> 0 .. 2]
      /\ last \in [Conn -> Handlers \cup {Null}] /\ "ssl_accept_internal" \in Handlers
      /\ st \in [Conn -> {"none", "pending", "open", "closed"}]
  BY <1>y, Ranges DEF Handlers
<1>n. Len(Flights) \in Nat  BY SslAssumption
<1>u. UNCHANGED <<client, larmed, sock, hs, want, slot, armed>>  BY DEF CreateSslCbstate
<1>1. CASE /\ sc' = [sc EXCEPT ![c] = "live"] /\ maps' = [maps EXCEPT ![c] = 1]
           /\ last' = [last EXCEPT ![c] = "ssl_accept_internal"]
           /\ th' = [th EXCEPT ![t].pc = "hs", ![t].fn = "ssl_accept_internal"] /\ st' = st
  <2>2. /\ th' \in [Thr -> ThreadType]
        /\ th'[t].pc = "hs" /\ th'[t].conn = c /\ th'[t].ev = th[t].ev
        /\ th'[t].fn = "ssl_accept_internal"
        /\ \A u \in Thr \ {t} : th'[u] = th[u]
    <3> DEFINE r == [th[t] EXCEPT !.pc = "hs", !.fn = "ssl_accept_internal"]
    <3>1. th \in [Thr -> ThreadType] /\ th[t] \in ThreadType  BY <1>y DEF TypeOK, ThreadType
    <3>2. r \in ThreadType /\ r.pc = "hs" /\ r.conn = c /\ r.ev = th[t].ev /\ r.fn = "ssl_accept_internal"
      BY <1>c, <3>1, PcsAre DEF ThreadType, Handlers
    <3>3. th' = [th EXCEPT ![t] = r]  BY <1>1, <3>1
    <3> HIDE DEF r
    <3> QED BY <3>1, <3>2, <3>3
  <2>s. /\ sc' \in [Conn -> {"none", "live", "freed"}] /\ sc'[c] = "live"
        /\ \A d \in Conn \ {c} : sc'[d] = sc[d]
    BY <1>1, <1>r
  <2>m. /\ maps' \in [Conn -> 0 .. 2] /\ maps'[c] = 1
        /\ \A d \in Conn \ {c} : maps'[d] = maps[d]
    BY <1>1, <1>r
  <2>l. /\ last' \in [Conn -> Handlers \cup {Null}] /\ last'[c] = "ssl_accept_internal"
        /\ \A d \in Conn \ {c} : last'[d] = last[d]
    BY <1>1, <1>r
  <2>4. TypeOK'  BY <1>y, <1>u, <1>1, <2>2, <2>s, <2>m, <2>l DEF TypeOK, ThreadType
  <2>6. hs[c] = 0  BY <1>o DEF ConnOK
  <2>7. ThreadOK(t)'
    <3>1. th[t].ev = {}  BY <1>o, <1>p DEF ThreadOK
    <3>2. hs'[c] <= Len(Flights)  BY <1>n, <1>u, <2>6
    <3> QED BY <3>1, <3>2, <2>2, <2>l DEF ThreadOK
  <2>8. ConnOK(c)'
    <3>1. /\ st'[c] = "open" /\ armed'[c] = {} /\ slot'[c] = slot[c] /\ hs'[c] = 0 /\ client' \in Clients
          /\ ~(0 > Len(Flights)) /\ 0 <= Len(Flights)
      BY <1>o, <1>n, <1>u, <1>1, <2>6
    <3>2. slot[c] \in Pairs  BY <1>o DEF ConnOK
    <3> QED BY <3>1, <3>2, <2>s, <2>m DEF ConnOK
  <2>9. Owns(t, c)'  BY <2>2, PcsAre DEF Owns
  <2>10. ArmedOK(c)'  BY <2>9 DEF ArmedOK
  <2> QED BY <1>o, <1>p, <1>c, <1>u, <1>1, <2>2, <2>4, <2>s, <2>m, <2>l, <2>7, <2>8, <2>10, OwnerFrame
<1>2. CASE st' = [st EXCEPT ![c] = "closed"] /\ Go(t, "listen") /\ UNCHANGED <<sc, maps, last>>
  <2>1. /\ th' \in [Thr -> ThreadType]
        /\ th'[t].pc = "listen" /\ th'[t].conn = c /\ th'[t].ev = th[t].ev
        /\ \A u \in Thr \ {t} : th'[u] = th[u]
    BY <1>2, <1>c, <1>y, GoStep, PcsAre
  <2>2. /\ st' \in [Conn -> {"none", "pending", "open", "closed"}] /\ st'[c] = "closed"
        /\ \A d \in Conn \ {c} : st'[d] = st[d]
    BY <1>2, <1>r
  <2>3. TypeOK'  BY <1>y, <1>u, <1>2, <2>1, <2>2 DEF TypeOK, ThreadType
  <2>4. ThreadOK(t)'  BY <1>o, <1>p, <2>1, PcsAre DEF ThreadOK
  <2>5. ConnOK(c)'  BY <1>o, <1>u, <1>2, <2>2 DEF ConnOK
  <2>6. ~Owns(t, c)'  BY <2>1, PcsAre DEF Owns
  <2>7. ArmedOK(c)'  BY <2>2 DEF ArmedOK
  <2> QED BY <1>o, <1>p, <1>c, <1>u, <1>2, <2>1, <2>2, <2>3, <2>4, <2>5, <2>6, <2>7, OwnerFrame
<1> QED BY <1>1, <1>2, <1>c DEF CreateSslCbstate

\* A handler that goes on, or fails, and touches nothing of its connection but
\* the socket.
LEMMA HandlerMoves ==
    ASSUME SslInv, NEW t \in Thr, NEW l \in {"cb", "read", "fail"}, Go(t, l),
           th[t].pc \in HandlerPcs,
           l \in {"cb", "read"} => th[t].pc \in {"cb", "read"},
           sock' \in [Conn -> SockType],
           UNCHANGED <<client, larmed, st, hs, want, sc, maps, slot, armed, last>>
    PROVE  SslInv'
<1>c. PICK c \in Conn : c = th[t].conn  BY OwnerKnows
<1>o. /\ armed[c] = {} /\ st[c] = "open" /\ sc[c] = "live"
      /\ ThreadOK(t) /\ ConnOK(c) /\ TypeOK
  BY <1>c, OwnerKnows
<1>1. /\ th' \in [Thr -> ThreadType]
      /\ th'[t].pc = l /\ th'[t].conn = c /\ th'[t].ev = th[t].ev /\ th'[t].fn = th[t].fn
      /\ \A u \in Thr \ {t} : th'[u] = th[u]
  BY <1>c, <1>o, GoStep, PcsAre
<1>2. TypeOK'  BY <1>o, <1>1 DEF TypeOK, ThreadType, SockType
<1>3. ThreadOK(t)'  BY <1>c, <1>o, <1>1, PcsAre DEF ThreadOK
<1>4. ConnOK(c)'  BY <1>o DEF ConnOK
<1>5. Owns(t, c)' /\ th'[t].pc # "create"  BY <1>1, PcsAre DEF Owns
<1>6. ArmedOK(c)'  BY <1>5 DEF ArmedOK
<1> QED BY <1>c, <1>o, <1>1, <1>2, <1>3, <1>4, <1>5, <1>6, OwnerFrame

\* OpenSSL's writing leaves the socket a socket.
LEMMA SendsType == ASSUME TypeOK, NEW c \in Conn, Sends(c) PROVE sock' \in [Conn -> SockType]
<1>1. PICK full \in BOOLEAN : sock' = [sock EXCEPT ![c].room = ~full]  BY DEF Sends
<1>2. sock \in [Conn -> SockType] /\ sock[c] \in SockType  BY DEF TypeOK, SockType
<1>3. (~full) \in BOOLEAN  OBVIOUS
<1> DEFINE b == ~full
<1>4. sock' = [sock EXCEPT ![c] = [sock[c] EXCEPT !.room = b]] /\ b \in BOOLEAN
  BY <1>1, <1>2, <1>3
<1> HIDE DEF b
<1>5. [sock[c] EXCEPT !.room = b] \in SockType  BY <1>2, <1>4 DEF SockType
<1> QED BY <1>2, <1>4, <1>5

\* Taking a record from the socket leaves it a socket.
LEMMA TakesType ==
    ASSUME TypeOK, NEW c \in Conn, sock[c].inb > 0, sock' = [sock EXCEPT ![c].inb = @ - 1]
    PROVE  sock' \in [Conn -> SockType]
<1>1. sock \in [Conn -> SockType] /\ sock[c] \in SockType  BY DEF TypeOK, SockType
<1>2. sock[c].inb - 1 \in Nat  BY <1>1 DEF SockType
<1>3. [sock[c] EXCEPT !.inb = @ - 1] \in SockType  BY <1>1, <1>2 DEF SockType
<1>4. sock' = [sock EXCEPT ![c] = [sock[c] EXCEPT !.inb = @ - 1]]  BY <1>1
<1> QED BY <1>1, <1>3, <1>4

-----------------------------------------------------------------------------
(* The handshake.                                                            *)

\* SSL_accept() takes or sends a flight: the state of the connection moves on.
LEMMA HsAdvanceStep == ASSUME SslInv, NEW t \in Thr, HsAdvance(t) PROVE SslInv'
<1>p. th[t].pc = "hs" /\ th[t].pc \in HandlerPcs  BY PcsAre DEF HsAdvance
<1>c. PICK c \in Conn : c = th[t].conn  BY <1>p, OwnerKnows
<1>o. /\ armed[c] = {} /\ st[c] = "open" /\ sc[c] = "live"
      /\ ThreadOK(t) /\ ConnOK(c) /\ TypeOK
  BY <1>c, <1>p, OwnerKnows
<1>n. Len(Flights) \in Nat  BY SslAssumption
<1>1. /\ hs[c] < Len(Flights) /\ hs' = [hs EXCEPT ![c] = @ + 1]
      /\ UNCHANGED <<client, larmed, st, want, sc, maps, slot, armed, last, th>>
  BY <1>c DEF HsAdvance
<1>2. sock' \in [Conn -> SockType]
  BY <1>c, <1>o, SendsType, TakesType DEF HsAdvance
<1>3. hs \in [Conn -> 0 .. Len(Flights) + 1]  BY <1>o, Ranges
<1>4. /\ hs' \in [Conn -> 0 .. Len(Flights) + 1] /\ hs'[c] = hs[c] + 1
      /\ \A d \in Conn \ {c} : hs'[d] = hs[d]
  BY <1>1, <1>3, <1>n
<1>5. hs'[c] <= Len(Flights) /\ ~(hs'[c] > Len(Flights)) /\ ~(hs[c] > Len(Flights))
  BY <1>1, <1>3, <1>4, <1>n
<1>6. TypeOK'  BY <1>o, <1>1, <1>2, <1>4 DEF TypeOK, SockType
<1>7. ThreadOK(t)'
  <2>1. th'[t] = th[t] /\ slot' = slot /\ last' = last /\ want' = want  BY <1>1
  <2> QED BY <1>c, <1>o, <1>p, <1>5, <2>1 DEF ThreadOK
<1>8. ConnOK(c)'
  <2>1. client' = client /\ st'[c] = "open" /\ sc'[c] = "live" /\ armed'[c] = {} /\ slot'[c] = slot[c] /\ maps'[c] = maps[c]
    BY <1>1, <1>o
  <2> QED BY <1>o, <1>5, <2>1 DEF ConnOK
<1>9. Owns(t, c)' /\ th'[t].pc = "hs" /\ th'[t].conn = c  BY <1>1, <1>p, <1>c DEF Owns
<1>10. ArmedOK(c)'  BY <1>9 DEF ArmedOK
<1> QED BY <1>c, <1>p, <1>o, <1>1, <1>4, <1>6, <1>7, <1>8, <1>9, <1>10, OwnerFrame

\* A handler fails: SSL_accept() or SSL_read() with an error, the end of file
\* included, or the client's callback.
LEMMA FailingStep ==
    ASSUME SslInv, NEW t \in Thr, TlsError(t) \/ SslEof(t)
    PROVE  SslInv'
<1>1. /\ Go(t, "fail") /\ th[t].pc \in HandlerPcs
      /\ UNCHANGED <<client, larmed, st, sock, hs, want, sc, maps, slot, armed, last>>
  BY PcsAre DEF TlsError, SslEof
<1>2. sock' \in [Conn -> SockType]  BY <1>1 DEF SslInv, TypeOK, SockType
<1> QED BY <1>1, <1>2, HandlerMoves

\* rxbuffer_ssl() returns data.
LEMMA SslReadStep == ASSUME SslInv, NEW t \in Thr, SslRead(t) PROVE SslInv'
<1>p. th[t].pc = "read" /\ th[t].pc \in HandlerPcs  BY PcsAre DEF SslRead
<1>o. th[t].conn \in Conn /\ TypeOK  BY <1>p, OwnerKnows
<1>1. /\ Go(t, "cb") /\ sock[th[t].conn].inb > 0 /\ sock' = [sock EXCEPT ![th[t].conn].inb = @ - 1]
      /\ UNCHANGED <<client, larmed, st, hs, want, sc, maps, slot, armed, last>>
  BY DEF SslRead
<1>2. sock' \in [Conn -> SockType]  BY <1>o, <1>1, TakesType
<1> QED BY <1>p, <1>1, <1>2, HandlerMoves

\* The client's callback returns; what it sends goes through.
LEMMA CallbackStep == ASSUME SslInv, NEW t \in Thr, Callback(t) PROVE SslInv'
<1>p. th[t].pc = "cb" /\ th[t].pc \in HandlerPcs  BY PcsAre DEF Callback
<1>o. th[t].conn \in Conn /\ TypeOK /\ OneCallback  BY <1>p, OwnerKnows
<1>1. /\ UNCHANGED <<client, larmed, st, hs, want, sc, maps, slot, armed, last>>
      /\ Go(t, "read") \/ Go(t, "fail")
      /\ sock' = sock \/ Sends(th[t].conn)
  BY <1>o DEF Callback, OneCallback
<1>2. sock' \in [Conn -> SockType]
  <2>1. CASE sock' = sock  BY <2>1, <1>o DEF TypeOK, SockType
  <2>2. CASE Sends(th[t].conn)  BY <2>2, <1>o, SendsType
  <2> QED BY <1>1, <2>1, <2>2
<1> QED BY <1>p, <1>1, <1>2, HandlerMoves
\* The handlers a connection can have are handlers.
LEMMA PairsAreSlots ==
    ASSUME NEW s \in Pairs
    PROVE  s \in [rx : Handlers \cup {Null}, tx : Handlers \cup {Null}]
BY DEF Pairs, Nothing, AcceptRx, AcceptTx, DataRx, DataTxRx, DataTx, Handlers

\* A handshake handler puts the handlers s in place for what OpenSSL now waits
\* for; the listener's then registers the connection, accept_contrxfxn()
\* re-arms it, and accept_conttxfxn() does neither.
LEMMA HandsOver ==
    ASSUME SslInv, NEW t \in Thr, NEW c \in Conn, c = th[t].conn, th[t].pc = "hs",
           NEW d \in {"R", "W"}, NEW s \in Pairs, (IF d = "R" THEN s.rx ELSE s.tx) # Null,
           want' = [want EXCEPT ![c] = d], slot' = [slot EXCEPT ![c] = s],
           \/ th[t].fn = "ssl_accept_internal" /\ Go(t, "add")
           \/ th[t].fn = "accept_contrxfxn" /\ GoArm(t, {d})
           \/ th[t].fn = "accept_conttxfxn" /\ Go(t, "event"),
           hs' \in [Conn -> 0 .. Len(Flights) + 1], maps' \in [Conn -> 0 .. 2],
           \A e \in Conn \ {c} : hs'[e] = hs[e] /\ maps'[e] = maps[e],
           maps'[c] = 1 + (IF hs'[c] > Len(Flights) THEN 1 ELSE 0),
           s \in {AcceptRx, AcceptTx} => hs'[c] <= Len(Flights),
           UNCHANGED <<client, larmed, st, sock, sc, armed, last>>
    PROVE  SslInv'
<1>p. th[t].pc \in HandlerPcs  BY PcsAre
<1>o. /\ armed[c] = {} /\ st[c] = "open" /\ sc[c] = "live"
      /\ ThreadOK(t) /\ ConnOK(c) /\ TypeOK /\ client \in Clients
  BY <1>p, OwnerKnows
<1>r. /\ want \in [Conn -> {"R", "W"}]
      /\ slot \in [Conn -> [rx : Handlers \cup {Null}, tx : Handlers \cup {Null}]]
  BY <1>o, Ranges
<1>1. /\ want' \in [Conn -> {"R", "W"}] /\ want'[c] = d
      /\ \A e \in Conn \ {c} : want'[e] = want[e]
  BY <1>r
<1>2. /\ slot' \in [Conn -> [rx : Handlers \cup {Null}, tx : Handlers \cup {Null}]] /\ slot'[c] = s
      /\ \A e \in Conn \ {c} : slot'[e] = slot[e]
  BY <1>r, PairsAreSlots
<1>3. /\ th' \in [Thr -> ThreadType] /\ \A u \in Thr \ {t} : th'[u] = th[u]
      /\ th'[t].conn = c /\ th'[t].ev = th[t].ev /\ th'[t].fn = th[t].fn
      /\ \/ th'[t].pc = "add"
         \/ th'[t].pc = "arm" /\ th'[t].arm = {d}
         \/ th'[t].pc = "event" /\ th[t].fn = "accept_conttxfxn"
  BY <1>o, GoStep, GoArmStep, PcsAre
<1>4. TypeOK'  BY <1>o, <1>1, <1>2, <1>3 DEF TypeOK, ThreadType
<1>5. th[t].ev = {} /\ last[c] = th[t].fn  BY <1>o, <1>p DEF ThreadOK
<1>6. ThreadOK(t)'
  <2>1. Served(c)'  BY <1>1, <1>2 DEF Served
  <2>2. {d} # {"R", "W"}
    <3>1. "R" \notin {d} \/ "W" \notin {d}  OBVIOUS
    <3>2. "R" \in {"R", "W"} /\ "W" \in {"R", "W"}  OBVIOUS
    <3> QED BY <3>1, <3>2, Zenon
  <2> QED BY <1>1, <1>3, <1>5, <2>1, <2>2 DEF ThreadOK
<1>7. ConnOK(c)'  BY <1>o, <1>2 DEF ConnOK
<1>8. Owns(t, c)' => armed'[c] = {} /\ st'[c] = "open" /\ sc'[c] = "live" /\ th'[t].pc # "create"
  BY <1>o, <1>3
<1>9. ArmedOK(c)'
  <2>1. CASE th'[t].pc = "event"
    <3>1. last'[c] \in Stranding  BY <1>3, <1>5, <2>1 DEF Stranding
    <3> QED BY <3>1 DEF ArmedOK
  <2>2. CASE th'[t].pc # "event"
    <3>1. Owns(t, c)'  BY <1>3, <2>2, PcsAre DEF Owns
    <3> QED BY <3>1 DEF ArmedOK
  <2> QED BY <2>1, <2>2
<1> QED BY <1>p, <1>o, <1>1, <1>2, <1>3, <1>4, <1>6, <1>7, <1>8, <1>9, OwnerFrame

\* A connection is closed with its state freed, and left.
LEMMA Closes ==
    ASSUME SslInv, NEW t \in Thr, NEW c \in Conn, c = th[t].conn, th[t].pc \in HandlerPcs,
           NEW l \in {"listen", "event"}, Go(t, l),
           sc' = [sc EXCEPT ![c] = "freed"], st' = [st EXCEPT ![c] = "closed"],
           armed' = [armed EXCEPT ![c] = {}],
           hs' \in [Conn -> 0 .. Len(Flights) + 1], maps' \in [Conn -> 0 .. 2],
           \A e \in Conn \ {c} : hs'[e] = hs[e] /\ maps'[e] = maps[e],
           maps'[c] = (IF hs'[c] > Len(Flights) THEN 1 ELSE 0),
           UNCHANGED <<client, larmed, sock, want, slot, last>>
    PROVE  SslInv'
<1>o. ThreadOK(t) /\ ConnOK(c) /\ TypeOK /\ client \in Clients
  BY OwnerKnows
<1>r. /\ sc \in [Conn -> {"none", "live", "freed"}] /\ armed \in [Conn -> SUBSET {"R", "W"}]
      /\ st \in [Conn -> {"none", "pending", "open", "closed"}]
  BY <1>o, Ranges
<1>1. /\ sc' \in [Conn -> {"none", "live", "freed"}] /\ sc'[c] = "freed"
      /\ \A e \in Conn \ {c} : sc'[e] = sc[e]
  BY <1>r
<1>2. /\ st' \in [Conn -> {"none", "pending", "open", "closed"}] /\ st'[c] = "closed"
      /\ \A e \in Conn \ {c} : st'[e] = st[e]
  BY <1>r
<1>3. /\ armed' \in [Conn -> SUBSET {"R", "W"}] /\ armed'[c] = {}
      /\ \A e \in Conn \ {c} : armed'[e] = armed[e]
  BY <1>r
<1>4. /\ th' \in [Thr -> ThreadType] /\ \A u \in Thr \ {t} : th'[u] = th[u]
      /\ th'[t].conn = c /\ th'[t].ev = th[t].ev /\ th'[t].pc = l
  BY <1>o, GoStep, PcsAre
<1>5. TypeOK'  BY <1>o, <1>1, <1>2, <1>3, <1>4 DEF TypeOK, ThreadType
<1>6. th'[t].ev = {}  BY <1>o, <1>4 DEF ThreadOK
<1>7. ThreadOK(t)'  BY <1>4, <1>6, PcsAre DEF ThreadOK
<1>8. ConnOK(c)'
  <2>1. slot'[c] \in Pairs  BY <1>o DEF ConnOK
  <2>2. client' \in Clients /\ {} # {"R", "W"}  BY <1>o
  <2> QED BY <1>1, <1>2, <1>3, <2>1, <2>2 DEF ConnOK
<1>9. ~Owns(t, c)'  BY <1>4, <1>6, PcsAre DEF Owns
<1>10. ArmedOK(c)'  BY <1>2 DEF ArmedOK
<1>11. \A e \in Conn \ {c} : /\ st'[e] = st[e] /\ hs'[e] = hs[e] /\ want'[e] = want[e]
                            /\ sc'[e] = sc[e] /\ maps'[e] = maps[e] /\ slot'[e] = slot[e]
                            /\ armed'[e] = armed[e] /\ last'[e] = last[e]
  BY <1>1, <1>2, <1>3
<1>12. client' = client  OBVIOUS
<1> QED BY <1>4, <1>5, <1>7, <1>8, <1>9, <1>10, <1>11, <1>12, OwnerFrame
\* SSL_accept() wants to read or to write.
LEMMA HsBlockedStep == ASSUME SslInv, NEW t \in Thr, HsBlocked(t) PROVE SslInv'
<1>p. th[t].pc = "hs" /\ th[t].pc \in HandlerPcs  BY PcsAre DEF HsBlocked
<1>c. PICK c \in Conn : c = th[t].conn  BY <1>p, OwnerKnows
<1>o. ThreadOK(t) /\ ConnOK(c) /\ TypeOK /\ sc[c] = "live"  BY <1>p, <1>c, OwnerKnows
<1>n. Len(Flights) \in Nat  BY SslAssumption
<1>1. PICK d \in HsWants(c) :
        /\ want' = [want EXCEPT ![c] = d]
        /\ IF d = "W" THEN SetEvsource(c, Null, "accept_conttxfxn")
                      ELSE SetEvsource(c, "accept_contrxfxn", Null)
        /\ CASE th[t].fn = "ssl_accept_internal" -> Go(t, "add")
             [] th[t].fn = "accept_contrxfxn" -> GoArm(t, {d})
             [] OTHER -> Go(t, "event")
  BY <1>c DEF HsBlocked
<1>2. UNCHANGED <<client, larmed, st, sock, hs, sc, maps, armed, last>>  BY DEF HsBlocked
<1>3. d \in {"R", "W"} /\ ~(hs[c] >= Len(Flights))
  BY <1>1 DEF HsWants
<1>4. hs \in [Conn -> 0 .. Len(Flights) + 1] /\ maps \in [Conn -> 0 .. 2]  BY <1>o, Ranges
<1>5. hs[c] <= Len(Flights) /\ ~(hs[c] > Len(Flights))  BY <1>3, <1>4, <1>n
<1>6. maps[c] = 1 + (IF hs[c] > Len(Flights) THEN 1 ELSE 0)  BY <1>o DEF ConnOK
<1>7. \/ th[t].fn = "ssl_accept_internal" /\ Go(t, "add")
      \/ th[t].fn = "accept_contrxfxn" /\ GoArm(t, {d})
      \/ th[t].fn = "accept_conttxfxn" /\ Go(t, "event")
  <2>1. th[t].fn \in {"ssl_accept_internal", "accept_contrxfxn", "accept_conttxfxn"}
    BY <1>o, <1>p DEF ThreadOK
  <2> QED BY <1>1, <2>1
<1>8. PICK s \in Pairs : slot' = [slot EXCEPT ![c] = s] /\ (IF d = "R" THEN s.rx ELSE s.tx) # Null
  <2>1. CASE d = "R"
    <3>1. slot' = [slot EXCEPT ![c] = AcceptRx] /\ AcceptRx.rx # Null /\ AcceptRx \in Pairs
      BY <1>1, <2>1 DEF SetEvsource, AcceptRx, Null, Pairs
    <3> QED BY <3>1, <2>1
  <2>2. CASE d = "W"
    <3>1. slot' = [slot EXCEPT ![c] = AcceptTx] /\ AcceptTx.tx # Null /\ AcceptTx \in Pairs
      BY <1>1, <2>2 DEF SetEvsource, AcceptTx, Null, Pairs
    <3> QED BY <3>1, <2>2
  <2> QED BY <1>3, <2>1, <2>2
<1>9. /\ hs' \in [Conn -> 0 .. Len(Flights) + 1] /\ maps' \in [Conn -> 0 .. 2]
      /\ \A e \in Conn \ {c} : hs'[e] = hs[e] /\ maps'[e] = maps[e]
      /\ maps'[c] = 1 + (IF hs'[c] > Len(Flights) THEN 1 ELSE 0)
      /\ hs'[c] <= Len(Flights)
  BY <1>2, <1>4, <1>5, <1>6
<1>10. want' = [want EXCEPT ![c] = d]  BY <1>1
<1>11. UNCHANGED <<client, larmed, st, sock, sc, armed, last>>  BY <1>2
<1> QED BY <1>c, <1>p, <1>3, <1>7, <1>8, <1>9, <1>10, <1>11, HandsOver

\* SSL_accept() is done, and the second receive buffer is mapped or not.
LEMMA HsDoneStep == ASSUME SslInv, NEW t \in Thr, HsDone(t) PROVE SslInv'
<1>p. th[t].pc = "hs" /\ th[t].pc \in HandlerPcs  BY PcsAre DEF HsDone
<1>c. PICK c \in Conn : c = th[t].conn  BY <1>p, OwnerKnows
<1>o. /\ ThreadOK(t) /\ ConnOK(c) /\ TypeOK /\ sc[c] = "live" /\ OneCallback /\ client \in Clients
  BY <1>p, <1>c, OwnerKnows
<1>n. Len(Flights) \in Nat  BY SslAssumption
<1>1. /\ hs[c] = Len(Flights) /\ hs' = [hs EXCEPT ![c] = @ + 1]
      /\ UNCHANGED <<client, larmed, sock, last>>
  BY <1>c DEF HsDone
<1>2. hs \in [Conn -> 0 .. Len(Flights) + 1] /\ maps \in [Conn -> 0 .. 2]  BY <1>o, Ranges
<1>3. /\ hs' \in [Conn -> 0 .. Len(Flights) + 1] /\ hs'[c] > Len(Flights)
      /\ \A e \in Conn \ {c} : hs'[e] = hs[e]
  BY <1>1, <1>2, <1>n
<1>4. maps[c] = 1
  <2>1. ~(hs[c] > Len(Flights))  BY <1>1, <1>n
  <2> QED BY <1>o, <2>1 DEF ConnOK
<1>5. CASE /\ maps' = [maps EXCEPT ![c] = @ + 1]
           /\ slot' = [slot EXCEPT ![c] = AfterAccept]
           /\ want' = [want EXCEPT ![c] = IF client = "tx" THEN "W" ELSE "R"]
           /\ CASE th[t].fn = "ssl_accept_internal" -> Go(t, "add")
                [] th[t].fn = "accept_contrxfxn" -> GoArm(t, AcceptDirs)
                [] OTHER -> Go(t, "event")
           /\ UNCHANGED <<st, sc, armed>>
  <2>1. PICK d \in {"R", "W"} : d = IF client = "tx" THEN "W" ELSE "R"  OBVIOUS
  <2>2. client \in {"rx", "tx"}  BY <1>o DEF OneCallback
  <2>3. AfterAccept = (IF d = "R" THEN DataRx ELSE DataTx) /\ AcceptDirs = {d}
    <3>1. CASE client = "rx"  BY <2>1, <3>1 DEF AfterAccept, AcceptDirs, DataRx
    <3>2. CASE client = "tx"  BY <2>1, <3>2 DEF AfterAccept, AcceptDirs, DataTx
    <3> QED BY <2>2, <3>1, <3>2
  <2>4. PICK s \in Pairs : s = AfterAccept  BY <2>3 DEF Pairs
  <2>5. (IF d = "R" THEN s.rx ELSE s.tx) # Null
    BY <2>3, <2>4 DEF DataRx, DataTx, Null
  <2>6. s \notin {AcceptRx, AcceptTx}
    BY <2>3, <2>4 DEF DataRx, DataTx, AcceptRx, AcceptTx, Null
  <2>7. /\ maps' \in [Conn -> 0 .. 2] /\ maps'[c] = 2
        /\ \A e \in Conn \ {c} : maps'[e] = maps[e]
    BY <1>2, <1>4, <1>5
  <2>8. maps'[c] = 1 + (IF hs'[c] > Len(Flights) THEN 1 ELSE 0)  BY <1>3, <2>7
  <2>9. \/ th[t].fn = "ssl_accept_internal" /\ Go(t, "add")
        \/ th[t].fn = "accept_contrxfxn" /\ GoArm(t, {d})
        \/ th[t].fn = "accept_conttxfxn" /\ Go(t, "event")
    <3>1. th[t].fn \in {"ssl_accept_internal", "accept_contrxfxn", "accept_conttxfxn"}
      BY <1>o, <1>p DEF ThreadOK
    <3> QED BY <1>5, <2>3, <3>1
  <2>10. want' = [want EXCEPT ![c] = d] /\ slot' = [slot EXCEPT ![c] = s]  BY <1>5, <2>1, <2>4
  <2>11. UNCHANGED <<client, larmed, st, sock, sc, armed, last>>  BY <1>1, <1>5
  <2> QED BY <1>c, <1>p, <1>3, <2>5, <2>6, <2>7, <2>8, <2>9, <2>10, <2>11, HandsOver
<1>6. CASE /\ sc' = [sc EXCEPT ![c] = "freed"] /\ st' = [st EXCEPT ![c] = "closed"]
           /\ armed' = [armed EXCEPT ![c] = {}]
           /\ Go(t, IF th[t].fn = "ssl_accept_internal" THEN "listen" ELSE "event")
           /\ UNCHANGED <<maps, slot, want>>
  <2>1. PICK l \in {"listen", "event"} : Go(t, l)  BY <1>6
  <2>2. /\ maps' \in [Conn -> 0 .. 2] /\ maps'[c] = (IF hs'[c] > Len(Flights) THEN 1 ELSE 0)
        /\ \A e \in Conn \ {c} : maps'[e] = maps[e]
    BY <1>2, <1>3, <1>4, <1>6
  <2> QED BY <1>c, <1>p, <1>1, <1>3, <1>6, <2>1, <2>2, Closes
<1> QED BY <1>c, <1>5, <1>6 DEF HsDone

\* Every error path ends in free_ssl_cbstate() and close(2).
LEMMA FailStep == ASSUME SslInv, NEW t \in Thr, Fail(t) PROVE SslInv'
<1>p. th[t].pc = "fail" /\ th[t].pc \in HandlerPcs  BY PcsAre DEF Fail
<1>c. PICK c \in Conn : c = th[t].conn  BY <1>p, OwnerKnows
<1>o. ConnOK(c) /\ TypeOK /\ sc[c] = "live"  BY <1>p, <1>c, OwnerKnows
<1>1. /\ sc' = [sc EXCEPT ![c] = "freed"] /\ maps' = [maps EXCEPT ![c] = @ - 1]
      /\ st' = [st EXCEPT ![c] = "closed"] /\ armed' = [armed EXCEPT ![c] = {}]
      /\ UNCHANGED <<client, larmed, sock, hs, want, slot, last>>
  BY <1>c DEF Fail
<1>2. PICK l \in {"listen", "event"} : Go(t, l)  BY DEF Fail
<1>3. hs \in [Conn -> 0 .. Len(Flights) + 1] /\ maps \in [Conn -> 0 .. 2]  BY <1>o, Ranges
<1>4. maps[c] = 1 + (IF hs[c] > Len(Flights) THEN 1 ELSE 0)  BY <1>o DEF ConnOK
<1>5. /\ maps' \in [Conn -> 0 .. 2] /\ maps'[c] = maps[c] - 1
      /\ \A e \in Conn \ {c} : maps'[e] = maps[e]
  BY <1>1, <1>3, <1>4
<1>6. hs' \in [Conn -> 0 .. Len(Flights) + 1] /\ hs' = hs  BY <1>1, <1>3
<1>7. maps'[c] = (IF hs'[c] > Len(Flights) THEN 1 ELSE 0)  BY <1>4, <1>5, <1>6
<1>8. \A e \in Conn \ {c} : hs'[e] = hs[e] /\ maps'[e] = maps[e]  BY <1>5, <1>6
<1>9. maps' \in [Conn -> 0 .. 2]  BY <1>5
<1>10. /\ sc' = [sc EXCEPT ![c] = "freed"] /\ st' = [st EXCEPT ![c] = "closed"]
       /\ armed' = [armed EXCEPT ![c] = {}] /\ UNCHANGED <<client, larmed, sock, want, slot, last>>
  BY <1>1
<1> QED BY <1>c, <1>p, <1>2, <1>6, <1>7, <1>8, <1>9, <1>10, Closes
-----------------------------------------------------------------------------
(* Registration, delivery and re-arming.                                     *)

\* The owner of a connection arms its item for dirs and leaves it.
LEMMA ArmsAndLeaves ==
    ASSUME SslInv, NEW t \in Thr, NEW c \in Conn, c = th[t].conn, th[t].pc \in HandlerPcs,
           NEW dirs \in SUBSET {"R", "W"}, NEW l \in {"listen", "event"}, Go(t, l),
           want[c] \in dirs, Served(c), dirs = {"R", "W"} => slot[c] = DataTxRx,
           armed' = [armed EXCEPT ![c] = dirs],
           UNCHANGED <<client, larmed, st, sock, hs, want, sc, maps, slot, last>>
    PROVE  SslInv'
<1>o. ThreadOK(t) /\ ConnOK(c) /\ TypeOK /\ sc[c] = "live"  BY OwnerKnows
<1>r. armed \in [Conn -> SUBSET {"R", "W"}]  BY <1>o, Ranges
<1>1. /\ armed' \in [Conn -> SUBSET {"R", "W"}] /\ armed'[c] = dirs
      /\ \A e \in Conn \ {c} : armed'[e] = armed[e]
  BY <1>r
<1>2. /\ th' \in [Thr -> ThreadType] /\ \A u \in Thr \ {t} : th'[u] = th[u]
      /\ th'[t].conn = c /\ th'[t].ev = th[t].ev /\ th'[t].pc = l
  BY <1>o, GoStep, PcsAre
<1>3. TypeOK'  BY <1>o, <1>1, <1>2 DEF TypeOK, ThreadType
<1>4. th'[t].ev = {}  BY <1>o, <1>2 DEF ThreadOK
<1>5. ThreadOK(t)'  BY <1>2, <1>4, PcsAre DEF ThreadOK
<1>6. ConnOK(c)'  BY <1>o, <1>1 DEF ConnOK
<1>7. ~Owns(t, c)'  BY <1>2, <1>4, PcsAre DEF Owns
<1>8. ArmedOK(c)'  BY <1>1 DEF ArmedOK, Served
<1>9. \A e \in Conn \ {c} : /\ st'[e] = st[e] /\ hs'[e] = hs[e] /\ want'[e] = want[e]
                            /\ sc'[e] = sc[e] /\ maps'[e] = maps[e] /\ slot'[e] = slot[e]
                            /\ armed'[e] = armed[e] /\ last'[e] = last[e]
  BY <1>1
<1>10. client' = client  OBVIOUS
<1> QED BY <1>2, <1>3, <1>5, <1>6, <1>7, <1>8, <1>9, <1>10, OwnerFrame

\* torque_addfd_unbuffered() arms the item for the handler there is.
LEMMA AddFdStep == ASSUME SslInv, NEW t \in Thr, AddFd(t) PROVE SslInv'
<1>p. th[t].pc = "add" /\ th[t].pc \in HandlerPcs  BY PcsAre DEF AddFd
<1>c. PICK c \in Conn : c = th[t].conn  BY <1>p, OwnerKnows
<1>o. ThreadOK(t) /\ ConnOK(c) /\ TypeOK  BY <1>p, <1>c, OwnerKnows
<1>1. UNCHANGED <<client, larmed, st, sock, hs, want, sc, maps, slot, last>>  BY DEF AddFd
<1> DEFINE dirs == (IF slot[c].rx = Null THEN {} ELSE {"R"}) \cup (IF slot[c].tx = Null THEN {} ELSE {"W"})
<1>2. CASE armed' = [armed EXCEPT ![c] = dirs] /\ Go(t, "listen")
  <2>1. Served(c) /\ slot[c] \in Pairs  BY <1>o, <1>p, <1>c DEF ThreadOK, ConnOK
  <2>2. want[c] \in {"R", "W"}  BY <1>o, Ranges
  <2>3. want[c] \in dirs
    <3>1. CASE want[c] = "R"  BY <2>1, <3>1 DEF Served
    <3>2. CASE want[c] = "W"  BY <2>1, <3>2 DEF Served
    <3> QED BY <2>2, <3>1, <3>2
  <2>4. slot[c].rx = Null \/ slot[c].tx = Null
    BY <2>1 DEF Pairs, Nothing, AcceptRx, AcceptTx, DataRx, DataTxRx, DataTx
  <2>5. dirs \in SUBSET {"R", "W"} /\ dirs # {"R", "W"}
    <3>1. "R" \notin dirs \/ "W" \notin dirs  BY <2>4
    <3>2. "R" \in {"R", "W"} /\ "W" \in {"R", "W"}  OBVIOUS
    <3>3. dirs \in SUBSET {"R", "W"}  OBVIOUS
    <3> HIDE DEF dirs
    <3> QED BY <3>1, <3>2, <3>3, Zenon
  <2> HIDE DEF dirs
  <2> QED BY <1>c, <1>p, <1>1, <1>2, <2>1, <2>3, <2>5, ArmsAndLeaves
<1>3. CASE Go(t, "fail") /\ UNCHANGED armed
  <2>1. sock' \in [Conn -> SockType]  BY <1>1, <1>o DEF TypeOK, SockType
  <2> QED BY <1>p, <1>1, <1>3, <2>1, HandlerMoves
<1> QED BY <1>c, <1>2, <1>3 DEF AddFd

\* restorefd() arms the item for what its handler said.
LEMMA ArmStep == ASSUME SslInv, NEW t \in Thr, Arm(t) PROVE SslInv'
<1>p. th[t].pc = "arm" /\ th[t].pc \in HandlerPcs  BY PcsAre DEF Arm
<1>c. PICK c \in Conn : c = th[t].conn  BY <1>p, OwnerKnows
<1>o. ThreadOK(t) /\ TypeOK  BY <1>p, <1>c, OwnerKnows
<1>1. UNCHANGED <<client, larmed, st, sock, hs, want, sc, maps, slot, last>>  BY DEF Arm
<1>2. CASE armed' = [armed EXCEPT ![c] = th[t].arm] /\ Go(t, "event")
  <2>1. PICK dirs \in SUBSET {"R", "W"} : dirs = th[t].arm  BY <1>o DEF TypeOK
  <2>2. want[c] \in dirs /\ Served(c) /\ (dirs = {"R", "W"} => slot[c] = DataTxRx)
    BY <1>o, <1>p, <1>c, <2>1 DEF ThreadOK
  <2>3. armed' = [armed EXCEPT ![c] = dirs]  BY <1>2, <2>1
  <2> QED BY <1>c, <1>p, <1>1, <1>2, <2>2, <2>3, ArmsAndLeaves
<1>3. CASE Go(t, "fail") /\ UNCHANGED armed
  <2>1. sock' \in [Conn -> SockType]  BY <1>1, <1>o DEF TypeOK, SockType
  <2> QED BY <1>p, <1>1, <1>3, <2>1, HandlerMoves
<1> QED BY <1>c, <1>2, <1>3 DEF Arm

\* epoll_wait(2) gives the item's events to one thread and disarms it.
LEMMA PollStep == ASSUME SslInv, NEW t \in Thr, NEW c \in Conn, Poll(t, c) PROVE SslInv'
<1>y. TypeOK /\ ThreadOK(t) /\ ConnOK(c)  BY DEF SslInv
<1>1. /\ th[t].pc = "poll"
      /\ UNCHANGED <<client, larmed, st, sock, hs, want, sc, maps, slot, last>>
      /\ armed' = [armed EXCEPT ![c] = {}]
  BY DEF Poll
<1>2. PICK ev : ev = armed[c] \cap Level(c)  OBVIOUS
<1>3. ev # {} /\ th' = [th EXCEPT ![t].pc = "event", ![t].conn = c, ![t].ev = ev]
  BY <1>2 DEF Poll
<1>4. armed \in [Conn -> SUBSET {"R", "W"}]  BY <1>y, Ranges
<1>5. ev \in SUBSET {"R", "W"} /\ ev \subseteq armed[c] /\ armed[c] # {}  BY <1>2, <1>3, <1>4
<1>6. /\ armed' \in [Conn -> SUBSET {"R", "W"}] /\ armed'[c] = {}
      /\ \A d \in Conn \ {c} : armed'[d] = armed[d]
  BY <1>1, <1>4
<1>7. /\ th' \in [Thr -> ThreadType] /\ \A u \in Thr \ {t} : th'[u] = th[u]
      /\ th'[t].pc = "event" /\ th'[t].conn = c /\ th'[t].ev = ev
  <2> DEFINE r == [th[t] EXCEPT !.pc = "event", !.conn = c, !.ev = ev]
  <2>1. th \in [Thr -> ThreadType] /\ th[t] \in ThreadType  BY <1>y DEF TypeOK, ThreadType
  <2>2. r \in ThreadType /\ r.pc = "event" /\ r.conn = c /\ r.ev = ev
    BY <2>1, <1>5, PcsAre DEF ThreadType
  <2>3. th' = [th EXCEPT ![t] = r]  BY <2>1, <1>3
  <2> HIDE DEF r
  <2> QED BY <2>1, <2>2, <2>3
<1>8. \A u \in Thr : ~Owns(u, c)  BY <1>5 DEF SslInv, OwnerOK
<1>9. sc[c] = "live" /\ st[c] = "open"  BY <1>y, <1>5 DEF ConnOK
<1>10. TypeOK'  BY <1>y, <1>1, <1>6, <1>7 DEF TypeOK, ThreadType
<1>11. \A d \in Conn : ~Owns(t, d)  BY <1>1, PcsAre DEF Owns
<1>12. \A d \in Conn \ {c} : ~Owns(t, d)'  BY <1>7 DEF Owns
<1>13. ThreadOK(t)'
  <2>1. ev = {"R", "W"} => slot[c] = DataTxRx
    <3>1. ASSUME ev = {"R", "W"} PROVE armed[c] = {"R", "W"}
      <4>1. armed[c] \in SUBSET {"R", "W"}  BY <1>4
      <4> QED BY <1>5, <3>1, <4>1
    <3> QED BY <3>1, <1>y DEF ConnOK
  <2> QED BY <1>1, <1>7, <2>1, PcsAre DEF ThreadOK
<1>14. ConnOK(c)'
  <2>1. {} # {"R", "W"}  OBVIOUS
  <2> QED BY <1>y, <1>1, <1>6, <2>1 DEF ConnOK
<1>15. Owns(t, c)'  BY <1>3, <1>7 DEF Owns
<1>16. ArmedOK(c)'  BY <1>15 DEF ArmedOK
<1>17. /\ client' = client
       /\ \A d \in Conn \ {c} : /\ st'[d] = st[d] /\ hs'[d] = hs[d] /\ want'[d] = want[d]
                                /\ sc'[d] = sc[d] /\ maps'[d] = maps[d] /\ slot'[d] = slot[d]
                                /\ armed'[d] = armed[d] /\ last'[d] = last[d]
  BY <1>1, <1>6
<1>18. armed'[c] = {} /\ st'[c] = "open" /\ sc'[c] = "live"  BY <1>1, <1>6, <1>9
<1> QED BY <1>7, <1>8, <1>10, <1>11, <1>12, <1>13, <1>14, <1>16, <1>17, <1>18, Frame
\* handle_event() has handled all of an event.
LEMMA EventOver ==
    ASSUME SslInv, NEW t \in Thr, th[t].pc = "event", th[t].ev = {}, th' = [th EXCEPT ![t] = Idle],
           UNCHANGED <<client, larmed, st, sock, hs, want, sc, maps, slot, armed, last>>
    PROVE  SslInv'
<1>y. TypeOK  BY DEF SslInv
<1>1. Idle \in ThreadType /\ Idle.pc = "poll" /\ Idle.ev = {}
  <2>1. (CHOOSE c \in Conn : TRUE) \in Conn  BY SslAssumption
  <2> QED BY <2>1 DEF Idle, ThreadType, Pcs
<1>2. th \in [Thr -> ThreadType]  BY <1>y DEF TypeOK, ThreadType
<1>3. /\ th' \in [Thr -> ThreadType] /\ \A u \in Thr \ {t} : th'[u] = th[u]
      /\ th'[t].pc = "poll" /\ th'[t].ev = {}
  BY <1>1, <1>2
<1>4. TypeOK'  BY <1>y, <1>3 DEF TypeOK, ThreadType
<1>5. \A d \in Conn : ~Owns(t, d) /\ ~Owns(t, d)'  BY <1>3, PcsAre DEF Owns
<1>6. ThreadOK(t)'  BY <1>3, PcsAre DEF ThreadOK
<1> QED BY <1>3, <1>4, <1>5, <1>6, IdleFrame

\* handle_event() calls a handler, or finds none.
LEMMA HandlerCalled ==
    ASSUME SslInv, NEW t \in Thr, HandleEvent(t), th[t].ev # {}
    PROVE  SslInv'
<1>p. th[t].pc = "event"  BY DEF HandleEvent
<1>c. PICK c \in Conn : c = th[t].conn  BY <1>p, OwnerKnows
<1>o. /\ armed[c] = {} /\ st[c] = "open" /\ sc[c] = "live"
      /\ ThreadOK(t) /\ ConnOK(c) /\ TypeOK
  BY <1>p, <1>c, OwnerKnows
<1>1. PICK d : d = IF "R" \in th[t].ev THEN "R" ELSE "W"  OBVIOUS
<1>2. PICK fn : fn = IF d = "R" THEN slot[c].rx ELSE slot[c].tx  OBVIOUS
<1>3. PICK p : p = IF fn = Null THEN "event" ELSE Entry(fn)  OBVIOUS
<1>4. PICK ev : ev = th[t].ev \ {d}  OBVIOUS
<1>5. /\ last' = [last EXCEPT ![c] = fn]
      /\ th' = [th EXCEPT ![t].ev = ev, ![t].fn = fn, ![t].pc = p]
      /\ UNCHANGED <<client, larmed, st, sock, hs, want, sc, maps, slot, armed>>
  BY <1>c, <1>1, <1>2, <1>3, <1>4 DEF HandleEvent
<1>6. th[t].ev \in SUBSET {"R", "W"}  BY <1>o DEF TypeOK
<1>7. slot[c] \in Pairs /\ (slot[c] \in {AcceptRx, AcceptTx} => hs[c] <= Len(Flights))
  BY <1>o DEF ConnOK
<1>8. ev \in SUBSET {"R", "W"} /\ ev # {"R", "W"}
  <2>1. ev \in SUBSET {"R", "W"} /\ d \notin ev /\ d \in {"R", "W"}  BY <1>1, <1>4, <1>6
  <2> QED BY <2>1, Zenon
<1>9. ev = {} \/ fn = Null
  <2>1. CASE th[t].ev = {"R", "W"}
    <3>1. slot[c] = DataTxRx  BY <1>o, <1>p, <1>c, <2>1 DEF ThreadOK
    <3>2. d = "R"  BY <1>1, <2>1
    <3> QED BY <1>2, <3>1, <3>2 DEF DataTxRx
  <2>2. CASE th[t].ev # {"R", "W"}
    <3>1. th[t].ev = {"R"} \/ th[t].ev = {"W"}  BY <1>6, <2>2
    <3> QED BY <3>1, <1>1, <1>4
  <2> QED BY <2>1, <2>2
<1>10. \/ fn = Null /\ p = "event"
       \/ fn \in {"accept_contrxfxn", "accept_conttxfxn"} /\ p = "hs" /\ hs[c] <= Len(Flights)
       \/ fn = "ssl_rxfxn" /\ p = "read" /\ slot[c] = DataRx
       \/ fn = "ssl_txrxfxn" /\ p = "read" /\ slot[c] = DataTxRx
       \/ fn = "ssl_txfxn" /\ p = "txcb"
  <2>1. CASE slot[c] = Nothing  BY <2>1, <1>2, <1>3 DEF Nothing
  <2>2. CASE slot[c] = AcceptRx  BY <2>2, <1>2, <1>3, <1>7 DEF AcceptRx, Entry, Null
  <2>3. CASE slot[c] = AcceptTx  BY <2>3, <1>2, <1>3, <1>7 DEF AcceptTx, Entry, Null
  <2>4. CASE slot[c] = DataRx
    <3>1. fn = Null \/ fn = "ssl_rxfxn"  BY <2>4, <1>2 DEF DataRx
    <3> QED BY <2>4, <3>1, <1>3 DEF Entry, Null
  <2>5. CASE slot[c] = DataTxRx
    <3>1. fn = Null \/ fn = "ssl_txrxfxn"  BY <2>5, <1>2 DEF DataTxRx
    <3> QED BY <2>5, <3>1, <1>3 DEF Entry, Null
  <2>6. CASE slot[c] = DataTx  BY <2>6, <1>2, <1>3 DEF DataTx, Entry, Null
  <2> QED BY <1>7, <2>1, <2>2, <2>3, <2>4, <2>5, <2>6 DEF Pairs
<1>11. fn \in Handlers \cup {Null} /\ p \in Pcs
  BY <1>10, PcsAre DEF Handlers
<1>12. /\ th' \in [Thr -> ThreadType] /\ \A u \in Thr \ {t} : th'[u] = th[u]
       /\ th'[t].pc = p /\ th'[t].conn = c /\ th'[t].ev = ev /\ th'[t].fn = fn
  <2> DEFINE r == [th[t] EXCEPT !.ev = ev, !.fn = fn, !.pc = p]
  <2>1. th \in [Thr -> ThreadType] /\ th[t] \in ThreadType  BY <1>o DEF TypeOK, ThreadType
  <2>2. r \in ThreadType /\ r.pc = p /\ r.conn = c /\ r.ev = ev /\ r.fn = fn
    BY <2>1, <1>c, <1>8, <1>11 DEF ThreadType
  <2>3. th' = [th EXCEPT ![t] = r]  BY <2>1, <1>5
  <2> HIDE DEF r
  <2> QED BY <2>1, <2>2, <2>3
<1>13. last \in [Conn -> Handlers \cup {Null}]  BY <1>o, Ranges
<1>14. /\ last' \in [Conn -> Handlers \cup {Null}] /\ last'[c] = fn
       /\ \A e \in Conn \ {c} : last'[e] = last[e]
  BY <1>5, <1>11, <1>13
<1>15. TypeOK'  BY <1>o, <1>5, <1>12, <1>14 DEF TypeOK, ThreadType
<1>16. ThreadOK(t)'
  <2>1. p \in HandlerPcs => fn # Null
    BY <1>10, PcsAre DEF Null
  <2>2. slot'[c] = slot[c] /\ hs'[c] = hs[c]  BY <1>5
  <2> QED BY <1>8, <1>9, <1>10, <1>12, <1>14, <2>1, <2>2, PcsAre DEF ThreadOK
<1>17. ConnOK(c)'  BY <1>o, <1>5 DEF ConnOK
<1>18. Owns(t, c)' => armed'[c] = {} /\ st'[c] = "open" /\ sc'[c] = "live" /\ th'[t].pc # "create"
  BY <1>o, <1>5, <1>10, <1>12
<1>19. ArmedOK(c)'
  <2>1. CASE fn = Null
    <3>1. last'[c] \in Stranding  BY <1>14, <2>1 DEF Stranding
    <3> QED BY <3>1 DEF ArmedOK
  <2>2. CASE fn # Null
    <3>1. Owns(t, c)'  BY <1>10, <1>12, <2>2, PcsAre DEF Owns
    <3> QED BY <3>1 DEF ArmedOK
  <2> QED BY <2>1, <2>2
<1>20. /\ client' = client
       /\ \A e \in Conn \ {c} : /\ st'[e] = st[e] /\ hs'[e] = hs[e] /\ want'[e] = want[e]
                                /\ sc'[e] = sc[e] /\ maps'[e] = maps[e] /\ slot'[e] = slot[e]
                                /\ armed'[e] = armed[e] /\ last'[e] = last[e]
  BY <1>5, <1>14
<1> QED BY <1>c, <1>p, <1>12, <1>15, <1>16, <1>17, <1>18, <1>19, <1>20, OwnerFrame

\* ssl_txfxn() leaves the item disarmed, or fails.
LEMMA TxCallbackStep == ASSUME SslInv, NEW t \in Thr, TxCallback(t) PROVE SslInv'
<1>p. th[t].pc = "txcb" /\ th[t].pc \in HandlerPcs  BY PcsAre DEF TxCallback
<1>c. PICK c \in Conn : c = th[t].conn  BY <1>p, OwnerKnows
<1>o. ThreadOK(t) /\ ConnOK(c) /\ TypeOK  BY <1>p, <1>c, OwnerKnows
<1>1. UNCHANGED <<client, larmed, st, sock, hs, want, sc, maps, slot, armed, last>>
  BY DEF TxCallback
<1>2. CASE Go(t, "event")
  <2>1. /\ th' \in [Thr -> ThreadType] /\ \A u \in Thr \ {t} : th'[u] = th[u]
        /\ th'[t].pc = "event" /\ th'[t].conn = c /\ th'[t].ev = th[t].ev
    BY <1>2, <1>c, <1>o, GoStep, PcsAre
  <2>2. th'[t].ev = {} /\ last[c] = "ssl_txfxn"  BY <1>o, <1>p, <1>c, <2>1 DEF ThreadOK
  <2>3. TypeOK'  BY <1>o, <1>1, <2>1 DEF TypeOK, ThreadType
  <2>4. ThreadOK(t)'  BY <2>1, <2>2, PcsAre DEF ThreadOK
  <2>5. ConnOK(c)'  BY <1>o, <1>1 DEF ConnOK
  <2>6. ~Owns(t, c)'  BY <2>1, <2>2, PcsAre DEF Owns
  <2>7. ArmedOK(c)'  BY <1>1, <2>2 DEF ArmedOK, Stranding
  <2> QED BY <1>c, <1>p, <1>1, <2>1, <2>3, <2>4, <2>5, <2>6, <2>7, OwnerFrame
<1>3. CASE Go(t, "fail")
  <2>1. sock' \in [Conn -> SockType]  BY <1>1, <1>o DEF TypeOK, SockType
  <2> QED BY <1>p, <1>1, <1>3, <2>1, HandlerMoves
<1> QED BY <1>2, <1>3 DEF TxCallback

\* SSL_read() has no more: the handlers change places and the item is to be
\* armed for what OpenSSL waits for.
LEMMA SslReadBlockedStep == ASSUME SslInv, NEW t \in Thr, SslReadBlocked(t) PROVE SslInv'
<1>p. th[t].pc = "read" /\ th[t].pc \in HandlerPcs  BY PcsAre DEF SslReadBlocked
<1>c. PICK c \in Conn : c = th[t].conn  BY <1>p, OwnerKnows
<1>o. /\ armed[c] = {} /\ st[c] = "open" /\ sc[c] = "live"
      /\ ThreadOK(t) /\ ConnOK(c) /\ TypeOK
  BY <1>p, <1>c, OwnerKnows
<1>1. UNCHANGED <<client, larmed, st, sock, hs, sc, maps, armed, last>>
  BY DEF SslReadBlocked
<1>2. /\ th[t].ev = {} /\ last[c] = th[t].fn
      /\ \/ th[t].fn = "ssl_rxfxn" /\ slot[c] = DataRx
         \/ th[t].fn = "ssl_txrxfxn" /\ slot[c] = DataTxRx
  BY <1>o, <1>p, <1>c DEF ThreadOK
<1>3. /\ want \in [Conn -> {"R", "W"}]
      /\ slot \in [Conn -> [rx : Handlers \cup {Null}, tx : Handlers \cup {Null}]]
  BY <1>o, Ranges
<1>4. DataRx \in Pairs /\ DataTxRx \in Pairs  BY DEF Pairs
<1>5. \E d \in {"R", "W"}, dirs \in SUBSET {"R", "W"}, s \in Pairs :
        /\ d \in dirs /\ (IF d = "R" THEN s.rx ELSE s.tx) # Null /\ s \in {DataRx, DataTxRx}
        /\ dirs = {"R", "W"} => s = DataTxRx
        /\ want' = [want EXCEPT ![c] = d] /\ GoArm(t, dirs)
        /\ slot' = [slot EXCEPT ![c] = s]
  <2>1. \/ /\ want' = [want EXCEPT ![c] = "R"] /\ GoArm(t, {"R"})
           /\ IF th[t].fn = "ssl_txrxfxn" THEN SetEvsource(c, "ssl_rxfxn", Null) ELSE UNCHANGED slot
        \/ /\ want' = [want EXCEPT ![c] = "W"] /\ GoArm(t, {"R", "W"})
           /\ IF th[t].fn = "ssl_txrxfxn" THEN UNCHANGED slot ELSE SetEvsource(c, Null, "ssl_txrxfxn")
    BY <1>c DEF SslReadBlocked
  <2>2. CASE want' = [want EXCEPT ![c] = "R"] /\ GoArm(t, {"R"})
             /\ IF th[t].fn = "ssl_txrxfxn" THEN SetEvsource(c, "ssl_rxfxn", Null) ELSE UNCHANGED slot
    <3>1. slot' = [slot EXCEPT ![c] = DataRx]
      <4>1. CASE th[t].fn = "ssl_txrxfxn"  BY <2>2, <4>1 DEF SetEvsource, DataRx
      <4>2. CASE th[t].fn = "ssl_rxfxn" /\ slot[c] = DataRx
        BY <2>2, <4>2, <1>3
      <4> QED BY <1>2, <4>1, <4>2
    <3>2. DataRx.rx # Null  BY DEF DataRx, Null
    <3>3. {"R"} # {"R", "W"} /\ {"R"} \in SUBSET {"R", "W"} /\ "R" \in {"R"}
      <4>1. "W" \notin {"R"} /\ "W" \in {"R", "W"}  OBVIOUS
      <4>2. {"R"} \in SUBSET {"R", "W"} /\ "R" \in {"R"}  OBVIOUS
      <4> QED BY <4>1, <4>2, Zenon
    <3>4. want' = [want EXCEPT ![c] = "R"] /\ GoArm(t, {"R"})  BY <2>2
    <3>5. "R" \in {"R", "W"} /\ (IF "R" = "R" THEN DataRx.rx ELSE DataRx.tx) # Null
      BY <3>2
    <3> QED BY <1>4, <3>1, <3>3, <3>4, <3>5
  <2>3. CASE want' = [want EXCEPT ![c] = "W"] /\ GoArm(t, {"R", "W"})
             /\ IF th[t].fn = "ssl_txrxfxn" THEN UNCHANGED slot ELSE SetEvsource(c, Null, "ssl_txrxfxn")
    <3>1. slot' = [slot EXCEPT ![c] = DataTxRx]
      <4>1. CASE th[t].fn = "ssl_rxfxn"  BY <2>3, <4>1 DEF SetEvsource, DataTxRx
      <4>2. CASE th[t].fn = "ssl_txrxfxn" /\ slot[c] = DataTxRx
        BY <2>3, <4>2, <1>3
      <4> QED BY <1>2, <4>1, <4>2
    <3>2. DataTxRx.tx # Null  BY DEF DataTxRx, Null
    <3>4. want' = [want EXCEPT ![c] = "W"] /\ GoArm(t, {"R", "W"})  BY <2>3
    <3>5. "W" \in {"R", "W"} /\ (IF "W" = "R" THEN DataTxRx.rx ELSE DataTxRx.tx) # Null
      BY <3>2
    <3> QED BY <1>4, <3>1, <3>4, <3>5
  <2> QED BY <2>1, <2>2, <2>3
<1>6. PICK d \in {"R", "W"}, dirs \in SUBSET {"R", "W"}, s \in Pairs :
        /\ d \in dirs /\ (IF d = "R" THEN s.rx ELSE s.tx) # Null /\ s \in {DataRx, DataTxRx}
        /\ dirs = {"R", "W"} => s = DataTxRx
        /\ want' = [want EXCEPT ![c] = d] /\ GoArm(t, dirs)
        /\ slot' = [slot EXCEPT ![c] = s]
  BY <1>5
<1>7. /\ want' \in [Conn -> {"R", "W"}] /\ want'[c] = d
      /\ \A e \in Conn \ {c} : want'[e] = want[e]
  BY <1>3, <1>6
<1>8. /\ slot' \in [Conn -> [rx : Handlers \cup {Null}, tx : Handlers \cup {Null}]] /\ slot'[c] = s
      /\ \A e \in Conn \ {c} : slot'[e] = slot[e]
  BY <1>3, <1>6, PairsAreSlots
<1>9. /\ th' \in [Thr -> ThreadType] /\ \A u \in Thr \ {t} : th'[u] = th[u]
      /\ th'[t].pc = "arm" /\ th'[t].conn = c /\ th'[t].ev = th[t].ev /\ th'[t].fn = th[t].fn
      /\ th'[t].arm = dirs
  BY <1>6, <1>c, <1>o, GoArmStep
<1>10. TypeOK'  BY <1>o, <1>1, <1>7, <1>8, <1>9 DEF TypeOK, ThreadType
<1>11. ThreadOK(t)'
  <2>1. Served(c)'  BY <1>6, <1>7, <1>8 DEF Served
  <2>2. last'[c] = last[c] /\ d \in dirs /\ (dirs = {"R", "W"} => s = DataTxRx)  BY <1>1, <1>6
  <2> QED BY <1>2, <1>7, <1>8, <1>9, <2>1, <2>2 DEF ThreadOK
<1>12. ConnOK(c)'
  <2>1. s \notin {AcceptRx, AcceptTx}
    BY <1>6 DEF DataRx, DataTxRx, AcceptRx, AcceptTx, Null
  <2>2. {} # {"R", "W"}  OBVIOUS
  <2> QED BY <1>o, <1>1, <1>8, <2>1, <2>2 DEF ConnOK
<1>13. Owns(t, c)' /\ th'[t].pc # "create"  BY <1>9, PcsAre DEF Owns
<1>14. ArmedOK(c)'  BY <1>13 DEF ArmedOK
<1>15. /\ client' = client /\ armed'[c] = {} /\ st'[c] = "open" /\ sc'[c] = "live"
       /\ \A e \in Conn \ {c} : /\ st'[e] = st[e] /\ hs'[e] = hs[e] /\ want'[e] = want[e]
                                /\ sc'[e] = sc[e] /\ maps'[e] = maps[e] /\ slot'[e] = slot[e]
                                /\ armed'[e] = armed[e] /\ last'[e] = last[e]
  BY <1>o, <1>1, <1>7, <1>8
<1> QED BY <1>c, <1>p, <1>9, <1>10, <1>11, <1>12, <1>13, <1>14, <1>15, OwnerFrame

-----------------------------------------------------------------------------
(* Theorems.                                                                 *)

\* Every step keeps the invariant.
LEMMA SslStep == ASSUME SslInv, [Next]_vars PROVE SslInv'
<1>1. CASE Next
  <2>1. ASSUME NEW t \in Thr, Step(t) PROVE SslInv'
    <3>1. CASE HandleEvent(t)
      <4>1. CASE th[t].ev = {}
        <5>1. /\ th[t].pc = "event" /\ th' = [th EXCEPT ![t] = Idle]
              /\ UNCHANGED <<client, larmed, st, sock, hs, want, sc, maps, slot, armed, last>>
          BY <3>1, <4>1 DEF HandleEvent
        <5> QED BY <4>1, <5>1, EventOver
      <4>2. CASE th[t].ev # {}  BY <3>1, <4>2, HandlerCalled
      <4> QED BY <4>1, <4>2
    <3> QED BY <2>1, <3>1, AcceptStep, ListenerStep, CreateStep, HsAdvanceStep, HsDoneStep,
               HsBlockedStep, FailingStep, AddFdStep, FailStep, ArmStep, SslReadStep,
               SslReadBlockedStep, CallbackStep, TxCallbackStep
            DEF Step
  <2> QED BY <1>1, <2>1, OutsideStep, ListenerStep, PollStep DEF Next
<1>2. CASE UNCHANGED vars
  <2>1. UNCHANGED <<client, larmed, st, sock, hs, want, sc, maps, slot, armed, last, th>>
    BY <1>2 DEF vars
  <2> USE <2>1 DEF SslInv
  <2>2. TypeOK'  BY DEF TypeOK
  <2>3. \A t \in Thr : \A c \in Conn : Owns(t, c)' <=> Owns(t, c)  BY DEF Owns
  <2>4. Alone'  BY <2>3 DEF Alone
  <2>5. \A t \in Thr : OwnerOK(t)'  BY <2>3 DEF OwnerOK
  <2>6. \A t \in Thr : ThreadOK(t)'  BY DEF ThreadOK, Served
  <2>7. \A c \in Conn : ConnOK(c)'  BY DEF ConnOK
  <2>8. \A c \in Conn : ArmedOK(c)'  BY <2>3 DEF ArmedOK, Served
  <2> QED BY <2>2, <2>4, <2>5, <2>6, <2>7, <2>8 DEF OneCallback
<1> QED BY <1>1, <1>2

\* The invariant holds of a server with one callback whose writes go through.
LEMMA SslInvariant == OneCallback /\ Spec => []SslInv
BY SslInit, SslStep, PTL DEF Spec
\* Every variable of Ssl stays within its range; no connection ever has more
\* than the two receive buffers protos/ssl.c maps for it.
THEOREM SslTyping == OneCallback /\ Spec => []TypeOK
<1>1. SslInv => TypeOK  BY DEF SslInv
<1> QED BY <1>1, SslInvariant, PTL

\* Two threads are never inside handlers of one TLS connection.
THEOREM HandlersExclusive == OneCallback /\ Spec => []ExclusiveHandler
<1>1. SslInv => ExclusiveHandler
  <2>1. \A t \in Thr : \A c \in Conn : In(t, c) => Owns(t, c)  BY DEF In, Owns
  <2> QED BY <2>1 DEF SslInv, Alone, ExclusiveHandler
<1> QED BY <1>1, SslInvariant, PTL

\* A handler of protos/ssl.c never runs on a freed ssl_cbstate, and
\* free_ssl_cbstate() runs exactly when the connection is closed.
THEOREM StateSafe == OneCallback /\ Spec => []StateOutlivesHandlers
<1>1. SslInv => StateOutlivesHandlers
  <2> SUFFICES ASSUME SslInv PROVE StateOutlivesHandlers
    OBVIOUS
  <2>1. ASSUME NEW c \in Conn, NEW t \in Thr, In(t, c) PROVE sc[c] = "live" /\ st[c] = "open"
    <3>1. th[t].pc \in HandlerPcs /\ th[t].conn = c  BY <2>1 DEF In
    <3> QED BY <3>1, OwnerKnows
  <2>2. ASSUME NEW c \in Conn
        PROVE  (armed[c] # {} => sc[c] = "live") /\ (st[c] = "closed" => sc[c] # "live")
    <3>1. ConnOK(c)  BY DEF SslInv
    <3> QED BY <3>1 DEF ConnOK
  <2> QED BY <2>1, <2>2 DEF StateOutlivesHandlers
<1> QED BY <1>1, SslInvariant, PTL

\* An open connection no thread is busy with is armed for the direction OpenSSL
\* waits for and has a handler for it, unless a handler that never re-arms was
\* the last to see it.
THEOREM ArmedRight == OneCallback /\ Spec => []ArmedForWhatIsWanted
<1>1. SslInv => ArmedForWhatIsWanted
  <2> SUFFICES ASSUME SslInv, NEW c \in Conn, st[c] = "open", last[c] \notin Stranding,
                      \A t \in Thr : th[t].conn = c => th[t].pc \in {"poll", "listen"}
               PROVE  want[c] \in armed[c] /\ (IF want[c] = "R" THEN slot[c].rx ELSE slot[c].tx) # Null
    BY DEF ArmedForWhatIsWanted
  <2>1. \A t \in Thr : ~Owns(t, c)  BY PcsAre DEF Owns
  <2>2. ArmedOK(c)  BY DEF SslInv
  <2> QED BY <2>1, <2>2 DEF ArmedOK, Served
<1> QED BY <1>1, SslInvariant, PTL

\* A closed connection leaves no mapping behind, or, when its handshake was
\* complete, exactly the buffer initialize_rxbuffer() wrote over.
THEOREM BuffersExact == OneCallback /\ Spec => []BuffersAccounted
<1>1. SslInv => BuffersAccounted
  <2> SUFFICES ASSUME SslInv, NEW c \in Conn, st[c] = "closed"
               PROVE  maps[c] = IF hs[c] > Len(Flights) THEN 1 ELSE 0
    BY DEF BuffersAccounted
  <2>1. ConnOK(c)  BY DEF SslInv
  <2>2. sc[c] # "live"  BY <2>1 DEF ConnOK
  <2>3. maps[c] = 0 + (IF hs[c] > Len(Flights) THEN 1 ELSE 0)  BY <2>1, <2>2 DEF ConnOK
  <2> QED BY <2>3
<1> QED BY <1>1, SslInvariant, PTL
=============================================================================
