------------------------------- MODULE Sources ------------------------------
(***************************************************************************)
(* Who owns what: the constructors of the library with the cleanup of each *)
(* of their failures, and the event sources that do not carry a byte       *)
(* stream (timers, signals, DNS lookups, connecting sockets) from          *)
(* registration to the client's callback.                                  *)
(*                                                                         *)
(* A constructor is a sequence of calls.  Each may fail, and then the code *)
(* releases what the call's "undo" names; a call in Yields leaves a        *)
(* resource <<object, call>> when it succeeds.  Client threads run the     *)
(* constructors of different objects concurrently, with each other and     *)
(* with the event threads.                                                 *)
(***************************************************************************)
EXTENDS Naturals, Sequences, FiniteSets

CONSTANTS
    Objects,   \* the context and what clients register
    Kind,      \* the constructor of each object
    Signo,     \* the signal of each object of kind "signal"
    SigMax,    \* SIGRTMAX, the size of the signal table
    Periodic,  \* timers with an interval
    Clients,   \* bound: objects clients begin to register in one behaviour
    Faults     \* pairs of constructor or handler, and call, that may fail

Kinds == {"init", "thread", "timer", "signal", "lookup", "connect", "fd", "ssl", "sslctx"}

ASSUME SourcesAssumption ==
    /\ Kind \in [Objects -> Kinds] /\ {SigMax, Clients} \subseteq Nat \ {0} /\ Periodic \subseteq Objects
    /\ Signo \in [{o \in Objects : Kind[o] = "signal"} -> 1 .. SigMax]
    /\ \E o \in Objects : Kind[o] = "init"

VARIABLES
    at,       \* constructors: calls that have succeeded
    st,       \* objects: none, building, armed, pending, answered, delivered, failed, ...
    owned,    \* resources allocated and not released
    fault,    \* something was released or used that was not there
    slots,    \* sigarray: whose callback each signal has
    edge,     \* objects with an event the event queue has not reported yet
    reading,  \* signal objects whose signalfd_demultiplexer() runs
    dns,      \* the adns socket: is the one-shot registration armed?
    dnsh      \* where adns_rx_callback() is

vars == <<at, st, owned, fault, slots, edge, reading, dns, dnsh>>
evvars == <<slots, edge, reading, dns, dnsh>>

-----------------------------------------------------------------------------
(* The constructors.                                                         *)

Call(name, undo) == [call |-> name, undo |-> undo]

\* A callee's calls, when the caller also releases res if the callee fails
Under(res, calls) == [i \in DOMAIN calls |-> Call(calls[i].call, calls[i].undo \cup res)]

Etables == {"signalfd", "sigarray", "fdarray"}    \* free_etables()
Evqueue == {"efd", "dns"}                         \* destroy_evqueue()
Context == Etables \cup Evqueue \cup {"arch", "ctx"}   \* free_torque_ctx()

\* initialize_common_sources(): the signalfd stays open if sigaction() fails
CommonSources == <<Call("signalfd", {}), Call("handlers", {})>>
InitializeEtables ==
    <<Call("fdarray", {}), Call("sigarray", {"fdarray"})>>
    \o Under({"sigarray", "fdarray"}, CommonSources)

\* add_evqueue_baseevents(): the adns sockets, then the common signalfd
BaseEvents == <<Call("dnsfds", {}), Call("commonfd", {})>>

\* Mutant: the epoll descriptor is not closed when the base events fail
InitEvqueueMutant == <<Call("dns", {}), Call("efd", {"dns"})>> \o Under({"dns"}, BaseEvents)
InitEvqueue == <<Call("dns", {}), Call("efd", {"dns"})>> \o Under(Evqueue, BaseEvents)

CreateTorqueCtx ==
    <<Call("ctx", {})>> \o Under({"ctx"}, InitializeEtables) \o Under(Etables \cup {"ctx"}, InitEvqueue)

\* torque_init().  detect_cputypes() spawns the threads and reaps them when
\* it fails; when the devices or the memory cannot be told they are left.
TorqueInit == CreateTorqueCtx \o <<Call("arch", Context \ {"arch"}), Call("devices", Context),
                                Call("unmask", Context)>>

\* spawn_thread() up to pthread_create(), and the new thread's evhandler
SetupThreadStack == <<Call("attr", {}), Call("stack", {"attr"}), Call("setstack", {"stack", "attr"})>>
SpawnThread ==
    SetupThreadStack \o <<Call("lock", {"stack", "attr"}), Call("cond", {"lock", "stack", "attr"}),
                          Call("create", {"lock", "cond", "stack", "attr"})>>
Guard == {"attr", "lock", "cond"}   \* destroyed before spawn_thread() returns
CreateEvhandler ==
    Under(Guard, <<Call("evh", {}), Call("events", {"evh"}), Call("ctldata", {"events", "evh"})>>)

AddTimer ==
    <<Call("marshal", {}), Call("fd", {"marshal"}), Call("settime", {"fd", "marshal"}),
      Call("add", {"fd", "marshal"})>>
AddSignal == <<Call("mask", {}), Call("fd", {}), Call("add", {"fd"})>>
AddLookup == <<Call("marshal", {}), Call("submit", {"marshal"}), Call("load", {"marshal"})>>

\* connect() in progress; one that succeeds at once goes on as torque_addfd()
AddConnector == <<Call("connect", {}), Call("marshal", {}), Call("add", {"marshal"})>>

\* torque_addfd(): free_rxbuffercb() leaves the torque_rxbufcb itself
AddFd == <<Call("cb", {}), Call("buffer", {"cb"}), Call("add", {"buffer"})>>

\* torque_init_ssl(), torque_ssl_ctx()
InitSsl ==
    <<Call("library", {}), Call("entropy", {}), Call("numlocks", {}), Call("locks", {}), Call("mutexes", {"locks"})>>
SslCtx ==
    <<Call("sslctx", {}), Call("options", {"sslctx"}), Call("sessionid", {"sslctx"}),
      Call("cafile", {"sslctx"}), Call("keyfile", {"sslctx"})>>

CallsOf(o) ==
    CASE Kind[o] = "init" -> TorqueInit [] Kind[o] = "thread" -> SpawnThread \o CreateEvhandler
      [] Kind[o] = "timer" -> AddTimer [] Kind[o] = "signal" -> AddSignal
      [] Kind[o] = "lookup" -> AddLookup [] Kind[o] = "connect" -> AddConnector
      [] Kind[o] = "fd" -> AddFd [] Kind[o] = "ssl" -> InitSsl [] Kind[o] = "sslctx" -> SslCtx
Calls == [o \in Objects |-> CallsOf(o)]

Yields == Context \cup Guard \cup {"stack", "evh", "events", "ctldata", "marshal", "fd", "cb", "buffer",
                                   "locks", "sslctx"}

ctx == CHOOSE o \in Objects : Kind[o] = "init"
Running == st[ctx] = "armed"
Sourced == {o \in Objects : Kind[o] \in {"timer", "signal", "connect", "lookup"}}
Of(o, names) == {<<o, r>> : r \in names}

Init ==
    /\ at = [o \in Objects |-> 0] /\ st = [o \in Objects |-> "none"]
    /\ owned = {} /\ fault = FALSE /\ slots = [z \in 1 .. SigMax - 1 |-> "none"]
    /\ edge = {} /\ reading = {} /\ dns = FALSE /\ dnsh = "none"

\* The evhandlers of the threads that run
Threads == {t \in Objects : Kind[t] = "thread" /\ st[t] = "armed"}
Evhandlers == UNION {Of(t, {"evh", "events", "ctldata"}) : t \in Threads}
Reaped(s) == [o \in Objects |-> IF o \in Threads THEN "stopped" ELSE s[o]]

\* What is freed must still be there
Release(set) == owned' = owned \ set /\ fault' = (fault \/ ~(set \subseteq owned))

MayCall(o) ==
    /\ st[o] \in {"none", "building"}
       \/ (Kind[o] \in {"lookup", "timer"} /\ st[o] \in {"armed", "pending", "answered", "delivered"})
    /\ at[o] < Len(Calls[o])
    /\ st[o] = "none" /\ Kind[o] \notin {"init", "thread"} =>
          Cardinality({x \in Objects : st[x] # "none" /\ Kind[x] \notin {"init", "thread"}}) < Clients
    /\ CASE Kind[o] = "init" ->    \* bound: a client that uses TLS sets it up first
              \A x \in Objects : Kind[x] \in {"ssl", "sslctx"} => st[x] \in {"none", "armed"}
         [] Kind[o] \in {"ssl", "sslctx"} -> st[ctx] = "none"
         [] Kind[o] = "thread" -> st[ctx] = "building" /\ Calls[ctx][at[ctx] + 1].call = "arch"
         [] OTHER -> Running

\* The next call of a constructor fails, and it returns an error
CallFails(o) ==
    LET c == Calls[o][at[o] + 1] reaps == c.call = "arch" \/ (Kind[o] = "init" /\ c.call = "unmask")
        failed == [st EXCEPT ![o] = "failed"] IN
    /\ MayCall(o) /\ <<Kind[o], c.call>> \in Faults
    /\ Release(Of(o, c.undo) \cup (IF reaps THEN Evhandlers ELSE {}))
    /\ st' = IF reaps THEN Reaped(failed) ELSE failed
    /\ edge' = edge \ {o} /\ UNCHANGED <<at, slots, reading, dns, dnsh>>

\* It succeeds.  A timer runs, and a query is out, before the constructor
\* has returned; torque_addsignal() sets the slots before it has a signalfd.
CallSucceeds(o) ==
    LET c == Calls[o][at[o] + 1].call
        last == at[o] + 1 = Len(Calls[o])
        got == owned \cup (IF c \in Yields THEN {<<o, c>>} ELSE {}) IN
    /\ MayCall(o) /\ at' = [at EXCEPT ![o] = @ + 1]
    /\ Kind[o] = "init" /\ c = "arch" =>
          \A t \in Objects : Kind[t] = "thread" => st[t] = "armed"
    /\ st' = [st EXCEPT ![o] = IF @ \notin {"none", "building"} THEN @
                               ELSE IF last \/ c \in {"settime", "submit"} THEN "armed" ELSE "building"]
    /\ owned' = IF Kind[o] = "thread" /\ last THEN got \ Of(o, Guard) ELSE got
    /\ slots' = IF c = "mask" /\ Signo[o] < SigMax THEN [slots EXCEPT ![Signo[o]] = o] ELSE slots
    /\ dns' = (dns \/ c = "dnsfds")
    /\ UNCHANGED <<fault, edge, reading, dnsh>>

-----------------------------------------------------------------------------
(* The world outside.                                                        *)

\* A timer expires, a signal is raised, a socket connects, an answer arrives
Happens(o) ==
    /\ Running /\ o \in Sourced
    /\ st[o] = "armed" \/ (st[o] = "delivered" /\ o \in Periodic)
    /\ st' = [st EXCEPT ![o] = "pending"] /\ edge' = edge \cup {o}
    /\ UNCHANGED <<at, owned, fault, slots, reading, dns, dnsh>>

-----------------------------------------------------------------------------
(* The event threads.                                                        *)

Registered(o) == Running /\ at[o] = Len(Calls[o])

\* timer_passthru(), timer_curry(): the callback, then the marshal is freed;
\* the timerfd is neither read nor closed
TimerEvent(o) ==
    /\ Kind[o] = "timer" /\ Registered(o) /\ o \in edge /\ edge' = edge \ {o}
    /\ Release({<<o, "marshal">>}) /\ st' = [st EXCEPT ![o] = "delivered"]
    /\ UNCHANGED <<at, slots, reading, dns, dnsh>>

\* conn_unbuffered_txfxn(): when connect() fails again nobody is told
ConnectEvent(o) ==
    /\ Kind[o] = "connect" /\ Registered(o) /\ o \in edge /\ edge' = edge \ {o}
    /\ \/ st' = [st EXCEPT ![o] = "delivered"] /\ Release({<<o, "marshal">>})
       \/ /\ <<"connected", "connect">> \in Faults
          /\ st' = [st EXCEPT ![o] = "lost"] /\ UNCHANGED <<owned, fault>>
    /\ UNCHANGED <<at, slots, reading, dns, dnsh>>

\* signalfd_demultiplexer(): reads until EAGAIN, a signal at a time
SignalEvent(o) ==
    /\ Kind[o] = "signal" /\ Registered(o) /\ o \in edge /\ o \notin reading
    /\ edge' = edge \ {o} /\ reading' = reading \cup {o}
    /\ UNCHANGED <<at, st, owned, fault, slots, dns, dnsh>>

\* The callback is the table's, for the signal read; the table has no entry
\* for SIGRTMAX and the one behind its end is used
ReadSignal(o) ==
    /\ o \in reading
    /\ \/ /\ st[o] = "pending" /\ st' = [st EXCEPT ![o] = "armed"]
          /\ fault' = (fault \/ Signo[o] = SigMax) /\ UNCHANGED reading
       \/ st[o] # "pending" /\ reading' = reading \ {o} /\ UNCHANGED <<st, fault>>
    /\ UNCHANGED <<at, owned, slots, edge, dns, dnsh>>

\* The adns socket is readable
DnsEvent ==
    /\ Running /\ dns /\ dnsh = "none" /\ \E o \in Objects : Kind[o] = "lookup" /\ st[o] = "pending"
    /\ dns' = FALSE /\ dnsh' = "process" /\ UNCHANGED <<at, st, owned, fault, slots, edge, reading>>

\* adns_processany(): an error leaves the one-shot socket unarmed for good
DnsProcess ==
    /\ dnsh = "process"
    /\ \/ /\ dnsh' = "check"
          /\ st' = [o \in Objects |-> IF Kind[o] = "lookup" /\ st[o] = "pending" THEN "answered" ELSE st[o]]
       \/ <<"lookup", "processany">> \in Faults /\ dnsh' = "none" /\ UNCHANGED st
    /\ UNCHANGED <<at, owned, fault, slots, edge, reading, dns>>

\* "while(adns_check() == 0)": callback, then its marshal is freed
DnsCheck ==
    /\ dnsh = "check"
    /\ \/ \E o \in Objects :
            /\ Kind[o] = "lookup" /\ st[o] = "answered" /\ st' = [st EXCEPT ![o] = "delivered"]
            /\ Release({<<o, "marshal">>}) /\ UNCHANGED dnsh
       \/ /\ \A o \in Objects : st[o] # "answered"
          /\ dnsh' = "restore" /\ UNCHANGED <<st, owned, fault>>
    /\ UNCHANGED <<at, slots, edge, reading, dns>>

\* Mutant: the callback returns without arming the socket again
DnsRestoreMutant == dnsh = "restore" /\ dnsh' = "none" /\ UNCHANGED <<at, st, owned, fault, slots, edge, reading, dns>>

\* restore_dns_fds(): the failure of adns_beforepoll() or restorefd() is
\* ignored, and leaves the one-shot socket unarmed for good
DnsRestore ==
    /\ dnsh = "restore" /\ dnsh' = "none"
    /\ dns' = TRUE \/ (<<"lookup", "restore">> \in Faults /\ UNCHANGED dns)
    /\ UNCHANGED <<at, st, owned, fault, slots, edge, reading>>

-----------------------------------------------------------------------------
(* The end.                                                                  *)

\* torque_stop(), torque_block(): every thread has destroyed its evhandler
\* and been joined before the context is freed
TorqueStop ==
    /\ Running /\ reading = {} /\ dnsh = "none"
    /\ \A o \in Objects : st[o] \in {"none", "failed", "stopped"} \/ at[o] = Len(Calls[o])
    /\ Release(Of(ctx, Context) \cup Evhandlers)
    /\ st' = Reaped([st EXCEPT ![ctx] = "stopped"]) /\ UNCHANGED <<at, slots, edge, reading, dns, dnsh>>

\* torque_stop_ssl(), by a client whose torque_init_ssl() succeeded
StopSsl(o) ==
    /\ Kind[o] = "ssl" /\ st[o] = "armed" /\ st[ctx] \in {"none", "failed", "stopped"} /\ Release({<<o, "locks">>})
    /\ st' = [st EXCEPT ![o] = "stopped"] /\ UNCHANGED <<at, slots, edge, reading, dns, dnsh>>

Handle(o) == TimerEvent(o) \/ ConnectEvent(o) \/ SignalEvent(o) \/ ReadSignal(o)
Dns == DnsEvent \/ DnsProcess \/ DnsCheck \/ DnsRestore

Next ==
    \/ \E o \in Objects : CallSucceeds(o) \/ CallFails(o) \/ Happens(o) \/ Handle(o) \/ StopSsl(o)
    \/ Dns \/ TorqueStop

Spec == Init /\ [][Next]_vars

\* Event threads poll for ever, and a handler or a constructor that has begun
\* runs to its end (each has a bounded number of calls, so fairness for all
\* together is enough); nothing is promised of clients, timers or the network
Proceed == \E o \in Objects : at[o] > 0 /\ (CallSucceeds(o) \/ CallFails(o))
FairSpec == Spec /\ WF_vars(Proceed) /\ WF_vars(Dns) /\ \A o \in Sourced : WF_vars(Handle(o))

-----------------------------------------------------------------------------
(* Properties.                                                               *)

\* The leaks of the code: the common signalfd when sigaction() fails, the
\* torque_rxbufcb when a descriptor cannot be added, the timerfd of a timer
\* that has expired, the conncb of a connection that failed, the stack of
\* every thread once it was created.
Leaked(o, r) ==
    \/ Kind[o] = "init" /\ r = "signalfd" /\ st[o] = "failed" /\ Calls[o][at[o] + 1].call = "handlers"
    \/ Kind[o] = "fd" /\ r = "cb" /\ st[o] = "failed"
    \/ Kind[o] = "timer" /\ r = "fd" /\ st[o] = "delivered"
    \/ Kind[o] = "connect" /\ r = "marshal" /\ st[o] = "lost"
    \/ Kind[o] = "thread" /\ r = "stack" /\ at[o] >= Len(SpawnThread)

\* Nothing is released or used after its release, whichever call fails and
\* however events race the constructors: a failed constructor and a finished
\* source own nothing but the leaks above, torque_stop() leaves nothing of
\* the context, and while the library runs all of the context is there.
OwnedOnce ==
    /\ ~fault
    /\ Running => Of(ctx, Context) \subseteq owned
    /\ \A o \in Objects : \A r \in Yields :
          <<o, r>> \in owned /\ st[o] \in {"failed", "delivered", "lost", "stopped"} => Leaked(o, r)

\* An expired timer, a raised signal, a completed connect and a DNS answer
\* reach the client's callback, or in the case of a connection are dropped by
\* the code's error path, unless the context is stopped first: no event of an
\* edge-triggered or one-shot registration is lost between the handler's last
\* look and its re-arming.
CallbackRuns ==
    \A o \in Sourced : st[o] \in {"pending", "answered"} ~> (st[o] \notin {"pending", "answered"} \/ ~Running)
=============================================================================
