------------------------------ MODULE MCSources -----------------------------
(* Instances of Sources for TLC.                                             *)
EXTENDS Sources

AllKinds ==
    [o \in {"ctx", "thread", "timer", "signal", "lookup1", "lookup2", "connect", "fd", "ssl", "sslctx"} |->
        CASE o = "ctx" -> "init" [] o \in {"lookup1", "lookup2"} -> "lookup" [] OTHER -> o]
AllObjects == DOMAIN AllKinds
Signos == [o \in {"signal"} |-> 3]
NoTimers == {}

\* Every call may fail but adns_beforepoll() in torque_addlookup_dns(),
\* adns_processany() and restore_dns_fds()
Names(seq) == {seq[i].call : i \in DOMAIN seq}
MostFaults ==
    (UNION {{k} \X Names(CASE k = "init" -> TorqueInit [] k = "thread" -> SpawnThread \o CreateEvhandler
                             [] k = "timer" -> AddTimer [] k = "signal" -> AddSignal [] k = "lookup" -> AddLookup
                             [] k = "connect" -> AddConnector [] k = "fd" -> AddFd
                             [] k = "ssl" -> InitSsl [] k = "sslctx" -> SslCtx) : k \in Kinds}
     \cup {<<"connected", "connect">>}) \ {<<"lookup", "load">>}
=============================================================================
