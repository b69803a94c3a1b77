----------------------------- MODULE MCThreads -----------------------------
(* Instances of Threads for TLC: which calls, failures and signals a run has. *)
EXTENDS Threads

NoFail == {}
AnyFail == {"spawn", "thread", "mutex", "detect"}

BlockOnly == {"block"}
StopOnly == {"stop"}
NoApi == {}
AnyApi == {"block", "stop", "handlerstop"}

\* the signal arrives while torque_block() is inside pthread_join()
WhileJoining == {"sjoining"}
\* the signal arrives once torque_init() has returned
AfterInit == {"run", "block", "reap", "skill", "sjoin", "sjoining", "sfree", "done"}
\* the signal may arrive as soon as torque_init() runs
AnyPhase == MainLabels
NoPhase == {}
=============================================================================
