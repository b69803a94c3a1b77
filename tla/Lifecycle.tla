----------------------------- MODULE Lifecycle -----------------------------
(***************************************************************************)
(* What a libtorque context promises about its threads (doc/termination):  *)
(* they are started by torque_init(), none exits before a termination      *)
(* signal was received, once one was received all of them exit, and the    *)
(* context is released only after the last one.                            *)
(***************************************************************************)
CONSTANT Thread

VARIABLES
    alive,   \* threads that were created and have not exited
    phase    \* "init", "serving", "stopping" or "gone"

lvars == <<alive, phase>>

LInit == alive = {} /\ phase = "init"

Start(t) ==
    /\ phase = "init" /\ t \notin alive
    /\ alive' = alive \cup {t}
    /\ UNCHANGED phase

Serve == phase = "init" /\ phase' = "serving" /\ UNCHANGED alive

\* a termination signal is received by one of the threads
Terminate == phase = "serving" /\ phase' = "stopping" /\ UNCHANGED alive

Exit(t) ==
    /\ phase = "stopping" /\ t \in alive
    /\ alive' = alive \ {t}
    /\ UNCHANGED phase

Release ==
    /\ phase = "stopping" /\ alive = {}
    /\ phase' = "gone"
    /\ UNCHANGED alive

LNext == Serve \/ Terminate \/ Release \/ \E t \in Thread : Start(t) \/ Exit(t)

LSpec == /\ LInit /\ [][LNext]_lvars
         /\ WF_lvars(Release) /\ \A t \in Thread : WF_lvars(Exit(t))
=============================================================================
