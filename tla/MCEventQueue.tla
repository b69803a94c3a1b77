---------------------------- MODULE MCEventQueue ----------------------------
(* Instances of EventQueue for TLC.                                          *)
EXTENDS EventQueue

TwoThr == {"t1", "t2"}
TwoFd == {"a", "b"}
OneFd == {"a"}
OnlyBuffered == {"buffered"}
OnlyConcurrent == {"concurrent"}
OneShotClasses == {"buffered", "unbuffered"}
AllClasses == ClassNames
=============================================================================
