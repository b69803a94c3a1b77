----------------------------- MODULE MCHardware -----------------------------
(* Instances of Hardware for TLC.                                            *)
EXTENDS Hardware

Machine(vendor, max, tpc, cores, pkgs, order, kinds) ==
    [vendor |-> vendor, max |-> max, tpc |-> tpc, cores |-> cores, pkgs |-> pkgs,
     order |-> order, kinds |-> kinds]

AllMachines ==
    {Machine("intel", 11, 1, 2, 2, o, <<"a", "b">>) : o \in {"threads", "cores"}}
    \cup {Machine("intel", 11, 2, 2, 1, o, <<"a">>) : o \in {"threads", "cores"}}
    \cup {Machine("intel", 11, 2, 1, 2, o, <<"a", "b">>) : o \in {"threads", "cores"}}
    \cup {Machine("intel", 11, 1, 3, 1, "cores", <<"a">>), Machine("intel", 4, 2, 2, 1, "cores", <<"a">>),
          Machine("intel", 2, 1, 1, 2, "cores", <<"a", "a">>), Machine("intel", 0, 1, 1, 1, "cores", <<"a">>),
          Machine("amd", 13, 1, 2, 2, "cores", <<"a", "b">>), Machine("via", 1, 1, 1, 1, "cores", <<"a">>),
          Machine("other", 1, 1, 1, 1, "cores", <<"a">>)}
MixedAmd == {Machine("amd", 13, 1, 2, 2, "cores", <<"a", "b">>)}
AllMasks == SUBSET (0 .. 3)
BothPads == {0, 1}
OnePad == {0}
TwoGpus == <<"g", "g">>
Tlbs == [k \in {"a", "b", "g"} |->
            CASE k = "a" -> <<4, 2, 2048>> [] k = "b" -> <<4, 4096, 1024>> [] k = "g" -> <<>>]
AllFaults == FaultNames
=============================================================================
