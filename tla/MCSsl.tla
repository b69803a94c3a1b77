------------------------------- MODULE MCSsl --------------------------------
(* Instances of Ssl for TLC.                                                 *)
EXTENDS Ssl

TwoThr == {"t1", "t2"}
OneConn == {"c"}
OneCallback == {"rx", "tx"}
RxOnly == {"rx"}
HandshakeFlights == <<"R", "W", "R", "W">>
=============================================================================
