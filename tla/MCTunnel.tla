------------------------------ MODULE MCTunnel ------------------------------
(* Instances of Tunnel for TLC.                                             *)
EXTENDS Tunnel

MCOptions == {<<"faketcp", 0>>, <<"udp", 1>>}
=============================================================================
