----------------------------- MODULE MCFakeTcp ------------------------------
(* Instances of FakeTcp for TLC.                                            *)
EXTENDS FakeTcp
=============================================================================
