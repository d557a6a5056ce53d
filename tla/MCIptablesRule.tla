--------------------------- MODULE MCIptablesRule ---------------------------
(* Instances of IptablesRule for TLC.                                       *)
EXTENDS IptablesRule
=============================================================================
