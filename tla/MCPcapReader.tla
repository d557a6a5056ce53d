---------------------------- MODULE MCPcapReader ----------------------------
(* Instances of PcapReader for TLC.                                         *)
EXTENDS PcapReader
=============================================================================
