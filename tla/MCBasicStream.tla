---------------------------- MODULE MCBasicStream ----------------------------
(* The instance TLC checks: the constants are bounds and switches, which each
   configuration sets.  Reads and writes differ in connect_op, so there is no
   symmetry to use.                                                            *)
EXTENDS BasicStream
=============================================================================
