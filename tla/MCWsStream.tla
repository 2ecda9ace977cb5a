----------------------------- MODULE MCWsStream -----------------------------
(* The instance TLC checks.  Every constant of WsStream is a bound or a switch,
   so a configuration gives them all their values and this module adds none.
   The operations are five distinct roles: no symmetry is sound between them.  *)
EXTENDS WsStream
=============================================================================
