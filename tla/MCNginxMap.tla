----------------------------- MODULE MCNginxMap -----------------------------
(* TLC instances of NginxMap.                                               *)
EXTENDS NginxMap

CONSTANTS m1, m2, m3
=============================================================================
