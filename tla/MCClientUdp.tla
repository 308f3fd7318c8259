---------------------------- MODULE MCClientUdp -----------------------------
(* TLC instances of ClientUdp.                                              *)
EXTENDS ClientUdp

CONSTANTS v1, v2, f1, f2
=============================================================================
