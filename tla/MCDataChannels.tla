--------------------------- MODULE MCDataChannels ---------------------------
(* TLC instances of DataChannels.                                           *)
EXTENDS DataChannels

CONSTANTS t1, u1, v1, v2, v3
=============================================================================
