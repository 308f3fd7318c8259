----------------------------- MODULE MCMultiMap -----------------------------
(* TLC instance of MultiMap: two users, two nonces, two handles.            *)
EXTENDS MultiMap

CONSTANTS u1, u2, n1, n2, h1, h2, b1, b2, b3
=============================================================================
