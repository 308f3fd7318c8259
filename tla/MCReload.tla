------------------------------ MODULE MCReload ------------------------------
(* TLC instances of Reload: a and b are clients, both is client and server, *)
(* none has no section and bad does not parse.                              *)
EXTENDS Reload

CONSTANTS a, b, both, none, bad

SectionsOf == [c \in Contents |->
    CASE c \in {a, b} -> {"client"} [] c = both -> Modes [] OTHER -> {}]
=============================================================================
