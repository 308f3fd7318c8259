-------------------------- MODULE MCServerSessions --------------------------
(* TLC instances of ServerSessions: every login is alice's.                 *)
EXTENDS ServerSessions

CONSTANTS c1, c2, alice

OwnerAlice == [c \in Conns |-> alice]
=============================================================================
