----------------------------- MODULE MCAliases ------------------------------
(* Port 2 is bob's remote port; it may also be a local port of alice.       *)
EXTENDS Aliases

TcpOf(u, l, r, o) == [user |-> u, proto |-> "tcp", local |-> l, remote |-> r, online |-> o]

FewDirectories == {
    {TcpOf("alice", 1, 1, TRUE), TcpOf("bob", 1, 2, TRUE)},
    {TcpOf("alice", 1, 1, TRUE), TcpOf("bob", 1, 2, FALSE)},
    {TcpOf("alice", 2, 1, TRUE), TcpOf("bob", 1, 2, TRUE)},
    {[TcpOf("bob", 1, 2, TRUE) EXCEPT !.proto = "udp"], TcpOf("bob", 2, 1, TRUE)}}
=============================================================================
