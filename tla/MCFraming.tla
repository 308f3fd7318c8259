----------------------------- MODULE MCFraming ------------------------------
(* Frames up to one byte beyond the limit, datagrams up to one beyond the buffer. *)
EXTENDS Framing

FewFrames == {<<0>>, <<1>>, <<0, 0>>}
FewDatagrams == {<<7>>, <<8, 1, 2>>}
=============================================================================
