-------------------------------- MODULE Fifo --------------------------------
(***************************************************************************)
(* What one direction of a channel between client and server promises:     *)
(* messages arrive whole, once and in order, and are lost only with the    *)
(* channel, the latest first.                                              *)
(***************************************************************************)
EXTENDS Naturals, Sequences

CONSTANT Messages

VARIABLES
    sent,       \* the message accepted last, <<>> before the first
    chan,       \* messages accepted and not handled yet
    last,       \* the message handled last, <<>> before the first
    broken      \* has the channel broken?

vars == <<sent, chan, last, broken>>

Init == sent = <<>> /\ chan = <<>> /\ last = <<>> /\ broken = FALSE

\* What is sent after the break is lost.
Send ==
    /\ \E m \in Messages :
          sent' = m /\ chan' = IF broken THEN chan ELSE Append(chan, m)
    /\ UNCHANGED <<last, broken>>

Receive ==
    /\ chan # <<>>
    /\ last' = Head(chan)
    /\ chan' = Tail(chan)
    /\ UNCHANGED <<sent, broken>>

Break ==
    /\ broken' = TRUE
    /\ \E n \in 0..Len(chan) : chan' = SubSeq(chan, 1, n)
    /\ UNCHANGED <<sent, last>>

Next == Send \/ Receive \/ Break

Spec == Init /\ [][Next]_vars
=============================================================================
