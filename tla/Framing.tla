------------------------------ MODULE Framing -------------------------------
(***************************************************************************)
(* The byte streams between client and server: length-prefixed frames on   *)
(* a control channel (protocol.rs write_frame, read_frame) and datagrams   *)
(* on the data channel of a UDP port (protocol.rs UdpTraffic).  Both sides *)
(* write and read at once; bytes move one by one, so a message may be half *)
(* read when something else happens, and pipes and queues fill up.         *)
(*                                                                         *)
(* A stream is named after the side that writes it.  A message is its      *)
(* sequence of bytes; the first one of a datagram is the address it is     *)
(* from.  The u32 length and the length of a header are one byte each.     *)
(***************************************************************************)
EXTENDS Naturals, Sequences, FiniteSetsExt

CONSTANTS
    Frames, Datagrams,      \* what may be sent on each kind of channel
    MAX_FRAME,
    UDP_BUFFER_SIZE,
    UdpPacketLen,           \* number of values of the u16 length
    PipeCapacity,           \* bytes a socket takes before a write waits
    QueueCapacity,          \* mpsc::channel(8) between reader and loop
    MaxFrames, MaxDatagrams \* bounds: messages each side sends

ASSUME SizesAssumption ==
    /\ MAX_FRAME \in Nat /\ PipeCapacity \in Nat \ {0} /\ QueueCapacity \in Nat \ {0}
    /\ UDP_BUFFER_SIZE \in Nat /\ UdpPacketLen \in Nat /\ UDP_BUFFER_SIZE < UdpPacketLen
ASSUME MessagesAssumption ==
    Frames \subseteq Seq(Nat) /\ Datagrams \subseteq Seq(Nat) \ {<<>>}

VARIABLES
    kind,       \* "control" or "udp"
    left,       \* messages each side may still send
    sent,       \* the message each side sent last
    out,        \* bytes the current write has not put into the pipe
    pipe,       \* bytes in flight
    rd,         \* the read in progress at the other end of each stream
    queue,      \* messages read and not handled
    last,       \* the message handled last
    loop,       \* is the side's loop running?
    cut,        \* is the connection broken?
    flight      \* history: messages whose last byte went into the pipe and
                \* that their reader has not delivered; none once it failed

vars == <<kind, left, sent, out, pipe, rd, queue, last, loop, cut, flight>>

Sides == {"client", "server"}
Peer(s) == IF s = "client" THEN "server" ELSE "client"

-----------------------------------------------------------------------------
(* The formats *)

Messages == IF kind = "control" THEN Frames ELSE Datagrams

\* recv_from into a buffer of fixed size: the rest of a datagram is cut off.
Truncated(m) == SubSeq(m, 1, Min({Len(m), 1 + UDP_BUFFER_SIZE}))
Received(m) == IF kind = "control" THEN m ELSE Truncated(m)

\* write_frame: length and body.  write_slice: length of the header, the header
\* (from, `len as u16`), the data.
Encode(m) ==
    IF kind = "control" THEN <<Len(m)>> \o m
    ELSE <<2, m[1], (Len(m) - 1) % UdpPacketLen>> \o Tail(m)

Fresh == [at |-> "length", need |-> 1, buf |-> <<>>]
Failed == [at |-> "failed", need |-> 1, buf |-> <<>>]

\* read_frame: a length beyond MAX_FRAME is an error.  read_u8 of the pool.
AfterLength(b) ==
    IF kind = "control" /\ b > MAX_FRAME THEN Failed
    ELSE [at |-> IF kind = "control" THEN "body" ELSE "header", need |-> b, buf |-> <<>>]

\* UdpTraffic::read: a header that is no header is an error.
AfterHeader(hdr) ==
    IF Len(hdr) # 2 THEN Failed
    ELSE [at |-> "body", need |-> hdr[2], buf |-> <<hdr[1]>>]

\* A byte arrives at read_u32, read_u8 or read_exact.
Step(r, b) ==
    CASE r.at = "length" -> AfterLength(b)
      [] r.at = "header" -> IF r.need = 1 THEN AfterHeader(Append(r.buf, b))
                            ELSE [r EXCEPT !.need = @ - 1, !.buf = Append(@, b)]
      [] r.at = "body"   -> [r EXCEPT !.need = @ - 1, !.buf = Append(@, b)]
      [] OTHER           -> r

Complete(r) == r.at = "body" /\ r.need = 0

-----------------------------------------------------------------------------
(* The writers: the loops at both ends, the outbound task of a UDP channel *)

\* The server's UDP pool reads and handles a datagram inside its select loop.
InHandler(s) ==
    kind = "udp" /\ s = "server" /\ (rd["client"] # Fresh \/ queue["client"] # <<>>)

\* The loop of a control channel and the UDP pool write and handle in turn; the
\* client of a UDP channel has a task for each direction.
Writing(s) == out[s] # <<>> /\ ~(kind = "udp" /\ s = "client")

\* Mutant: the frame is read in the select! itself, and any other branch that
\* becomes ready drops the read half-way.
WriteCancelsRead(s, m) ==
    /\ loop[s] /\ out[s] = <<>> /\ ~InHandler(s) /\ left[s] > 0
    /\ kind = "control" => Len(m) <= MAX_FRAME
    /\ out' = [out EXCEPT ![s] = Encode(Received(m))]
    /\ left' = [left EXCEPT ![s] = @ - 1]
    /\ sent' = [sent EXCEPT ![s] = Received(m)]
    /\ rd' = [rd EXCEPT ![Peer(s)] = IF kind = "control" THEN Fresh ELSE @]
    /\ UNCHANGED <<kind, pipe, queue, last, loop, cut, flight>>

\* Some branch of the loop sends a frame; a datagram is forwarded.
Write(s, m) ==
    /\ loop[s] /\ out[s] = <<>> /\ ~InHandler(s) /\ left[s] > 0
    /\ kind = "control" => Len(m) <= MAX_FRAME
    /\ out' = [out EXCEPT ![s] = Encode(Received(m))]
    /\ left' = [left EXCEPT ![s] = @ - 1]
    /\ sent' = [sent EXCEPT ![s] = Received(m)]
    /\ UNCHANGED <<kind, pipe, rd, queue, last, loop, cut, flight>>

\* The loop ends: the reader is aborted and both halves of the socket dropped.
\* What the peer has not read may still reach it or not.
EndsLoop(s) ==
    /\ loop' = [loop EXCEPT ![s] = FALSE]
    /\ cut' = TRUE
    /\ out' = [out EXCEPT ![s] = <<>>]
    /\ rd' = [rd EXCEPT ![Peer(s)] = Failed]
    /\ queue' = [queue EXCEPT ![Peer(s)] = <<>>]
    /\ flight' = [flight EXCEPT ![Peer(s)] = <<>>]
    /\ \E n \in 0..Len(pipe[s]) :
          pipe' = [pipe EXCEPT ![s] = SubSeq(@, 1, n), ![Peer(s)] = <<>>]
    /\ UNCHANGED <<kind, left, sent, last>>

\* "Frame too large": nothing was written, and the error ends the loop.
WriteRefused(s) ==
    /\ kind = "control" /\ loop[s] /\ out[s] = <<>> /\ left[s] > 0
    /\ \E m \in Frames : Len(m) > MAX_FRAME
    /\ EndsLoop(s)

Flush(s) ==
    /\ ~cut /\ out[s] # <<>> /\ Len(pipe[s]) < PipeCapacity
    /\ pipe' = [pipe EXCEPT ![s] = Append(@, Head(out[s]))]
    /\ out' = [out EXCEPT ![s] = Tail(@)]
    /\ flight' = [flight EXCEPT ![s] = IF Len(out[s]) = 1 THEN Append(@, sent[s]) ELSE @]
    /\ UNCHANGED <<kind, left, sent, rd, queue, last, loop, cut>>

\* On a broken connection a write fails, or the kernel still takes the bytes.
\* The outbound task of a UDP client fails alone; its loop goes on reading.
WriteFails(s) == cut /\ Writing(s) /\ loop[s] /\ EndsLoop(s)

WriteLost(s) ==
    /\ cut /\ out[s] # <<>>
    /\ out' = [out EXCEPT ![s] = <<>>]
    /\ UNCHANGED <<kind, left, sent, pipe, rd, queue, last, loop, cut, flight>>

-----------------------------------------------------------------------------
(* The readers: a task of its own beside each loop, or the UDP pool *)

CanRead(s) ==
    /\ loop[Peer(s)] /\ rd[s].at # "failed" /\ ~Complete(rd[s])
    /\ kind = "udp" => ~Writing(Peer(s))

\* Mutant: no task of its own: reads wait for the loop's writes.
ReadBetweenWrites(s) ==
    /\ CanRead(s) /\ pipe[s] # <<>> /\ ~Writing(Peer(s))
    /\ rd' = [rd EXCEPT ![s] = Step(@, Head(pipe[s]))]
    /\ pipe' = [pipe EXCEPT ![s] = Tail(@)]
    /\ UNCHANGED <<kind, left, sent, out, queue, last, loop, cut, flight>>

Read(s) ==
    /\ CanRead(s) /\ pipe[s] # <<>>
    /\ rd' = [rd EXCEPT ![s] = Step(@, Head(pipe[s]))]
    /\ pipe' = [pipe EXCEPT ![s] = Tail(@)]
    /\ UNCHANGED <<kind, left, sent, out, queue, last, loop, cut, flight>>

\* The end of the stream, anywhere in a message.
ReadFails(s) ==
    /\ CanRead(s) /\ pipe[s] = <<>> /\ cut
    /\ rd' = [rd EXCEPT ![s] = Failed]
    /\ flight' = [flight EXCEPT ![s] = <<>>]
    /\ UNCHANGED <<kind, left, sent, out, pipe, queue, last, loop, cut>>

\* deserialize, and `frame_tx.send(r).await`, which waits for a place.
Deliver(s) ==
    /\ loop[Peer(s)] /\ Complete(rd[s]) /\ Len(queue[s]) < QueueCapacity
    /\ IF rd[s].buf \in {Received(m) : m \in Messages}
       THEN /\ queue' = [queue EXCEPT ![s] = Append(@, rd[s].buf)]
            /\ rd' = [rd EXCEPT ![s] = Fresh]
            /\ flight' = [flight EXCEPT ![s] = Tail(@)]
       ELSE /\ rd' = [rd EXCEPT ![s] = Failed]
            /\ flight' = [flight EXCEPT ![s] = <<>>]
            /\ UNCHANGED queue
    /\ UNCHANGED <<kind, left, sent, out, pipe, last, loop, cut>>

\* The loop takes a message from the queue and handles it.
Handle(s) ==
    /\ loop[Peer(s)] /\ ~Writing(Peer(s)) /\ queue[s] # <<>>
    /\ last' = [last EXCEPT ![s] = Head(queue[s])]
    /\ queue' = [queue EXCEPT ![s] = Tail(@)]
    /\ UNCHANGED <<kind, left, sent, out, pipe, rd, loop, cut, flight>>

\* The loop takes the reader's error from the queue.
HandleError(s) ==
    /\ loop[Peer(s)] /\ ~Writing(Peer(s)) /\ queue[s] = <<>> /\ rd[s].at = "failed"
    /\ EndsLoop(Peer(s))

\* Shutdown, the heartbeat timed out, or the process ends.
Stop(s) == loop[s] /\ out[s] = <<>> /\ ~InHandler(s) /\ EndsLoop(s)

\* The network breaks the connection; of what is in flight any prefix arrives.
Cut ==
    /\ ~cut /\ cut' = TRUE
    /\ \E n \in 0..Len(pipe["client"]), k \in 0..Len(pipe["server"]) :
          pipe' = [s \in Sides |-> SubSeq(pipe[s], 1, IF s = "client" THEN n ELSE k)]
    /\ UNCHANGED <<kind, left, sent, out, rd, queue, last, loop, flight>>

Init ==
    /\ kind \in {"control", "udp"}
    /\ left = [s \in Sides |-> IF kind = "control" THEN MaxFrames ELSE MaxDatagrams]
    /\ sent = [s \in Sides |-> <<>>]
    /\ out = [s \in Sides |-> <<>>]
    /\ pipe = [s \in Sides |-> <<>>]
    /\ rd = [s \in Sides |-> Fresh]
    /\ queue = [s \in Sides |-> <<>>]
    /\ last = [s \in Sides |-> <<>>]
    /\ loop = [s \in Sides |-> TRUE]
    /\ cut = FALSE
    /\ flight = [s \in Sides |-> <<>>]

Next ==
    \/ \E s \in Sides :
          \/ \E m \in Messages : Write(s, m)
          \/ WriteRefused(s) \/ Flush(s) \/ WriteFails(s) \/ WriteLost(s)
          \/ Read(s) \/ ReadFails(s) \/ Deliver(s) \/ Handle(s) \/ HandleError(s)
          \/ Stop(s)
    \/ Cut

\* Tasks run when they can: sockets move bytes, select! is fair between ready
\* branches.  Nobody has to send, to stop or to break the connection.
Spec ==
    /\ Init /\ [][Next]_vars
    /\ \A s \in Sides :
          /\ WF_vars(Flush(s))
          /\ WF_vars(WriteFails(s) \/ WriteLost(s))
          /\ WF_vars(Read(s) \/ ReadFails(s))
          /\ WF_vars(Deliver(s))
          /\ WF_vars(Handle(s) \/ HandleError(s))

-----------------------------------------------------------------------------
(* Properties *)

\* The messages that are somewhere between the two loops: queued, half read, in
\* the pipe, half written.
InTransit(s) ==
    queue[s] \o flight[s] \o (IF cut \/ out[s] = <<>> THEN <<>> ELSE <<sent[s]>>)

Arriving == Frames \cup {Truncated(m) : m \in Datagrams}
ToClient == INSTANCE Fifo WITH Messages <- Arriving, sent <- sent["server"],
    chan <- InTransit("server"), last <- last["server"], broken <- cut
ToServer == INSTANCE Fifo WITH Messages <- Arriving, sent <- sent["client"],
    chan <- InTransit("client"), last <- last["client"], broken <- cut

\* Each direction of a channel is a queue: what a side wrote arrives whole, once
\* and in order, however the bytes are cut into pieces, whatever else happens
\* while a message is half read (`read_frame` is not cancel-safe, client.rs:716),
\* up to the size limits, until the connection breaks.
InOrder == ToClient!Spec /\ ToServer!Spec

\* Both loops are in a write, and every buffer between them is full.
Jammed == \A s \in Sides :
    out[s] # <<>> /\ Len(pipe[s]) = PipeCapacity /\ Len(queue[s]) = QueueCapacity

\* On a control channel every frame that was written is handled in the end,
\* unless the connection ends first or all buffers in both directions fill up:
\* a loop that waits in a write does not keep its reader from draining the pipe.
EveryFrameHandled ==
    kind = "control" =>
        \A s \in Sides : InTransit(s) # <<>> ~> cut \/ Jammed \/ InTransit(s) = <<>>
=============================================================================
