----------------------------- MODULE ClientUdp ------------------------------
(***************************************************************************)
(* One UDP data channel of a client (src/src/client.rs,                    *)
(* run_data_channel_for_udp and run_udp_forwarder): the main loop that     *)
(* reads packets of many visitors from the server, one forwarder task per  *)
(* visitor with a bounded queue, the task that writes answers back, and    *)
(* the tokio RwLock around the port map they share.                        *)
(*                                                                         *)
(* The lock is fair: requests are served in the order they were made, so a *)
(* reader waits behind a writer that waits (lockq).  Payloads are left     *)
(* out: a queue is its length.                                             *)
(***************************************************************************)
EXTENDS Naturals, Sequences

CONSTANTS
    Visitors,    \* source addresses
    Fwds,        \* identities for forwarder tasks
    NoFwd,       \* no entry in the port map
    Main,        \* the main loop, as a waiter for the lock
    QueueSize,   \* UDP_SENDQ_SIZE, inbound (1024 in the program)
    OutSize      \* UDP_SENDQ_SIZE, outbound

ASSUME SizesAssumption == QueueSize \in Nat \ {0} /\ OutSize \in Nat \ {0}
ASSUME NamesAssumption == NoFwd \notin Fwds /\ Main \notin Fwds

VARIABLES
    main,     \* where the main loop is
    cur,      \* the visitor of the packet it is handling
    guards,   \* read guards it holds (the first is not dropped when it rereads)
    writing,  \* it holds the write guard
    lockq,    \* tasks waiting for the lock, first come first served
    entry,    \* the port map: the forwarder whose sender is stored per visitor
    fw,       \* state of each forwarder task
    from,     \* the visitor each forwarder serves
    q,        \* length of each forwarder's inbound queue
    refused,  \* forwarders whose socket has a pending "connection refused"
    outq,     \* length of the outbound queue
    writer,   \* the task that drains it is alive
    service,  \* something listens on the local UDP port
    jammed    \* the server's pool waits in write_slice for this client to read

vars == <<main, cur, guards, writing, lockq, entry, fw, from, q, refused, outq, writer, service,
          jammed>>
lockVars == <<guards, writing, lockq>>
fwVars == <<entry, fw, from, q, refused>>
outVars == <<outq, writer, service, jammed>>

-----------------------------------------------------------------------------
(* The main loop *)

\* A packet of visitor v arrives; ask for the first read guard.  Reading makes
\* room in the pipe, so a write of the server's pool goes on.
ReadPacket(v) ==
    /\ main = "read"
    /\ main' = "lookup" /\ cur' = v
    /\ lockq' = Append(lockq, Main)
    /\ jammed' = FALSE
    /\ UNCHANGED <<guards, writing, fwVars, outq, writer, service>>

\* Mutant: every visitor is taken for a new one.
LookupAlwaysMiss ==
    /\ main = "lookup" /\ lockq # <<>> /\ Head(lockq) = Main
    /\ main' = "upgrade"
    /\ lockq' = Append(Tail(lockq), Main)
    /\ UNCHANGED <<cur, guards, writing, fwVars, outVars>>

\* Mutant: the read guard is not dropped before the write guard is asked for.
LookupMissHolding ==
    /\ main = "lookup" /\ lockq # <<>> /\ Head(lockq) = Main
    /\ entry[cur] = NoFwd
    /\ main' = "upgrade"
    /\ guards' = 1
    /\ lockq' = Append(Tail(lockq), Main)
    /\ UNCHANGED <<cur, writing, fwVars, outVars>>

\* Granted.  An unknown visitor: drop the guard and ask for the write guard.
LookupMiss ==
    /\ main = "lookup" /\ lockq # <<>> /\ Head(lockq) = Main
    /\ entry[cur] = NoFwd
    /\ main' = "upgrade"
    /\ lockq' = Append(Tail(lockq), Main)
    /\ UNCHANGED <<cur, guards, writing, fwVars, outVars>>

\* Granted.  A known visitor: the guard stays alive to the end of the iteration.
LookupHit ==
    /\ main = "lookup" /\ lockq # <<>> /\ Head(lockq) = Main
    /\ entry[cur] # NoFwd
    /\ main' = "ready"
    /\ guards' = 1
    /\ lockq' = Tail(lockq)
    /\ UNCHANGED <<cur, writing, fwVars, outVars>>

WriteGranted ==
    /\ main = "upgrade" /\ lockq # <<>> /\ Head(lockq) = Main
    /\ guards = 0
    /\ main' = "connect"
    /\ writing' = TRUE
    /\ lockq' = Tail(lockq)
    /\ UNCHANGED <<cur, guards, fwVars, outVars>>

\* udp_connect succeeds: enter the visitor in the map and spawn its forwarder.
Connect(f) ==
    /\ main = "connect" /\ fw[f] = "free"
    /\ main' = "ready"
    /\ writing' = FALSE
    /\ entry' = [entry EXCEPT ![cur] = f]
    /\ fw' = [fw EXCEPT ![f] = "run"]
    /\ from' = [from EXCEPT ![f] = cur]
    /\ q' = [q EXCEPT ![f] = 0]
    /\ UNCHANGED <<cur, guards, lockq, refused, outVars>>

ConnectFails ==
    /\ main = "connect"
    /\ main' = "ready"
    /\ writing' = FALSE
    /\ UNCHANGED <<cur, guards, lockq, fwVars, outVars>>

\* Ask for the guard under which the packet is handed over.
RequestAgain ==
    /\ main = "ready"
    /\ main' = "again"
    /\ lockq' = Append(lockq, Main)
    /\ UNCHANGED <<cur, guards, writing, fwVars, outVars>>

\* Granted, with a sender in the map: wait in tx.send with the guard(s) held.
AgainHit ==
    /\ main = "again" /\ Head(lockq) = Main
    /\ entry[cur] # NoFwd
    /\ main' = "send"
    /\ guards' = guards + 1
    /\ lockq' = Tail(lockq)
    /\ UNCHANGED <<cur, writing, fwVars, outVars>>

\* Granted, but no sender: the packet is dropped.
AgainMiss ==
    /\ main = "again" /\ Head(lockq) = Main
    /\ entry[cur] = NoFwd
    /\ main' = "read"
    /\ guards' = 0
    /\ lockq' = Tail(lockq)
    /\ UNCHANGED <<cur, writing, fwVars, outVars>>

\* tx.send: the queue has room, or nobody receives any more (error ignored).
Send ==
    LET f == entry[cur]
    IN  /\ main = "send"
        /\ \/ fw[f] # "dead" /\ q[f] < QueueSize /\ q' = [q EXCEPT ![f] = @ + 1]
           \/ fw[f] = "dead" /\ UNCHANGED q
        /\ main' = "read"
        /\ guards' = 0
        /\ UNCHANGED <<cur, writing, lockq, entry, fw, from, refused, outVars>>

\* Reading from the server fails: the function returns.
ChannelLost ==
    /\ main = "read"
    /\ main' = "ended"
    /\ UNCHANGED <<cur, lockVars, fwVars, outVars>>

-----------------------------------------------------------------------------
(* The forwarders *)

\* Pass a packet to the service.  If nothing listens, the socket may learn so.
FwSend(f) ==
    /\ fw[f] = "run" /\ q[f] > 0 /\ f \notin refused
    /\ q' = [q EXCEPT ![f] = @ - 1]
    /\ refused' \in IF service THEN {refused} ELSE {refused, refused \cup {f}}
    /\ UNCHANGED <<main, cur, lockVars, entry, fw, from, outVars>>

\* `s.send(&data).await?`: the task returns without touching the map.
FwSendFails(f) ==
    /\ fw[f] = "run" /\ q[f] > 0 /\ f \in refused
    /\ fw' = [fw EXCEPT ![f] = "dead"]
    /\ q' = [q EXCEPT ![f] = 0]
    /\ refused' = refused \ {f}
    /\ UNCHANGED <<main, cur, lockVars, entry, from, outVars>>

\* A datagram of the service.
FwRecv(f) ==
    /\ fw[f] = "run" /\ service /\ f \notin refused
    /\ fw' = [fw EXCEPT ![f] = "out"]
    /\ UNCHANGED <<main, cur, lockVars, entry, from, q, refused, outVars>>

FwOut(f) ==
    /\ fw[f] = "out" /\ writer /\ outq < OutSize
    /\ outq' = outq + 1
    /\ fw' = [fw EXCEPT ![f] = "run"]
    /\ UNCHANGED <<main, cur, lockVars, entry, from, q, refused, writer, service, jammed>>

\* `outbount_tx.send(t).await?`: the writer task is gone.
FwOutFails(f) ==
    /\ fw[f] = "out" /\ ~writer
    /\ fw' = [fw EXCEPT ![f] = "dead"]
    /\ q' = [q EXCEPT ![f] = 0]
    /\ refused' = refused \ {f}
    /\ UNCHANGED <<main, cur, lockVars, entry, from, outVars>>

\* Mutant: without the timeout.
FwLeaveOnError(f) ==
    /\ fw[f] = "run"
    /\ f \in refused
    /\ fw' = [fw EXCEPT ![f] = "remove"]
    /\ refused' = refused \ {f}
    /\ lockq' = Append(lockq, f)
    /\ UNCHANGED <<main, cur, guards, writing, entry, from, q, outVars>>

\* Leave the loop (no traffic for UDP_TIMEOUT, or recv fails) and ask for the
\* write guard.  `inbound_rx` never closes by itself: the map holds the sender.
FwLeave(f) ==
    /\ fw[f] = "run"
    /\ q[f] = 0 \/ f \in refused
    /\ fw' = [fw EXCEPT ![f] = "remove"]
    /\ refused' = refused \ {f}
    /\ lockq' = Append(lockq, f)
    /\ UNCHANGED <<main, cur, guards, writing, entry, from, q, outVars>>

\* Granted: remove the entry of this visitor; the task and its queue end.
FwRemove(f) ==
    /\ fw[f] = "remove" /\ Head(lockq) = f
    /\ guards = 0 /\ ~writing
    /\ lockq' = Tail(lockq)
    /\ entry' = [entry EXCEPT ![from[f]] = NoFwd]
    /\ fw' = [fw EXCEPT ![f] = "free"]
    /\ q' = [q EXCEPT ![f] = 0]
    /\ UNCHANGED <<main, cur, guards, writing, from, refused, outVars>>

-----------------------------------------------------------------------------
(* The writer task and the local service *)

\* The server's pool reads what is written, unless it is itself writing.
Write ==
    /\ writer /\ outq > 0 /\ ~jammed
    /\ outq' = outq - 1
    /\ UNCHANGED <<main, cur, lockVars, fwVars, writer, service, jammed>>

WriteFails ==
    /\ writer /\ outq > 0
    /\ writer' = FALSE
    /\ outq' = 0
    /\ UNCHANGED <<main, cur, lockVars, fwVars, service, jammed>>

ServiceToggles ==
    /\ service' = ~service
    /\ UNCHANGED <<main, cur, lockVars, fwVars, outq, writer, jammed>>

\* Visitors send more than the pipe to the client holds: the server's pool waits
\* in write_slice, inside a branch of its select!, and reads nothing meanwhile.
Jam ==
    /\ main # "ended" /\ ~jammed
    /\ jammed' = TRUE
    /\ UNCHANGED <<main, cur, lockVars, fwVars, outq, writer, service>>

Init ==
    /\ main = "read" /\ cur \in Visitors
    /\ guards = 0 /\ writing = FALSE /\ lockq = <<>>
    /\ entry = [v \in Visitors |-> NoFwd]
    /\ fw = [f \in Fwds |-> "free"]
    /\ from \in [Fwds -> {cur}]
    /\ q = [f \in Fwds |-> 0]
    /\ refused = {}
    /\ outq = 0 /\ writer = TRUE
    /\ service \in BOOLEAN
    /\ jammed = FALSE

MainLoop ==
    \/ \E v \in Visitors : ReadPacket(v)
    \/ LookupMiss \/ LookupHit \/ WriteGranted
    \/ \E f \in Fwds : Connect(f)
    \/ ConnectFails \/ RequestAgain \/ AgainHit \/ AgainMiss \/ Send \/ ChannelLost

Forwarder(f) ==
    \/ FwSend(f) \/ FwSendFails(f) \/ FwRecv(f) \/ FwOut(f) \/ FwOutFails(f)
    \/ FwLeave(f) \/ FwRemove(f)

Next == MainLoop \/ (\E f \in Fwds : Forwarder(f)) \/ Write \/ WriteFails \/ ServiceToggles \/ Jam

\* Every task that can go on is polled again; select! picks at random among the
\* ready branches, so waiting packets are not starved by answers; mpsc
\* serves waiting senders in order; an idle forwarder times out; a write on a
\* lost channel fails in the end.  A full pipe has something to read; the server's
\* pool reads again and again, but only while it is not writing itself.
Fairness ==
    /\ WF_vars(LookupMiss \/ LookupHit \/ WriteGranted)
    /\ WF_vars(ConnectFails \/ \E f \in Fwds : Connect(f))
    /\ WF_vars(RequestAgain) /\ WF_vars(AgainHit \/ AgainMiss) /\ WF_vars(Send)
    /\ \A f \in Fwds : /\ SF_vars(FwSend(f) \/ FwSendFails(f))
                       /\ SF_vars(FwOut(f)) /\ WF_vars(FwOutFails(f))
                       /\ WF_vars(FwLeave(f)) /\ WF_vars(FwRemove(f))
    /\ WF_vars(jammed /\ \E v \in Visitors : ReadPacket(v))
    /\ SF_vars(Write)
    /\ SF_vars(main = "ended" /\ WriteFails)

Safety == Init /\ [][Next]_vars
Spec == Safety /\ Fairness

-----------------------------------------------------------------------------
(* Properties *)

\* A visitor never has two forwarders, and a forwarder that will remove an
\* entry removes its own: the lookup may be stale when the write guard comes,
\* yet nobody entered the visitor in between.
OneForwarderPerVisitor ==
    \A f \in Fwds : fw[f] \in {"run", "out", "remove"} => entry[from[f]] = f

\* The main loop holds a read guard and waits for a second one behind a
\* forwarder, which waits for the first guard to be released.
LockCycle ==
    main = "again" /\ guards = 1 /\ lockq # <<>> /\ Head(lockq) # Main

\* The main loop waits, holding a read guard, for room in the queue of a
\* forwarder that left its loop and waits for the write guard.
QueueCycle ==
    /\ main = "send"
    /\ fw[entry[cur]] = "remove" /\ q[entry[cur]] = QueueSize

\* The main loop waits for room in the queue of a forwarder that waits for room
\* in the outbound queue, whose writer waits for the server's pool to read, which
\* waits for the main loop to read.
PipeCycle ==
    /\ main = "send"
    /\ fw[entry[cur]] = "out" /\ q[entry[cur]] = QueueSize
    /\ writer /\ outq = OutSize /\ jammed

\* A packet is handled in the end, unless one of the three cycles above closes:
\* there is no fourth deadlock.
PacketHandled ==
    main \notin {"read", "ended"}
        ~> main \in {"read", "ended"} \/ LockCycle \/ QueueCycle \/ PipeCycle

\* When the data channel is lost every forwarder ends, although the port map
\* (which each forwarder keeps alive) holds the senders of their queues.
ForwardersEnd ==
    \A f \in Fwds : main = "ended" ~> fw[f] \in {"free", "dead"}

\* client.rs: "This is the only thread that will try to grab the writer lock
\* So no need to worry about some other thread".
NoLockCycle == ~LockCycle

\* The same for a writer that waits while the main loop waits for its queue.
NoQueueCycle == ~QueueCycle

\* client.rs: "Now there should be a udp forwarder that can receive the packet",
\* at least while the channel to the server works.
SendFindsForwarder == main = "send" /\ writer => fw[entry[cur]] # "dead"
=============================================================================
