-------------------------- MODULE ClientUdpProofs ---------------------------
(***************************************************************************)
(* The port map of a client's UDP data channel and its three deadlocks,    *)
(* for any number of visitors and forwarders and any queue size.           *)
(***************************************************************************)
EXTENDS ClientUdp, TLAPS

Live == {"run", "out", "remove"}

TypeOK ==
    /\ main \in {"read", "lookup", "upgrade", "connect", "ready", "again", "send", "ended"}
    /\ cur \in Visitors /\ guards \in Nat /\ lockq \in Seq(Fwds \cup {Main})
    /\ entry \in [Visitors -> Fwds \cup {NoFwd}]
    /\ fw \in [Fwds -> Live \cup {"free", "dead"}]
    /\ from \in [Fwds -> Visitors]
    /\ q \in [Fwds -> 0..QueueSize]

\* Every task that waits for the lock is in its queue.
InQueue(x, s) == \E i \in 1..Len(s) : s[i] = x
WaitInv ==
    /\ main \in {"lookup", "upgrade", "again"} => InQueue(Main, lockq)
    /\ \A f \in Fwds : fw[f] = "remove" => InQueue(f, lockq)

\* Which guards the main loop holds where.
GuardsInv ==
    /\ main \in {"read", "lookup", "upgrade", "connect", "ended"} => guards = 0
    /\ main = "send" => guards # 0

\* An entry belongs to the forwarder that was spawned with it, which may have
\* died since; a running forwarder has its entry.
EntryInv ==
    /\ \A v \in Visitors : entry[v] # NoFwd => from[entry[v]] = v /\ fw[entry[v]] # "free"
    /\ OneForwarderPerVisitor

\* What the lookups saw is still true when it is used: no guard is held between
\* the first lookup and the write guard, but only the main loop enters visitors;
\* the last lookup is used with its guard held.
LookupInv ==
    /\ main \in {"upgrade", "connect"} => entry[cur] = NoFwd
    /\ main = "send" => entry[cur] # NoFwd

IndInv == TypeOK /\ WaitInv /\ GuardsInv /\ EntryInv /\ LookupInv

\* The packet at hand is put into the queue of a forwarder of its own visitor.
PacketGoesToItsVisitor ==
    main = "send" => /\ entry[cur] \in Fwds
                     /\ fw[entry[cur]] # "free" /\ from[entry[cur]] = cur

-----------------------------------------------------------------------------
LEMMA Joins ==
    ASSUME NEW S, NEW s \in Seq(S), NEW y \in S
    PROVE  /\ Append(s, y) \in Seq(S) /\ InQueue(y, Append(s, y))
           /\ \A x : InQueue(x, s) => InQueue(x, Append(s, y))
           /\ s # <<>> => Append(s, y) # <<>> /\ Head(Append(s, y)) = Head(s)
BY DEF InQueue

LEMMA Leaves ==
    ASSUME NEW S, NEW s \in Seq(S), s # <<>>
    PROVE  /\ Tail(s) \in Seq(S)
           /\ \A x : InQueue(x, s) /\ x # Head(s) => InQueue(x, Tail(s))
<1>1. ASSUME NEW x, InQueue(x, s), x # Head(s) PROVE InQueue(x, Tail(s))
  <2>1. PICK i \in 1..Len(s) : s[i] = x
    BY <1>1 DEF InQueue
  <2>2. i - 1 \in 1..Len(Tail(s)) /\ Tail(s)[i - 1] = x
    BY <1>1, <2>1
  <2> QED BY <2>2 DEF InQueue
<1> QED BY <1>1

LEMMA NotEmpty == ASSUME NEW x, InQueue(x, lockq) PROVE lockq # <<>>
BY DEF InQueue

LEMMA IndInvInit == Init => IndInv
<1> SUFFICES ASSUME Init PROVE IndInv
  OBVIOUS
<1>1. TypeOK
  BY SizesAssumption DEF Init, TypeOK
<1>2. WaitInv /\ GuardsInv /\ EntryInv /\ LookupInv
  BY DEF Init, WaitInv, GuardsInv, EntryInv, LookupInv, OneForwarderPerVisitor
<1> QED BY <1>1, <1>2 DEF IndInv

\* The steps of the main loop that leave the map and the forwarders alone: the
\* queue of the lock first, then the rest.
LEMMA MainMoves ==
    ASSUME IndInv,
           \/ \E v \in Visitors : ReadPacket(v)
           \/ LookupMiss \/ LookupHit \/ WriteGranted \/ ConnectFails
           \/ RequestAgain \/ AgainHit \/ AgainMiss \/ ChannelLost
    PROVE  IndInv'
<1> DEFINE S == Fwds \cup {Main}
<1> USE DEF IndInv, fwVars, lockVars
<1>1. UNCHANGED <<entry, fw, from, q>>
  BY DEF ReadPacket, LookupMiss, LookupHit, WriteGranted, ConnectFails, RequestAgain,
         AgainHit, AgainMiss, ChannelLost
<1>2. lockq' \in Seq(S) /\ WaitInv'
  <2>1. lockq \in Seq(S) /\ Main \in S
    BY DEF TypeOK
  <2>2. CASE (\E v \in Visitors : ReadPacket(v)) \/ RequestAgain
    <3>1. lockq' = Append(lockq, Main)
      BY <2>2 DEF ReadPacket, RequestAgain
    <3> QED BY <1>1, <2>1, <3>1, Joins DEF WaitInv
  <2>3. CASE LookupMiss
    <3>1. lockq # <<>> /\ Head(lockq) = Main /\ lockq' = Append(Tail(lockq), Main)
      BY <2>3 DEF LookupMiss
    <3>2. \A x : InQueue(x, lockq) => x = Main \/ InQueue(x, Tail(lockq))
      BY <2>1, <3>1, Leaves
    <3>3. Tail(lockq) \in Seq(S)
      BY <2>1, <3>1, Leaves
    <3>4. lockq' \in Seq(S) /\ \A x : InQueue(x, lockq) => InQueue(x, lockq')
      BY <2>1, <3>1, <3>2, <3>3, Joins
    <3>5. InQueue(Main, lockq')
      BY <2>1, <3>1, <3>3, Joins
    <3> QED BY <1>1, <3>4, <3>5 DEF WaitInv
  <2>4. CASE LookupHit \/ WriteGranted \/ AgainHit \/ AgainMiss
    <3>1. /\ Head(lockq) = Main /\ lockq' = Tail(lockq)
          /\ main \in {"lookup", "upgrade", "again"} /\ main' \in {"ready", "connect", "send", "read"}
      BY <2>4 DEF LookupHit, WriteGranted, AgainHit, AgainMiss
    <3>2. lockq # <<>>
      BY <3>1, NotEmpty DEF WaitInv
    <3>3. lockq' \in Seq(S) /\ \A x : InQueue(x, lockq) => x = Main \/ InQueue(x, lockq')
      BY <2>1, <3>1, <3>2, Leaves
    <3> QED BY <1>1, <3>1, <3>3, NamesAssumption DEF WaitInv
  <2>5. CASE ConnectFails \/ ChannelLost
    BY <1>1, <2>1, <2>5 DEF ConnectFails, ChannelLost, WaitInv
  <2> QED BY <2>2, <2>3, <2>4, <2>5
<1>3. TypeOK'
  <2>1. cur' \in Visitors /\ guards' \in Nat /\ main' \in {"read", "lookup", "upgrade",
           "connect", "ready", "again", "send", "ended"}
    BY DEF TypeOK, ReadPacket, LookupMiss, LookupHit, WriteGranted, ConnectFails, RequestAgain,
           AgainHit, AgainMiss, ChannelLost
  <2> QED BY <1>1, <1>2, <2>1 DEF TypeOK
<1>4. GuardsInv' /\ LookupInv'
  BY <1>1 DEF TypeOK, GuardsInv, LookupInv, ReadPacket, LookupMiss, LookupHit, WriteGranted,
         ConnectFails, RequestAgain, AgainHit, AgainMiss, ChannelLost
<1>5. EntryInv'
  BY <1>1 DEF EntryInv, OneForwarderPerVisitor
<1> QED BY <1>2, <1>3, <1>4, <1>5

\* Only here the map grows: the visitor had no entry.
LEMMA ConnectStep == ASSUME IndInv, NEW f \in Fwds, Connect(f) PROVE IndInv'
<1> USE DEF IndInv, TypeOK
<1>1. entry[cur] = NoFwd
  BY DEF Connect, LookupInv
<1>2. TypeOK'
  BY SizesAssumption DEF Connect, Live
<1>3. GuardsInv' /\ LookupInv' /\ WaitInv'
  BY DEF Connect, GuardsInv, LookupInv, WaitInv
<1>4. \A v \in Visitors : entry'[v] # NoFwd => from'[entry'[v]] = v /\ fw'[entry'[v]] # "free"
  <2> SUFFICES ASSUME NEW v \in Visitors, entry'[v] # NoFwd
               PROVE  from'[entry'[v]] = v /\ fw'[entry'[v]] # "free"
    OBVIOUS
  <2>1. CASE v = cur
    BY <2>1 DEF Connect
  <2>2. CASE v # cur
    <3>1. entry'[v] = entry[v] /\ entry[v] \in Fwds /\ entry[v] # f
      BY <2>2 DEF Connect, EntryInv
    <3> QED BY <3>1 DEF Connect, EntryInv
  <2> QED BY <2>1, <2>2
<1>5. OneForwarderPerVisitor'
  <2> SUFFICES ASSUME NEW g \in Fwds, fw'[g] \in Live PROVE entry'[from'[g]] = g
    BY DEF OneForwarderPerVisitor, Live
  <2>1. CASE g = f
    BY <2>1 DEF Connect
  <2>2. CASE g # f
    <3>1. entry[from[g]] = g /\ from'[g] = from[g]
      BY <2>2 DEF Connect, EntryInv, OneForwarderPerVisitor, Live
    <3>2. from[g] # cur
      BY <1>1, <3>1, NamesAssumption
    <3> QED BY <3>1, <3>2 DEF Connect
  <2> QED BY <2>1, <2>2
<1> QED BY <1>2, <1>3, <1>4, <1>5 DEF EntryInv

LEMMA SendStep == ASSUME IndInv, Send PROVE IndInv'
<1>1. q' \in [Fwds -> 0..QueueSize]
  <2>1. entry[cur] \in Fwds /\ q \in [Fwds -> 0..QueueSize]
    BY DEF IndInv, TypeOK, LookupInv, Send
  <2>2. q' = q \/ (q[entry[cur]] < QueueSize /\ q' = [q EXCEPT ![entry[cur]] = @ + 1])
    BY DEF Send
  <2> QED BY <2>1, <2>2, SizesAssumption
<1>2. /\ main' = "read" /\ guards' = 0
      /\ UNCHANGED <<cur, lockq, entry, fw, from>>
  BY DEF Send
<1> QED BY <1>1, <1>2 DEF IndInv, TypeOK, WaitInv, GuardsInv, EntryInv, LookupInv,
                          OneForwarderPerVisitor

\* A forwarder that goes on, dies or asks for the lock keeps its entry.
LEMMA ForwarderMoves ==
    ASSUME IndInv, NEW f \in Fwds,
           FwSend(f) \/ FwSendFails(f) \/ FwRecv(f) \/ FwOut(f) \/ FwOutFails(f) \/ FwLeave(f)
    PROVE  IndInv'
<1> USE DEF IndInv, TypeOK, fwVars, lockVars
<1>1. UNCHANGED <<main, cur, guards, entry, from>>
  BY DEF FwSend, FwSendFails, FwRecv, FwOut, FwOutFails, FwLeave
<1>2. q' \in [Fwds -> 0..QueueSize]
  BY SizesAssumption DEF FwSend, FwSendFails, FwRecv, FwOut, FwOutFails, FwLeave
<1>3. /\ fw[f] \in Live /\ \A g \in Fwds : g # f => fw'[g] = fw[g]
      /\ fw'[f] \in Live \cup {"dead"} /\ fw' \in [Fwds -> Live \cup {"free", "dead"}]
  BY DEF Live, FwSend, FwSendFails, FwRecv, FwOut, FwOutFails, FwLeave
<1>4. WaitInv' /\ lockq' \in Seq(Fwds \cup {Main})
  <2>1. CASE FwLeave(f)
    <3>1. lockq' = Append(lockq, f)
      BY <2>1 DEF FwLeave
    <3>2. /\ lockq' \in Seq(Fwds \cup {Main}) /\ InQueue(f, lockq')
          /\ \A x : InQueue(x, lockq) => InQueue(x, lockq')
      BY <3>1, Joins
    <3> QED BY <1>1, <1>3, <3>2 DEF WaitInv
  <2>2. CASE ~FwLeave(f)
    <3>1. lockq' = lockq /\ fw'[f] # "remove"
      BY <2>2 DEF FwSend, FwSendFails, FwRecv, FwOut, FwOutFails
    <3> QED BY <1>1, <1>3, <3>1 DEF WaitInv
  <2> QED BY <2>1, <2>2
<1>5. EntryInv'
  BY <1>1, <1>3 DEF EntryInv, OneForwarderPerVisitor, Live
<1> QED BY <1>1, <1>2, <1>3, <1>4, <1>5 DEF GuardsInv, LookupInv

\* Only here the map shrinks: by the forwarder's own entry, while the main loop
\* holds no guard.
LEMMA RemoveStep == ASSUME IndInv, NEW f \in Fwds, FwRemove(f) PROVE IndInv'
<1> USE DEF IndInv, TypeOK
<1>1. entry[from[f]] = f
  BY DEF FwRemove, EntryInv, OneForwarderPerVisitor
<1>2. lockq # <<>> /\ Head(lockq) = f /\ lockq' = Tail(lockq)
  BY NotEmpty DEF FwRemove, WaitInv
<1>3. /\ lockq' \in Seq(Fwds \cup {Main})
      /\ \A x : InQueue(x, lockq) => x = f \/ InQueue(x, lockq')
  BY <1>2, Leaves
<1>4. TypeOK'
  BY <1>3, SizesAssumption DEF FwRemove, Live
<1>5. GuardsInv' /\ LookupInv'
  BY DEF FwRemove, GuardsInv, LookupInv
<1>6. WaitInv'
  BY <1>3, NamesAssumption DEF FwRemove, WaitInv
<1>7. \A v \in Visitors : entry'[v] # NoFwd => from'[entry'[v]] = v /\ fw'[entry'[v]] # "free"
  <2> SUFFICES ASSUME NEW v \in Visitors, entry'[v] # NoFwd
               PROVE  from'[entry'[v]] = v /\ fw'[entry'[v]] # "free"
    OBVIOUS
  <2>1. v # from[f] /\ entry'[v] = entry[v] /\ entry[v] \in Fwds
    BY DEF FwRemove
  <2>2. from[entry[v]] = v /\ fw[entry[v]] # "free"
    BY <2>1 DEF EntryInv
  <2>3. entry[v] # f
    BY <2>1, <2>2
  <2> QED BY <2>1, <2>2, <2>3 DEF FwRemove
<1>8. OneForwarderPerVisitor'
  <2> SUFFICES ASSUME NEW g \in Fwds, fw'[g] \in Live PROVE entry'[from'[g]] = g
    BY DEF OneForwarderPerVisitor, Live
  <2>1. g # f /\ fw[g] \in Live /\ from'[g] = from[g]
    BY DEF FwRemove, Live
  <2>2. entry[from[g]] = g
    BY <2>1 DEF EntryInv, OneForwarderPerVisitor, Live
  <2> QED BY <1>1, <2>1, <2>2 DEF FwRemove
<1> QED BY <1>4, <1>5, <1>6, <1>7, <1>8 DEF EntryInv

LEMMA IndInvStep == IndInv /\ [Next]_vars => IndInv'
<1> SUFFICES ASSUME IndInv, [Next]_vars PROVE IndInv'
  OBVIOUS
<1>1. CASE MainLoop
  BY <1>1, MainMoves, ConnectStep, SendStep, Zenon DEF MainLoop
<1>2. CASE \E f \in Fwds : Forwarder(f)
  BY <1>2, ForwarderMoves, RemoveStep, Zenon DEF Forwarder
<1>3. CASE Write \/ WriteFails \/ ServiceToggles \/ Jam \/ UNCHANGED vars
  BY <1>3 DEF Write, WriteFails, ServiceToggles, Jam, vars, fwVars, lockVars, IndInv, TypeOK,
              WaitInv, GuardsInv, EntryInv, LookupInv, OneForwarderPerVisitor
<1> QED BY <1>1, <1>2, <1>3 DEF Next

LEMMA Invariance == Safety => []IndInv
BY IndInvInit, IndInvStep, PTL DEF Safety

\* client.rs:284-317: with the lock released between the lookup and the write
\* guard, no visitor gets a second forwarder, and run_udp_forwarder removes no
\* entry but its own (client.rs:374), for all numbers of visitors and tasks.
THEOREM OneForwarder == Safety => []OneForwarderPerVisitor
<1>1. IndInv => OneForwarderPerVisitor
  BY DEF IndInv, EntryInv
<1> QED BY <1>1, Invariance, PTL

\* The sender that the main loop waits on (client.rs:322) is in the map, belongs
\* to a task that was spawned for this visitor, and stays so while it waits.
THEOREM ToItsVisitor == Safety => []PacketGoesToItsVisitor
<1>1. IndInv => PacketGoesToItsVisitor
  BY DEF IndInv, TypeOK, EntryInv, LookupInv, PacketGoesToItsVisitor
<1> QED BY <1>1, Invariance, PTL

-----------------------------------------------------------------------------
\* The first deadlock is one: a main loop that waits for its second read guard
\* behind a forwarder waits for ever, whatever the other tasks, the visitors and
\* the service do.
THEOREM LockCycleIsForever == Safety => [][LockCycle => LockCycle']_vars
<1>1. ASSUME IndInv, LockCycle, [Next]_vars PROVE LockCycle'
  <2>1. lockq # <<>> /\ Head(lockq) # Main /\ lockq \in Seq(Fwds \cup {Main}) /\ guards = 1 /\ main = "again"
    BY <1>1 DEF LockCycle, IndInv, TypeOK
  <2>2. ASSUME NEW f \in Fwds PROVE Append(lockq, f) # <<>> /\ Head(Append(lockq, f)) = Head(lockq)
    BY <2>1, Joins
  <2>3. CASE MainLoop
    BY <2>1, <2>3 DEF MainLoop, ReadPacket, LookupMiss, LookupHit, WriteGranted, Connect,
                      ConnectFails, RequestAgain, AgainHit, AgainMiss, Send, ChannelLost
  <2>4. CASE \E f \in Fwds : Forwarder(f)
    <3> PICK f \in Fwds : Forwarder(f)
      BY <2>4
    <3>1. CASE FwLeave(f)
      BY <2>1, <2>2, <3>1 DEF FwLeave, LockCycle
    <3>2. CASE FwRemove(f)
      BY <2>1, <3>2 DEF FwRemove
    <3>3. CASE FwSend(f) \/ FwSendFails(f) \/ FwRecv(f) \/ FwOut(f) \/ FwOutFails(f)
      BY <1>1, <3>3 DEF LockCycle, lockVars, FwSend, FwSendFails, FwRecv, FwOut, FwOutFails
    <3> QED BY <3>1, <3>2, <3>3 DEF Forwarder
  <2>5. CASE Write \/ WriteFails \/ ServiceToggles \/ Jam \/ UNCHANGED vars
    BY <1>1, <2>5 DEF LockCycle, lockVars, Write, WriteFails, ServiceToggles, Jam, vars
  <2> QED BY <1>1, <2>3, <2>4, <2>5 DEF Next
<1> QED BY <1>1, Invariance, PTL DEF Safety

\* So is the second: a main loop that waits for room in the queue of a forwarder
\* that left its loop holds the guard that this forwarder waits for.
THEOREM QueueCycleIsForever == Safety => [][QueueCycle => QueueCycle']_vars
<1>1. ASSUME IndInv, QueueCycle, [Next]_vars PROVE QueueCycle'
  <2>1. /\ main = "send" /\ guards # 0 /\ entry[cur] \in Fwds
        /\ fw[entry[cur]] = "remove" /\ q[entry[cur]] = QueueSize
    BY <1>1 DEF QueueCycle, IndInv, TypeOK, GuardsInv, LookupInv
  <2> USE SizesAssumption
  <2>2. CASE MainLoop
    BY <2>1, <2>2 DEF MainLoop, ReadPacket, LookupMiss, LookupHit, WriteGranted, Connect,
                      ConnectFails, RequestAgain, AgainHit, AgainMiss, Send, ChannelLost
  <2>3. CASE \E f \in Fwds : Forwarder(f)
    <3> PICK f \in Fwds : Forwarder(f)
      BY <2>3
    <3>1. f # entry[cur]
      BY <2>1 DEF Forwarder, FwSend, FwSendFails, FwRecv, FwOut, FwOutFails, FwLeave, FwRemove
    <3>2. main' = main /\ cur' = cur /\ entry' = entry
      BY <2>1 DEF Forwarder, FwSend, FwSendFails, FwRecv, FwOut, FwOutFails, FwLeave, FwRemove
    <3>3. fw'[entry[cur]] = fw[entry[cur]] /\ q'[entry[cur]] = q[entry[cur]]
      BY <1>1, <2>1, <3>1 DEF Forwarder, FwSend, FwSendFails, FwRecv, FwOut, FwOutFails,
                              FwLeave, FwRemove, IndInv, TypeOK
    <3> QED BY <2>1, <3>2, <3>3 DEF QueueCycle
  <2>4. CASE Write \/ WriteFails \/ ServiceToggles \/ Jam \/ UNCHANGED vars
    BY <1>1, <2>4 DEF QueueCycle, fwVars, Write, WriteFails, ServiceToggles, Jam, vars
  <2> QED BY <1>1, <2>2, <2>3, <2>4 DEF Next
<1> QED BY <1>1, Invariance, PTL DEF Safety

\* The third lasts as long as the connection: a main loop that waits for a
\* forwarder that waits for the writer, which waits for the server's pool to read
\* while that one waits for this loop (client.rs:268, 322, 363, server.rs:862).
\* Only a write that fails opens it.
THEOREM PipeCycleUntilCut == Safety => [][PipeCycle => PipeCycle' \/ ~writer']_vars
<1>1. ASSUME IndInv, PipeCycle, [Next]_vars PROVE PipeCycle' \/ ~writer'
  <2>1. /\ main = "send" /\ guards # 0 /\ entry[cur] \in Fwds
        /\ fw[entry[cur]] = "out" /\ q[entry[cur]] = QueueSize
        /\ writer /\ outq = OutSize /\ jammed
    BY <1>1 DEF PipeCycle, IndInv, TypeOK, GuardsInv, LookupInv
  <2> USE SizesAssumption
  <2>2. CASE MainLoop
    BY <2>1, <2>2 DEF MainLoop, ReadPacket, LookupMiss, LookupHit, WriteGranted, Connect,
                      ConnectFails, RequestAgain, AgainHit, AgainMiss, Send, ChannelLost
  <2>3. CASE \E f \in Fwds : Forwarder(f)
    <3> PICK f \in Fwds : Forwarder(f)
      BY <2>3
    <3>1. FwSend(f) \/ FwSendFails(f) \/ FwRecv(f) \/ FwLeave(f)
      <4>1. ~(outq < OutSize)
        BY <2>1
      <4>2. ~FwOut(f) /\ ~FwOutFails(f)
        BY <2>1, <4>1, Zenon DEF FwOut, FwOutFails
      <4> QED BY <2>1, <4>2, Zenon DEF Forwarder, FwRemove
    <3>2. f # entry[cur]
      BY <2>1, <3>1 DEF FwSend, FwSendFails, FwRecv, FwLeave
    <3>3. main' = main /\ cur' = cur /\ UNCHANGED <<writer, outq, jammed>>
      BY <3>1 DEF FwSend, FwSendFails, FwRecv, FwLeave, outVars
    <3>4. entry'[cur] = entry[cur]
      BY <3>1 DEF FwSend, FwSendFails, FwRecv, FwLeave
    <3>5. fw'[entry[cur]] = fw[entry[cur]] /\ q'[entry[cur]] = q[entry[cur]]
      BY <1>1, <2>1, <3>1, <3>2 DEF FwSend, FwSendFails, FwRecv, FwLeave, IndInv, TypeOK
    <3> QED BY <2>1, <3>3, <3>4, <3>5 DEF PipeCycle
  <2>4. CASE Write \/ WriteFails \/ ServiceToggles \/ Jam \/ UNCHANGED vars
    BY <1>1, <2>1, <2>4 DEF PipeCycle, fwVars, lockVars, Write, WriteFails, ServiceToggles, Jam, vars
  <2> QED BY <1>1, <2>2, <2>3, <2>4 DEF Next
<1> QED BY <1>1, Invariance, PTL DEF Safety
=============================================================================
