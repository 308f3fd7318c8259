------------------------- MODULE DataChannelsProofs -------------------------
(***************************************************************************)
(* Proofs about DataChannels for every number of ports and visitors and    *)
(* every size of the pool and the queues: channels are conserved, and from *)
(* that the bound on channels under way.                                   *)
(***************************************************************************)
EXTENDS DataChannels, FiniteSetTheorems, TLAPS

\* Before the session ends, no listener and no TCP pool has ended.
RunningInv ==
    pool = "ended" \/ (\E p \in TcpPorts : lst[p] = Closed) => over

IndInv == TypeOK /\ RunningInv /\ ChannelsConserved

-----------------------------------------------------------------------------
(* Counting *)

\* Adding an element counts one more, removing one counts one less.
LEMMA CountAdd ==
    ASSUME NEW S, IsFiniteSet(S), NEW T \in SUBSET S, NEW x \in S, x \notin T
    PROVE  /\ Cardinality(T \cup {x}) = Cardinality(T) + 1
           /\ Cardinality(T) \in Nat
BY FS_Subset, FS_AddElement, FS_CardinalityType

LEMMA CountRemove ==
    ASSUME NEW S, IsFiniteSet(S), NEW T \in SUBSET S, NEW x \in T
    PROVE  /\ Cardinality(T \ {x}) = Cardinality(T) - 1
           /\ Cardinality(T) \in Nat
BY FS_Subset, FS_RemoveElement, FS_CardinalityType

\* The counts in ChannelsConserved are numbers, at most the numbers of ports.
LEMMA Counts ==
    /\ Cardinality(UdpPorts) \in Nat /\ Cardinality(TcpPorts) \in Nat
    /\ Cardinality(Waiting) \in Nat /\ Cardinality(Waiting) <= Cardinality(UdpPorts)
    /\ Cardinality(Holding) \in Nat /\ Cardinality(Holding) <= Cardinality(TcpPorts)
<1>1. Waiting \subseteq UdpPorts /\ Holding \subseteq TcpPorts
  BY DEF Waiting, Holding
<1>2. QED BY <1>1, SetsAssumption, FS_Subset, FS_CardinalityType

-----------------------------------------------------------------------------
(* The invariant *)

LEMMA IndInvInit == Init => IndInv
<1>1. SUFFICES ASSUME Init PROVE IndInv
  OBVIOUS
<1>2. TypeOK
  <2>1. /\ vq \in Seq(Visitors) /\ Len(vq) <= ChanSize
        /\ chq \in Seq({"ok", "broken"}) /\ Len(chq) <= 2 * ChanSize
    BY <1>1, SizesAssumption DEF Init
  <2>2. req \in Nat /\ dialing \in Nat /\ lost \in Nat /\ faults \in 0..MaxFaults
    BY <1>1, Counts, SizesAssumption DEF Init
  <2>3. lst \in [TcpPorts -> Visitors \cup {None, Closed}]
    BY <1>1 DEF Init
  <2>4. udp \in [UdpPorts -> {"bind", "wait", "cmd", "run", "dead"}]
    BY <1>1 DEF Init
  <2>5. QED BY <1>1, <2>1, <2>2, <2>3, <2>4 DEF Init, TypeOK
<1>3. RunningInv
  BY <1>1, SetsAssumption DEF Init, RunningInv
<1>4. ChannelsConserved
  <2>1. Waiting = UdpPorts /\ Holding = {} /\ InPool = 0
    BY <1>1, SetsAssumption DEF Init, Waiting, Holding, InPool
  <2>2. Cardinality(Holding) = 0 /\ Len(vq) = 0 /\ Len(chq) = 0
    BY <1>1, <2>1, FS_EmptySet DEF Init
  <2>3. QED
    BY <1>1, <2>1, <2>2, Counts, SizesAssumption DEF Init, ChannelsConserved
<1>5. QED BY <1>2, <1>3, <1>4 DEF IndInv

LEMMA TypeOKStep == TypeOK /\ [Next]_vars => TypeOK'
<1>1. SUFFICES ASSUME TypeOK, [Next]_vars PROVE TypeOK'
  OBVIOUS
<1> USE <1>1, SetsAssumption, SizesAssumption DEF TypeOK, tcpVars, chanVars, udpVars
<1>2. ASSUME NEW p \in TcpPorts, NEW v \in Visitors, Accept(p, v) PROVE TypeOK'
  BY <1>2 DEF Accept
<1>3. CASE RequestChannel
  BY <1>3 DEF RequestChannel
<1>4. CASE ChannelArrives
  BY <1>4 DEF ChannelArrives
<1>5. CASE ChannelStale
  BY <1>5 DEF ChannelStale
<1>6. CASE DialFails
  BY <1>6 DEF DialFails
<1>7. ASSUME NEW i \in 1..Len(chq), ChannelBreaks(i) PROVE TypeOK'
  <2>1. chq' \in Seq({"ok", "broken"}) /\ Len(chq') = Len(chq)
    BY <1>7 DEF ChannelBreaks
  <2>2. QED BY <1>7, <2>1 DEF ChannelBreaks
<1>8. ASSUME NEW p \in TcpPorts, HandOver(p) \/ HandOverFails(p) \/ ListenerStops(p)
      PROVE  TypeOK'
  <2>1. CASE HandOver(p)
    <3>1. vq' \in Seq(Visitors) /\ Len(vq') <= ChanSize
      BY <2>1 DEF HandOver
    <3>2. QED BY <2>1, <3>1 DEF HandOver
  <2>2. CASE HandOverFails(p)
    BY <2>2 DEF HandOverFails
  <2>3. CASE ListenerStops(p)
    BY <2>3 DEF ListenerStops
  <2>4. QED BY <1>8, <2>1, <2>2, <2>3
<1>9. CASE PoolTakes
  BY <1>9 DEF PoolTakes
<1>10. CASE PoolForwards
  BY <1>10 DEF PoolForwards
<1>11. CASE PoolRetries
  BY <1>11 DEF PoolRetries
<1>12. CASE PoolBreaks
  BY <1>12 DEF PoolBreaks
<1>13. CASE PoolEnds
  BY <1>13 DEF PoolEnds
<1>14. ASSUME NEW u \in UdpPorts, UdpStep(u) \/ UdpFails(u) \/ SetPortEnabled(u) PROVE TypeOK'
  <2>1. CASE UdpTakes(u) \/ UdpBroken(u)
    <3>0. chq # <<>> /\ chq' = Tail(chq)
      BY <2>1 DEF UdpTakes, UdpBroken
    <3>1. chq' \in Seq({"ok", "broken"}) /\ Len(chq') <= 2 * ChanSize
      BY <3>0
    <3>2. udp' \in [UdpPorts -> {"bind", "wait", "cmd", "run", "dead"}]
      BY <2>1 DEF UdpTakes, UdpBroken
    <3>3. QED BY <2>1, <3>1, <3>2 DEF UdpTakes, UdpBroken
  <2>2. CASE UdpBinds(u) \/ UdpStarts(u) \/ UdpRefused(u) \/ UdpStops(u)
    BY <2>2 DEF UdpBinds, UdpStarts, UdpRefused, UdpStops
  <2>3. CASE UdpFails(u) \/ SetPortEnabled(u)
    BY <2>3 DEF UdpFails, SetPortEnabled
  <2>4. QED BY <1>14, <2>1, <2>2, <2>3 DEF UdpStep
<1>15. CASE SessionEnds
  BY <1>15 DEF SessionEnds
<1>16. CASE UNCHANGED vars
  BY <1>16 DEF vars
<1>17. QED
  BY <1>2, <1>3, <1>4, <1>5, <1>6, <1>7, <1>8, <1>9, <1>10, <1>11, <1>12, <1>13, <1>14,
     <1>15, <1>16 DEF Next, TcpStep

\* A session that has not ended after a step had not ended before it.
LEMMA StillRunning == [Next]_vars /\ ~over' => ~over
BY DEF Next, vars, Accept, RequestChannel, ChannelArrives, ChannelStale, DialFails,
       ChannelBreaks, TcpStep, HandOver, HandOverFails, ListenerStops, PoolTakes,
       PoolForwards, PoolRetries, PoolBreaks, PoolEnds, UdpStep, UdpBinds, UdpTakes,
       UdpBroken, UdpStarts, UdpRefused, UdpStops, UdpFails, SetPortEnabled, SessionEnds

LEMMA RunningInvStep == TypeOK /\ RunningInv /\ [Next]_vars => RunningInv'
<1>1. SUFFICES ASSUME TypeOK, RunningInv, [Next]_vars, ~over' PROVE RunningInv'
  BY DEF RunningInv
<1>2. ~over /\ pool = "run" /\ \A p \in TcpPorts : lst[p] # Closed
  <2>1. ~over
    BY <1>1, StillRunning
  <2>2. QED BY <1>1, <2>1 DEF TypeOK, RunningInv
<1>3. pool' = "run" /\ lst' \in [TcpPorts -> Visitors \cup {None}]
  BY <1>1, <1>2, SetsAssumption
     DEF TypeOK, Next, vars, tcpVars, Accept, RequestChannel, ChannelArrives, ChannelStale,
         DialFails, ChannelBreaks, TcpStep, HandOver, HandOverFails, ListenerStops, PoolTakes,
         PoolForwards, PoolRetries, PoolBreaks, PoolEnds, UdpStep, UdpBinds, UdpTakes,
         UdpBroken, UdpStarts, UdpRefused, UdpStops, UdpFails, SetPortEnabled, SessionEnds
<1>4. QED BY <1>3, SetsAssumption DEF RunningInv

LEMMA ConservedStep == IndInv /\ [Next]_vars => ChannelsConserved'
<1>1. SUFFICES ASSUME IndInv, [Next]_vars, ~over' PROVE ChannelsConserved'
  BY DEF ChannelsConserved
<1>2. TypeOK /\ RunningInv /\ ~over
  BY <1>1, StillRunning DEF IndInv
<1>3. /\ req \in Nat /\ dialing \in Nat /\ lost \in Nat
      /\ InPool \in 0..1 /\ Len(vq) \in Nat /\ Len(chq) \in Nat
  BY <1>2 DEF InPool, TypeOK
<1>4. req + dialing + Len(chq) + lost =
          PoolSize + Cardinality(Waiting) + Cardinality(Holding) + Len(vq) + InPool
  BY <1>1, <1>2 DEF IndInv, ChannelsConserved
<1>5. Waiting \subseteq UdpPorts /\ Holding \subseteq TcpPorts
  BY DEF Waiting, Holding
<1> USE <1>2, SetsAssumption DEF tcpVars, chanVars, udpVars
\* The parts of the sum, before and after the step.
<1> DEFINE W == Cardinality(Waiting)
           H == Cardinality(Holding)
<1>6. /\ W \in Nat /\ H \in Nat /\ PoolSize \in Nat
      /\ req + dialing + Len(chq) + lost = PoolSize + W + H + Len(vq) + InPool
      /\ req' + dialing' + Len(chq') + lost' = PoolSize + W' + H' + Len(vq') + InPool'
           => ChannelsConserved'
  BY <1>4, Counts, SizesAssumption DEF ChannelsConserved
<1> HIDE DEF W, H
<1>7. ASSUME NEW p \in TcpPorts, NEW v \in Visitors, Accept(p, v) PROVE ChannelsConserved'
  <2>1. Holding' = Holding \cup {p} /\ p \notin Holding /\ W' = W /\ InPool' = InPool
    BY <1>7 DEF Accept, W, H, Holding, Waiting, InPool, TypeOK
  <2>2. H' = H + 1
    BY <1>5, <2>1, CountAdd DEF H
  <2>3. req' = req + 1 /\ UNCHANGED <<dialing, chq, lost, vq>>
    BY <1>7 DEF Accept
  <2>4. QED BY <1>3, <1>6, <2>1, <2>2, <2>3
<1>8. CASE RequestChannel
  <2>1. H' = H /\ W' = W /\ InPool' = InPool
    BY <1>8 DEF RequestChannel, W, H, Holding, Waiting, InPool
  <2>2. req' = req - 1 /\ dialing' = dialing + 1 /\ UNCHANGED <<chq, lost, vq>>
    BY <1>8 DEF RequestChannel
  <2>3. QED BY <1>3, <1>6, <2>1, <2>2
<1>9. CASE ChannelArrives
  <2>1. H' = H /\ W' = W /\ InPool' = InPool
    BY <1>9 DEF ChannelArrives, W, H, Holding, Waiting, InPool
  <2>2. Len(chq') = Len(chq) + 1
    BY <1>9 DEF ChannelArrives, TypeOK
  <2>3. dialing' = dialing - 1 /\ UNCHANGED <<req, lost, vq>>
    BY <1>9 DEF ChannelArrives
  <2>4. QED BY <1>3, <1>6, <2>1, <2>2, <2>3
<1>10. CASE DialFails
  <2>1. H' = H /\ W' = W /\ InPool' = InPool
    BY <1>10 DEF DialFails, W, H, Holding, Waiting, InPool
  <2>2. dialing' = dialing - 1 /\ lost' = lost + 1 /\ UNCHANGED <<req, chq, vq>>
    BY <1>10 DEF DialFails
  <2>3. QED BY <1>3, <1>6, <2>1, <2>2
<1>11. ASSUME NEW i \in 1..Len(chq), ChannelBreaks(i) PROVE ChannelsConserved'
  <2>1. H' = H /\ W' = W /\ InPool' = InPool
    BY <1>11 DEF ChannelBreaks, W, H, Holding, Waiting, InPool
  <2>2. Len(chq') = Len(chq) /\ UNCHANGED <<req, dialing, lost, vq>>
    BY <1>11 DEF ChannelBreaks, TypeOK
  <2>3. QED BY <1>3, <1>6, <2>1, <2>2
<1>12. ASSUME NEW p \in TcpPorts, HandOver(p) PROVE ChannelsConserved'
  <2>1. Holding' = Holding \ {p} /\ p \in Holding /\ W' = W /\ InPool' = InPool
    BY <1>12 DEF HandOver, W, H, Holding, Waiting, InPool, TypeOK
  <2>2. H' = H - 1
    BY <1>5, <2>1, CountRemove DEF H
  <2>3. Len(vq') = Len(vq) + 1 /\ UNCHANGED <<req, dialing, chq, lost>>
    BY <1>12 DEF HandOver, TypeOK
  <2>4. QED BY <1>3, <1>6, <2>1, <2>2, <2>3
<1>13. CASE PoolTakes
  <2>1. H' = H /\ W' = W
    BY <1>13 DEF PoolTakes, W, H, Holding, Waiting
  <2>2. Len(vq') = Len(vq) - 1 /\ cur' \in Visitors /\ UNCHANGED <<req, dialing, chq, lost>>
    BY <1>13 DEF PoolTakes, TypeOK
  <2>3. InPool = 0 /\ InPool' = 1
    BY <1>13, <2>2 DEF PoolTakes, InPool
  <2>4. QED BY <1>3, <1>6, <2>1, <2>2, <2>3
<1>14. CASE PoolForwards
  <2>1. H' = H /\ W' = W
    BY <1>14 DEF PoolForwards, W, H, Holding, Waiting
  <2>2. Len(chq') = Len(chq) - 1 /\ UNCHANGED <<req, dialing, lost, vq>>
    BY <1>14 DEF PoolForwards, TypeOK
  <2>3. InPool = 1 /\ InPool' = 0
    BY <1>14 DEF PoolForwards, InPool
  <2>4. QED BY <1>3, <1>6, <2>1, <2>2, <2>3
<1>15. CASE PoolRetries
  <2>1. H' = H /\ W' = W /\ InPool' = InPool
    BY <1>15 DEF PoolRetries, W, H, Holding, Waiting, InPool
  <2>2. Len(chq') = Len(chq) - 1 /\ req' = req + 1 /\ UNCHANGED <<dialing, lost, vq>>
    BY <1>15 DEF PoolRetries, TypeOK
  <2>3. QED BY <1>3, <1>6, <2>1, <2>2
<1>16. ASSUME NEW u \in UdpPorts, UdpTakes(u) \/ UdpBroken(u) PROVE ChannelsConserved'
  <2>1. Waiting' = Waiting \ {u} /\ u \in Waiting /\ H' = H /\ InPool' = InPool
    BY <1>16 DEF UdpTakes, UdpBroken, W, H, Holding, Waiting, InPool, TypeOK
  <2>2. W' = W - 1
    BY <1>5, <2>1, CountRemove DEF W
  <2>3. chq # <<>> /\ chq' = Tail(chq) /\ UNCHANGED <<req, dialing, lost, vq>>
    BY <1>16 DEF UdpTakes, UdpBroken
  <2>4. Len(chq') = Len(chq) - 1
    BY <2>3 DEF TypeOK
  <2>5. QED BY <1>3, <1>6, <2>1, <2>2, <2>3, <2>4
<1>17. ASSUME NEW u \in UdpPorts,
              UdpBinds(u) \/ UdpStarts(u) \/ UdpRefused(u) \/ UdpFails(u) \/ SetPortEnabled(u)
       PROVE  ChannelsConserved'
  <2>1. W' = W /\ H' = H /\ InPool' = InPool
    BY <1>17 DEF UdpBinds, UdpStarts, UdpRefused, UdpFails, SetPortEnabled,
                  W, H, Holding, Waiting, InPool, TypeOK
  <2>2. UNCHANGED <<req, dialing, chq, lost, vq>>
    BY <1>17 DEF UdpBinds, UdpStarts, UdpRefused, UdpFails, SetPortEnabled
  <2>3. QED BY <1>3, <1>6, <2>1, <2>2
<1>18. CASE UNCHANGED vars
  <2>1. W' = W /\ H' = H /\ InPool' = InPool
    BY <1>18 DEF vars, W, H, Holding, Waiting, InPool
  <2>2. QED BY <1>3, <1>6, <1>18, <2>1 DEF vars
<1>19. ~(\E p \in TcpPorts : HandOverFails(p) \/ ListenerStops(p))
  BY DEF HandOverFails, ListenerStops, RunningInv
<1>20. ~(\E u \in UdpPorts : UdpStops(u)) /\ ~SessionEnds /\ ~ChannelStale
  BY <1>1 DEF UdpStops, SessionEnds, ChannelStale
<1>21. ~PoolBreaks /\ ~PoolEnds
  BY DEF PoolBreaks, PoolEnds, RunningInv
<1>22. QED
  BY <1>1, <1>7, <1>8, <1>9, <1>10, <1>11, <1>12, <1>13, <1>14, <1>15, <1>16, <1>17, <1>18,
     <1>19, <1>20, <1>21 DEF Next, TcpStep, UdpStep

\* The inductive invariant of the data channels.
THEOREM Invariance == Safety => []IndInv
<1>1. IndInv /\ [Next]_vars => IndInv'
  BY TypeOKStep, RunningInvStep, ConservedStep DEF IndInv
<1>2. QED BY IndInvInit, <1>1, PTL DEF Safety

\* Types and the capacities of both queues, for all sizes.
THEOREM TypeCorrect == Safety => []TypeOK
<1>1. IndInv => TypeOK
  BY DEF IndInv
<1>2. QED BY Invariance, <1>1, PTL

\* Requests, dials and queued channels always match the demand
\* (ControlChannelHandle::new, run_tcp_connection_pool).
THEOREM Conserved == Safety => []ChannelsConserved
<1>1. IndInv => ChannelsConserved
  BY DEF IndInv
<1>2. QED BY Invariance, <1>1, PTL

\* The arithmetic of the bound below.
LEMMA BoundArithmetic ==
    ASSUME NEW r \in Nat, NEW d \in Nat, NEW c \in Nat, NEW l \in Nat,
           NEW p \in Nat, NEW w \in Nat, NEW h \in Nat, NEW q \in Nat, NEW i \in Nat,
           NEW u \in Nat, NEW t \in Nat, NEW s \in Nat,
           r + d + c + l = p + w + h + q + i,
           w <= u, h <= t, q <= s, i <= 1
    PROVE  d + c <= p + u + t + s + 1
OBVIOUS

\* The bound on the channels under way, from the conservation and the capacity
\* of the visitors' queue.
LEMMA BoundFromConservation == IndInv => ChannelsBounded
<1>1. SUFFICES ASSUME IndInv, ~over
      PROVE dialing + Len(chq) <=
                PoolSize + Cardinality(UdpPorts) + Cardinality(TcpPorts) + ChanSize + 1
  BY DEF ChannelsBounded
<1>2. InPool \in Nat /\ InPool <= 1
  BY DEF InPool
<1>3. /\ Len(vq) \in Nat /\ Len(chq) \in Nat /\ Len(vq) <= ChanSize
      /\ req \in Nat /\ dialing \in Nat /\ lost \in Nat
  BY <1>1 DEF IndInv, TypeOK
<1>4. req + dialing + Len(chq) + lost =
         PoolSize + Cardinality(Waiting) + Cardinality(Holding) + Len(vq) + InPool
  BY <1>1 DEF IndInv, ChannelsConserved
<1>5. QED
  BY <1>2, <1>3, <1>4, Counts, SizesAssumption, BoundArithmetic, Zenon

\* Channels under way are bounded for every number of visitors.
THEOREM Bounded == Safety => []ChannelsBounded
BY Invariance, BoundFromConservation, PTL

\* CHAN_SIZE is large enough for the ports a user exposes.
ChanSizeSuffices == ChanSize > PoolSize + Cardinality(UdpPorts) + Cardinality(TcpPorts)

\* A channel that arrives finds room in data_ch_tx.
RoomForArrivals == ~over /\ dialing > 0 => Len(chq) < 2 * ChanSize

\* With such a CHAN_SIZE do_data_channel_handshake never waits for room, so it
\* never keeps the read guard of the session map that every login needs to
\* write.
THEOREM HandshakeNeverWaits == ChanSizeSuffices => (Safety => []RoomForArrivals)
<1> SUFFICES ASSUME ChanSizeSuffices PROVE Safety => []RoomForArrivals
  OBVIOUS
<1>1. IndInv => RoomForArrivals
  <2>1. SUFFICES ASSUME IndInv, ~over, dialing > 0
                 PROVE  Len(chq) < 2 * ChanSize
    BY DEF RoomForArrivals
  <2>2. dialing + Len(chq) <=
            PoolSize + Cardinality(UdpPorts) + Cardinality(TcpPorts) + ChanSize + 1
    BY <2>1, BoundFromConservation DEF ChannelsBounded
  <2>3. Len(chq) \in Nat /\ dialing \in Nat
    BY <2>1 DEF IndInv, TypeOK
  <2>4. QED BY <2>1, <2>2, <2>3, Counts, SizesAssumption DEF ChanSizeSuffices
<1>2. QED BY <1>1, Invariance, PTL
=============================================================================
