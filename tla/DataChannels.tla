---------------------------- MODULE DataChannels ----------------------------
(***************************************************************************)
(* Data channels of one session (src/src/server.rs: the second half of     *)
(* ControlChannelHandle::new, tcp_listen_and_send, run_tcp_connection_pool,*)
(* run_udp_connection_pool, do_data_channel_handshake; src/src/client.rs:  *)
(* run_data_channel): the server asks for a channel per visitor and for a  *)
(* few in advance, the client dials them, and they are handed out in the   *)
(* order they arrive, to TCP visitors and to UDP ports alike.              *)
(*                                                                         *)
(* A queued channel is "ok" or "broken"; a visitor is a name.  The session *)
(* ends in one step (`over`): its handle is dropped, and with it data_ch_tx*)
(* and the shutdown sender.                                                *)
(***************************************************************************)
EXTENDS Naturals, Sequences, FiniteSets

CONSTANTS
    TcpPorts,     \* TCP mappings, each with a listener
    UdpPorts,     \* UDP mappings, each with a connection pool of its own
    Visitors,     \* TCP visitors of a behaviour
    None, Closed, \* a listener without a visitor, and one that has ended
    PoolSize,     \* TCP_POOL_SIZE (8 in the program)
    ChanSize,     \* CHAN_SIZE (2048 in the program)
    MaxFaults     \* bound on lost or broken channels and toggled ports

ASSUME SetsAssumption ==
    /\ IsFiniteSet(TcpPorts) /\ IsFiniteSet(UdpPorts) /\ TcpPorts # {}
    /\ None \notin Visitors /\ Closed \notin Visitors /\ None # Closed
ASSUME SizesAssumption ==
    /\ PoolSize \in Nat /\ ChanSize \in Nat \ {0} /\ MaxFaults \in Nat

VARIABLES
    over,       \* the session has ended
    fresh,      \* visitors who have not come yet
    lst,        \* the visitor each listener holds
    vq,         \* visitor_tx
    cur,        \* the visitor in the hands of the TCP pool
    pool,       \* the TCP pool's task
    served,     \* visitors who got a channel
    req,        \* requests in data_ch_req_tx
    dialing,    \* channels the client was asked for and is dialing
    chq,        \* data_ch_tx
    lost,       \* channels the client failed to dial
    udp,        \* state of each UDP pool
    disabled,   \* UDP ports in the client's DISABLED
    faults

vars == <<over, fresh, lst, vq, cur, pool, served, req, dialing, chq, lost, udp, disabled, faults>>
tcpVars == <<fresh, lst, vq, cur, pool, served>>
chanVars == <<req, dialing, chq, lost>>
udpVars == <<udp, disabled>>

-----------------------------------------------------------------------------
(* TCP listeners: tcp_listen_and_send *)

\* Mutant: the request is left to the pool's reserve.
AcceptUnrequested(p, v) ==
    /\ lst[p] = None /\ v \in fresh
    /\ fresh' = fresh \ {v}
    /\ lst' = [lst EXCEPT ![p] = v]
    /\ UNCHANGED <<over, vq, cur, pool, served, chanVars, udpVars, faults>>

\* Mutant: the reserve is replenished as well.
AcceptReplenishing(p, v) ==
    /\ lst[p] = None /\ v \in fresh
    /\ fresh' = fresh \ {v}
    /\ lst' = [lst EXCEPT ![p] = v]
    /\ req' = req + 2
    /\ UNCHANGED <<over, vq, cur, pool, served, dialing, chq, lost, udpVars, faults>>

\* A visitor is accepted; a channel is requested for it.  Also while the session
\* ends, until its task drops data_ch_req_rx and the request fails (ListenerStops).
Accept(p, v) ==
    /\ lst[p] = None /\ v \in fresh
    /\ fresh' = fresh \ {v}
    /\ lst' = [lst EXCEPT ![p] = v]
    /\ req' = req + 1
    /\ UNCHANGED <<over, vq, cur, pool, served, dialing, chq, lost, udpVars, faults>>

\* tx.send(visitor): waits for room in the queue.
HandOver(p) ==
    /\ lst[p] \in Visitors /\ pool = "run" /\ Len(vq) < ChanSize
    /\ vq' = Append(vq, lst[p])
    /\ lst' = [lst EXCEPT ![p] = None]
    /\ UNCHANGED <<over, fresh, cur, pool, served, chanVars, udpVars, faults>>

\* `let _ = tx.send(..)`: the pool has ended, the visitor is dropped.
HandOverFails(p) ==
    /\ lst[p] \in Visitors /\ pool = "ended"
    /\ lst' = [lst EXCEPT ![p] = None]
    /\ UNCHANGED <<over, fresh, vq, cur, pool, served, chanVars, udpVars, faults>>

\* The shutdown signal, seen between two visitors, or a request that fails.
ListenerStops(p) ==
    /\ over /\ lst[p] = None
    /\ lst' = [lst EXCEPT ![p] = Closed]
    /\ UNCHANGED <<over, fresh, vq, cur, pool, served, chanVars, udpVars, faults>>

-----------------------------------------------------------------------------
(* Requesting and dialing *)

\* ControlChannel::run sends CreateDataChannel, the client spawns
\* run_data_channel.
RequestChannel ==
    /\ req > 0
    /\ req' = req - 1
    /\ dialing' = dialing + 1
    /\ UNCHANGED <<over, tcpVars, chq, lost, udpVars, faults>>

\* do_data_channel_handshake: the channel with the session's nonce is queued.
\* The task waits for room holding a read guard of the map of all sessions.
ChannelArrives ==
    /\ ~over /\ dialing > 0 /\ Len(chq) < 2 * ChanSize
    /\ dialing' = dialing - 1
    /\ chq' = Append(chq, "ok")
    /\ UNCHANGED <<over, tcpVars, req, lost, udpVars, faults>>

\* "Data channel has incorrect nonce" or "for a stale control channel".
ChannelStale ==
    /\ over /\ dialing > 0
    /\ dialing' = dialing - 1
    /\ UNCHANGED <<over, tcpVars, req, chq, lost, udpVars, faults>>

\* The client gives up after 10 seconds, with a warning only.
DialFails ==
    /\ faults < MaxFaults /\ dialing > 0
    /\ faults' = faults + 1
    /\ dialing' = dialing - 1
    /\ lost' = lost + 1
    /\ UNCHANGED <<over, tcpVars, req, chq, udpVars>>

\* A queued channel is cut.
ChannelBreaks(i) ==
    /\ faults < MaxFaults /\ i \in 1..Len(chq) /\ chq[i] = "ok"
    /\ faults' = faults + 1
    /\ chq' = [chq EXCEPT ![i] = "broken"]
    /\ UNCHANGED <<over, tcpVars, req, dialing, lost, udpVars>>

-----------------------------------------------------------------------------
(* run_tcp_connection_pool *)

PoolTakes ==
    /\ pool = "run" /\ cur = None /\ vq # <<>>
    /\ cur' = Head(vq)
    /\ vq' = Tail(vq)
    /\ UNCHANGED <<over, fresh, lst, pool, served, chanVars, udpVars, faults>>

\* write_frame(StartForwardTcp) succeeds, also on many a broken connection.
PoolForwards ==
    /\ pool = "run" /\ cur # None /\ chq # <<>>
    /\ chq' = Tail(chq)
    /\ served' = served \cup {cur}
    /\ cur' = None
    /\ UNCHANGED <<over, fresh, lst, vq, pool, req, dialing, lost, udpVars, faults>>

\* Mutant: a broken channel is dropped and no other requested.
PoolDropsBroken ==
    /\ pool = "run" /\ cur # None /\ chq # <<>> /\ Head(chq) = "broken"
    /\ chq' = Tail(chq)
    /\ UNCHANGED <<over, tcpVars, req, dialing, lost, udpVars, faults>>

\* "Current data channel is broken. Request for a new one".
PoolRetries ==
    /\ pool = "run" /\ cur # None /\ chq # <<>> /\ Head(chq) = "broken"
    /\ chq' = Tail(chq)
    /\ req' = req + 1
    /\ UNCHANGED <<over, tcpVars, dialing, lost, udpVars, faults>>

\* Mutant: only the closed data_ch_req_tx ends the pool.
PoolBreaksOnRequest ==
    /\ pool = "run" /\ cur # None /\ over
    /\ chq # <<>> /\ Head(chq) = "broken"
    /\ pool' = "ended"
    /\ cur' = None /\ vq' = <<>>
    /\ UNCHANGED <<over, fresh, lst, served, chanVars, udpVars, faults>>

\* data_ch_rx or data_ch_req_tx turns out to be closed.
PoolBreaks ==
    /\ pool = "run" /\ cur # None /\ over
    /\ chq # <<>> => Head(chq) = "broken"
    /\ pool' = "ended"
    /\ cur' = None /\ vq' = <<>>
    /\ UNCHANGED <<over, fresh, lst, served, chanVars, udpVars, faults>>

\* Every listener has dropped its sender.
PoolEnds ==
    /\ pool = "run" /\ cur = None /\ vq = <<>>
    /\ \A p \in TcpPorts : lst[p] = Closed
    /\ pool' = "ended"
    /\ UNCHANGED <<over, fresh, lst, vq, cur, served, chanVars, udpVars, faults>>

-----------------------------------------------------------------------------
(* run_udp_connection_pool, and the client's end of it *)

UdpBinds(u) ==
    /\ udp[u] = "bind"
    /\ udp' = [udp EXCEPT ![u] = "wait"]
    /\ UNCHANGED <<over, tcpVars, chanVars, disabled, faults>>

\* One channel for the port; StartForwardUdp is written.
UdpTakes(u) ==
    /\ udp[u] = "wait" /\ chq # <<>> /\ Head(chq) = "ok"
    /\ chq' = Tail(chq)
    /\ udp' = [udp EXCEPT ![u] = "cmd"]
    /\ UNCHANGED <<over, tcpVars, req, dialing, lost, disabled, faults>>

\* The `?` on that write, or on the first read: the pool and its socket are gone.
UdpBroken(u) ==
    /\ udp[u] = "wait" /\ chq # <<>> /\ Head(chq) = "broken"
    /\ chq' = Tail(chq)
    /\ udp' = [udp EXCEPT ![u] = "dead"]
    /\ UNCHANGED <<over, tcpVars, req, dialing, lost, disabled, faults>>

\* The client reads the command and forwards.
UdpStarts(u) ==
    /\ udp[u] = "cmd" /\ u \notin disabled
    /\ udp' = [udp EXCEPT ![u] = "run"]
    /\ UNCHANGED <<over, tcpVars, chanVars, disabled, faults>>

\* "Refusing data channel for disabled port": the client drops the channel, the
\* pool's read fails.
UdpRefused(u) ==
    /\ udp[u] = "cmd" /\ u \in disabled
    /\ udp' = [udp EXCEPT ![u] = "dead"]
    /\ UNCHANGED <<over, tcpVars, chanVars, disabled, faults>>

\* The `?` on a read or write while forwarding: nothing starts the pool again.
UdpFails(u) ==
    /\ faults < MaxFaults /\ udp[u] \in {"cmd", "run"}
    /\ faults' = faults + 1
    /\ udp' = [udp EXCEPT ![u] = "dead"]
    /\ UNCHANGED <<over, tcpVars, chanVars, disabled>>

\* The shutdown signal, while binding or forwarding; a closed data_ch_rx while
\* waiting for a channel.
UdpStops(u) ==
    /\ over
    /\ udp[u] \in {"bind", "cmd", "run"} \/ (udp[u] = "wait" /\ chq = <<>>)
    /\ udp' = [udp EXCEPT ![u] = "dead"]
    /\ UNCHANGED <<over, tcpVars, chanVars, disabled, faults>>

\* set_port_enabled on the client.
SetPortEnabled(u) ==
    /\ faults < MaxFaults
    /\ faults' = faults + 1
    /\ disabled' = IF u \in disabled THEN disabled \ {u} ELSE disabled \cup {u}
    /\ UNCHANGED <<over, tcpVars, chanVars, udp>>

SessionEnds ==
    /\ ~over
    /\ over' = TRUE
    /\ UNCHANGED <<tcpVars, chanVars, udpVars, faults>>

-----------------------------------------------------------------------------

\* ControlChannelHandle::new: one channel is requested per UDP port, and
\* TCP_POOL_SIZE for TCP, whatever the number of TCP ports.
Init ==
    /\ over = FALSE
    /\ fresh = Visitors
    /\ lst = [p \in TcpPorts |-> None]
    /\ vq = <<>> /\ cur = None /\ pool = "run" /\ served = {}
    /\ req = PoolSize + Cardinality(UdpPorts)
    /\ dialing = 0 /\ chq = <<>> /\ lost = 0
    /\ udp = [u \in UdpPorts |-> "bind"]
    /\ disabled \in SUBSET UdpPorts
    /\ faults = 0

TcpStep ==
    \/ \E p \in TcpPorts : HandOver(p) \/ HandOverFails(p) \/ ListenerStops(p)
    \/ PoolTakes \/ PoolForwards \/ PoolRetries \/ PoolBreaks \/ PoolEnds

UdpStep(u) ==
    UdpBinds(u) \/ UdpTakes(u) \/ UdpBroken(u) \/ UdpStarts(u) \/ UdpRefused(u) \/ UdpStops(u)

Next ==
    \/ \E p \in TcpPorts, v \in Visitors : Accept(p, v)
    \/ RequestChannel \/ ChannelArrives \/ ChannelStale \/ DialFails
    \/ \E i \in 1..Len(chq) : ChannelBreaks(i)
    \/ TcpStep
    \/ \E u \in UdpPorts : UdpStep(u) \/ UdpFails(u) \/ SetPortEnabled(u)
    \/ SessionEnds

Safety == Init /\ [][Next]_vars

\* The runtime polls every task; ports become free (ServerSessions).
Fairness ==
    /\ WF_vars(~over /\ RequestChannel) /\ WF_vars(ChannelArrives) /\ WF_vars(ChannelStale)
    /\ \A p \in TcpPorts :
          WF_vars(HandOver(p) \/ HandOverFails(p)) /\ WF_vars(ListenerStops(p))
    /\ WF_vars(PoolTakes) /\ WF_vars(PoolForwards \/ PoolRetries \/ PoolBreaks)
    /\ WF_vars(PoolEnds)
    /\ \A u \in UdpPorts : WF_vars(UdpStep(u))

Spec == Safety /\ Fairness

-----------------------------------------------------------------------------
(* Properties *)

\* Types; the queues stay within their capacity.
TypeOK ==
    /\ over \in BOOLEAN
    /\ fresh \subseteq Visitors /\ served \subseteq Visitors
    /\ lst \in [TcpPorts -> Visitors \cup {None, Closed}]
    /\ vq \in Seq(Visitors) /\ Len(vq) <= ChanSize
    /\ cur \in Visitors \cup {None}
    /\ pool \in {"run", "ended"}
    /\ req \in Nat /\ dialing \in Nat /\ lost \in Nat
    /\ chq \in Seq({"ok", "broken"}) /\ Len(chq) <= 2 * ChanSize
    /\ udp \in [UdpPorts -> {"bind", "wait", "cmd", "run", "dead"}]
    /\ disabled \subseteq UdpPorts
    /\ faults \in 0..MaxFaults

Holding == {p \in TcpPorts : lst[p] \in Visitors}      \* listeners with a visitor
Waiting == {u \in UdpPorts : udp[u] \in {"bind", "wait"}}
InPool == IF cur = None THEN 0 ELSE 1

\* Requests, dials and queued channels together are what visitors and UDP ports
\* still wait for plus the TCP pool's reserve, less what the client lost: no
\* step forgets a request or asks twice, over broken channels too.
ChannelsConserved ==
    ~over => req + dialing + Len(chq) + lost =
                PoolSize + Cardinality(Waiting) + Cardinality(Holding) + Len(vq) + InPool

\* The number of channels under way is bounded by the sizes of the queues:
\* with CHAN_SIZE > TCP_POOL_SIZE + number of ports, do_data_channel_handshake
\* never waits in data_ch_tx.send while it holds the lock of the session map.
ChannelsBounded ==
    ~over => dialing + Len(chq) <=
                PoolSize + Cardinality(UdpPorts) + Cardinality(TcpPorts) + ChanSize + 1

\* Every visitor gets a channel ("For every visitor, request to create a data
\* channel", server.rs:767), although UDP ports and earlier visitors take
\* channels that were requested for it and queued channels break, unless the
\* session ends or the client failed to dial more channels than the reserve
\* holds: the server never asks again for one of those.
VisitorServed ==
    \A v \in Visitors : v \notin fresh ~> v \in served \/ over \/ lost > PoolSize

\* When the session ends its listeners, the TCP pool and the UDP pools all end,
\* although listeners do not look at the shutdown signal while they hand over a
\* visitor and pools do not while they wait for a channel.
AllEnd ==
    over ~> /\ \A p \in TcpPorts : lst[p] = Closed
            /\ pool = "ended"
            /\ \A u \in UdpPorts : udp[u] = "dead"

\* Every UDP port that the user leaves on is forwarded in the end.
UdpForwarded ==
    \A u \in UdpPorts : <>[](u \notin disabled) => <>(over \/ udp[u] = "run")
=============================================================================
