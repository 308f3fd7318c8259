------------------------ MODULE ServerSessionsProofs ------------------------
(***************************************************************************)
(* The session map and the registry agree about who serves a user, for any *)
(* number of users and of logins that overlap in any way.                  *)
(***************************************************************************)
EXTENDS ServerSessions, TLAPS

\* The map holds exactly the handles that were created and not dropped.
MapInv ==
    /\ \A u \in Users : map[u] # None => Owner[map[u]] = u /\ lst[map[u]] # "none"
    /\ \A c \in dropped : lst[c] # "none"
    /\ \A c \in Conns : pc[c] \in Handshaking \cup {"free", "abandoned"} => lst[c] = "none"
    /\ MapHoldsLiveHandles

\* A registered session is the user's own and has a task, or ended in one of
\* the two early returns.
OnlineInv ==
    \A u \in Users : online[u] # None =>
        /\ Owner[online[u]] = u
        /\ pc[online[u]] \in
              {"ack", "install", "push", "loop", "remove", "unregister", "abandoned", "leaked"}

\* While a session is registered the registry knows what its client said.
ToldInv ==
    /\ \A c \in Conns : pc[c] \in Handshaking \cup {"free", "push"} => told[c] = FALSE
    /\ \A c \in Conns : online[Owner[c]] = c /\ pc[c] \in {"ack", "install", "push", "loop"}
          => disabled[Owner[c]] = told[c]

\* A session in the map that was not overtaken is registered, or a later login
\* of its user has registered and not been installed.
LiveInv ==
    \A c \in Conns \ overtaken : pc[c] \in {"push", "loop"} /\ map[Owner[c]] = c =>
        \/ online[Owner[c]] = c
        \/ \E d \in Conns : Owner[d] = Owner[c] /\ pc[d] \in {"ack", "install", "abandoned"}

IndInv == TypeOK /\ MapInv /\ OnlineInv /\ ToldInv /\ LiveInv

-----------------------------------------------------------------------------
\* A login is a login of some user.
LEMMA OwnerIsUser == \A c \in Conns : Owner[c] \in Users /\ c # None
BY OwnerAssumption, NoneAssumption

LEMMA InitInv == Init => IndInv
<1> SUFFICES ASSUME Init PROVE IndInv
  OBVIOUS
<1>1. TypeOK
  BY DEF Init, TypeOK, Phases
<1>2. MapInv
  BY OwnerAssumption, NoneAssumption DEF Init, MapInv, MapHoldsLiveHandles
<1>3. OnlineInv /\ ToldInv /\ LiveInv
  BY DEF Init, OnlineInv, ToldInv, LiveInv
<1> QED BY <1>1, <1>2, <1>3 DEF IndInv

\* Every step keeps the invariant.  Register, Install and the clean-up matter:
\* a later login takes the registration first and the place in the map later.
LEMMA NextInv == IndInv /\ [Next]_vars => IndInv'
<1> SUFFICES ASSUME IndInv, [Next]_vars PROVE IndInv'
  OBVIOUS
<1> USE OwnerIsUser DEF IndInv, TypeOK, Goto, Phases, Handshaking
<1>1. ASSUME NEW c \in Conns, Accept(c) PROVE IndInv'
  BY <1>1 DEF Accept, MapInv, MapHoldsLiveHandles, OnlineInv, ToldInv, LiveInv
<1>2. ASSUME NEW c \in Conns, ReadHello(c) PROVE IndInv'
  BY <1>2 DEF ReadHello, MapInv, MapHoldsLiveHandles, OnlineInv, ToldInv, LiveInv
<1>3. ASSUME NEW c \in Conns, ReadAuth(c) PROVE IndInv'
  BY <1>3 DEF ReadAuth, MapInv, MapHoldsLiveHandles, OnlineInv, ToldInv, LiveInv
<1>4. ASSUME NEW c \in Conns, HandshakeFails(c) PROVE IndInv'
  BY <1>4 DEF HandshakeFails, MapInv, MapHoldsLiveHandles, OnlineInv, ToldInv, LiveInv
<1>5. ASSUME NEW c \in Conns, RegisterFails(c) PROVE IndInv'
  BY <1>5 DEF RegisterFails, MapInv, MapHoldsLiveHandles, OnlineInv, ToldInv, LiveInv
<1>6. ASSUME NEW c \in Conns, WriteAck(c) PROVE IndInv'
  BY <1>6 DEF WriteAck, MapInv, MapHoldsLiveHandles, OnlineInv, ToldInv, LiveInv
<1>7. ASSUME NEW c \in Conns, WriteAckFails(c) PROVE IndInv'
  BY <1>7 DEF WriteAckFails, MapInv, MapHoldsLiveHandles, OnlineInv, ToldInv, LiveInv
<1>8. ASSUME NEW c \in Conns, FirstPush(c) PROVE IndInv'
  BY <1>8 DEF FirstPush, Directory, MapInv, MapHoldsLiveHandles, OnlineInv, ToldInv, LiveInv
<1>9. ASSUME NEW c \in Conns, FirstPushFails(c) PROVE IndInv'
  BY <1>9 DEF FirstPushFails, MapInv, MapHoldsLiveHandles, OnlineInv, ToldInv, LiveInv
<1>10. ASSUME NEW c \in Conns, PushDirectory(c) PROVE IndInv'
  BY <1>10 DEF PushDirectory, Directory, MapInv, MapHoldsLiveHandles, OnlineInv, ToldInv, LiveInv
<1>11. ASSUME NEW c \in Conns, ListenerBind(c) PROVE IndInv'
  BY <1>11 DEF ListenerBind, MapInv, MapHoldsLiveHandles, OnlineInv, ToldInv, LiveInv
<1>12. ASSUME NEW c \in Conns, ListenerClose(c) PROVE IndInv'
  BY <1>12 DEF ListenerClose, MapInv, MapHoldsLiveHandles, OnlineInv, ToldInv, LiveInv
<1>13. ASSUME NEW c \in Conns, VisitorOfLeaked(c) PROVE IndInv'
  BY <1>13 DEF VisitorOfLeaked, MapInv, MapHoldsLiveHandles, OnlineInv, ToldInv, LiveInv
<1>14. ASSUME NEW c \in Conns, PeerVanishes(c) PROVE IndInv'
  BY <1>14 DEF PeerVanishes, MapInv, MapHoldsLiveHandles, OnlineInv, ToldInv, LiveInv
<1>15. ASSUME NEW c \in Conns, Register(c) PROVE IndInv'
  <2>1. /\ pc[c] = "register" /\ pc' = [pc EXCEPT ![c] = "ack"]
        /\ online' = [online EXCEPT ![Owner[c]] = c]
        /\ disabled' = [disabled EXCEPT ![Owner[c]] = FALSE]
        /\ UNCHANGED <<gone, map, dropped, lst, told, view, serverUp, mapAlive, overtaken>>
    BY <1>15 DEF Register
  <2>2. TypeOK'
    BY <1>15, <2>1 DEF Register, Publish
  <2>3. MapInv'
    BY <2>1 DEF MapInv, MapHoldsLiveHandles
  <2>4. OnlineInv'
    BY <2>1 DEF OnlineInv
  <2>5. ToldInv'
    <3>1. told[c] = FALSE
      BY <2>1 DEF ToldInv
    <3>2. ASSUME NEW d \in Conns, online'[Owner[d]] = d,
                 pc'[d] \in {"ack", "install", "push", "loop"}
          PROVE  disabled'[Owner[d]] = told'[d]
      <4>1. CASE d = c
        BY <2>1, <3>1, <4>1
      <4>2. CASE d # c
        BY <2>1, <3>2, <4>2 DEF ToldInv
      <4> QED BY <4>1, <4>2
    <3>3. \A d \in Conns : pc'[d] \in Handshaking \cup {"free", "push"} => told'[d] = FALSE
      BY <2>1, <3>1 DEF ToldInv
    <3> QED BY <3>2, <3>3 DEF ToldInv
  <2>6. LiveInv'
    BY <2>1 DEF LiveInv
  <2> QED BY <2>2, <2>3, <2>4, <2>5, <2>6
<1>16. ASSUME NEW c \in Conns, Install(c) PROVE IndInv'
  <2>1. /\ pc[c] = "install" /\ pc' = [pc EXCEPT ![c] = "push"]
        /\ dropped' = dropped \cup ({map[Owner[c]]} \ {None})
        /\ map' = [map EXCEPT ![Owner[c]] = c]
        /\ lst' = [lst EXCEPT ![c] = "binding"]
        /\ overtaken' = IF online[Owner[c]] = c THEN overtaken ELSE overtaken \cup {c}
        /\ UNCHANGED <<gone, online, disabled, told, dirty, view, serverUp, mapAlive, oversized>>
    BY <1>16 DEF Install
  <2>2. lst[c] = "none" /\ c \notin dropped /\ map[Owner[c]] # c
    BY <2>1 DEF MapInv
  <2>3. TypeOK'
    BY <2>1
  <2>4. MapInv'
    <3>1. \A u \in Users : map'[u] # None => Owner[map'[u]] = u /\ lst'[map'[u]] # "none"
      BY <2>1 DEF MapInv
    <3>2. \A d \in dropped' : lst'[d] # "none"
      BY <2>1 DEF MapInv
    <3>3. \A d \in Conns : pc'[d] \in Handshaking \cup {"free", "abandoned"} => lst'[d] = "none"
      BY <2>1 DEF MapInv
    <3>4. ASSUME NEW d \in Conns, lst'[d] # "none"
          PROVE  d \notin dropped' <=> map'[Owner[d]] = d
      <4>1. CASE d = c
        BY <2>1, <2>2, <4>1
      <4>2. CASE d # c
        <5>1. lst[d] # "none" /\ (d \notin dropped <=> map[Owner[d]] = d)
          BY <2>1, <3>4, <4>2 DEF MapInv, MapHoldsLiveHandles
        <5>2. d \in dropped' <=> d \in dropped \/ d = map[Owner[c]]
          BY <2>1
        <5>3. d = map[Owner[c]] => Owner[d] = Owner[c]
          BY DEF MapInv
        <5> QED BY <2>1, <4>2, <5>1, <5>2, <5>3
      <4> QED BY <4>1, <4>2
    <3> QED BY <3>1, <3>2, <3>3, <3>4 DEF MapInv, MapHoldsLiveHandles
  <2>5. OnlineInv' /\ ToldInv'
    BY <2>1 DEF OnlineInv, ToldInv
  <2>6. LiveInv'
    <3> SUFFICES ASSUME NEW d \in Conns \ overtaken', pc'[d] \in {"push", "loop"}, map'[Owner[d]] = d
                 PROVE  \/ online'[Owner[d]] = d
                        \/ \E e \in Conns : /\ Owner[e] = Owner[d]
                                            /\ pc'[e] \in {"ack", "install", "abandoned"}
      BY DEF LiveInv
    <3>1. CASE d = c
      BY <2>1, <3>1
    <3>2. CASE d # c
      <4>1. Owner[d] # Owner[c] /\ map[Owner[d]] = d /\ pc[d] \in {"push", "loop"} /\ d \notin overtaken
        BY <2>1, <3>2
      <4> QED BY <2>1, <4>1 DEF LiveInv
    <3> QED BY <3>1, <3>2
  <2> QED BY <2>3, <2>4, <2>5, <2>6
<1>17. ASSUME NEW c \in Conns, NEW off \in BOOLEAN, ClientDisabled(c, off) PROVE IndInv'
  <2>1. /\ pc[c] = "loop" /\ told' = [told EXCEPT ![c] = off]
        /\ UNCHANGED <<pc, gone, map, dropped, lst, online, view, serverUp, mapAlive, overtaken>>
        /\ \/ online[Owner[c]] = c /\ disabled' = [disabled EXCEPT ![Owner[c]] = off]
           \/ online[Owner[c]] # c /\ disabled' = disabled
    BY <1>17 DEF ClientDisabled
  <2>2. TypeOK'
    BY <1>17, <2>1 DEF ClientDisabled, Publish
  <2>3. MapInv' /\ OnlineInv' /\ LiveInv'
    BY <2>1 DEF MapInv, MapHoldsLiveHandles, OnlineInv, LiveInv
  <2>4. ToldInv'
    <3>1. ASSUME NEW d \in Conns, online'[Owner[d]] = d,
                 pc'[d] \in {"ack", "install", "push", "loop"}
          PROVE  disabled'[Owner[d]] = told'[d]
      <4>1. CASE d = c
        BY <2>1, <3>1, <4>1
      <4>2. CASE d # c
        BY <2>1, <3>1, <4>2 DEF ToldInv
      <4> QED BY <4>1, <4>2
    <3>2. \A d \in Conns : pc'[d] \in Handshaking \cup {"free", "push"} => told'[d] = FALSE
      BY <2>1 DEF ToldInv
    <3> QED BY <3>1, <3>2 DEF ToldInv
  <2> QED BY <2>2, <2>3, <2>4
<1>18. ASSUME NEW c \in Conns, ExitLoop(c) PROVE IndInv'
  <2>1. /\ pc[c] = "loop" /\ pc' = [pc EXCEPT ![c] = "remove"]
        /\ told' = [told EXCEPT ![c] = FALSE]
        /\ UNCHANGED <<gone, map, dropped, lst, online, disabled, serverUp, mapAlive, overtaken>>
    BY <1>18 DEF ExitLoop
  <2>2. TypeOK'
    BY <1>18, <2>1 DEF ExitLoop
  <2>3. MapInv' /\ OnlineInv' /\ LiveInv'
    BY <2>1 DEF MapInv, MapHoldsLiveHandles, OnlineInv, LiveInv
  <2>4. \A d \in Conns \ {c} : pc'[d] = pc[d] /\ told'[d] = told[d]
    BY <2>1
  <2>5. pc'[c] = "remove" /\ told'[c] = FALSE
    BY <2>1
  <2>6. ToldInv'
    BY <2>1, <2>4, <2>5 DEF ToldInv
  <2> QED BY <2>2, <2>3, <2>6
<1>19. ASSUME NEW c \in Conns, RemoveSelf(c) PROVE IndInv'
  <2>1. /\ pc[c] = "remove" /\ pc' = [pc EXCEPT ![c] = "unregister"]
        /\ UNCHANGED <<gone, lst, online, disabled, told, dirty, view, serverUp, mapAlive, overtaken, oversized>>
    BY <1>19 DEF RemoveSelf
  <2>2. \/ /\ map[Owner[c]] = c /\ map' = [map EXCEPT ![Owner[c]] = None]
           /\ dropped' = dropped \cup {c}
        \/ map' = map /\ dropped' = dropped
    BY <1>19 DEF RemoveSelf
  <2>3. TypeOK'
    BY <2>1, <2>2
  <2>4. \A d \in Conns : pc'[d] \in Handshaking \cup {"free", "abandoned", "push", "loop"} => d # c /\ pc'[d] = pc[d]
    BY <2>1
  <2>5. OnlineInv' /\ ToldInv'
    BY <2>1 DEF OnlineInv, ToldInv
  <2>6. CASE map' = map /\ dropped' = dropped
    <3>1. MapInv'
      BY <2>1, <2>4, <2>6 DEF MapInv, MapHoldsLiveHandles
    <3>2. LiveInv'
      BY <2>1, <2>6 DEF LiveInv
    <3> QED BY <2>3, <2>5, <3>1, <3>2
  <2>7. CASE /\ map[Owner[c]] = c /\ map' = [map EXCEPT ![Owner[c]] = None]
             /\ dropped' = dropped \cup {c}
    <3>1. \A d \in Conns \ {c} : map'[Owner[d]] = d <=> map[Owner[d]] = d
      BY <2>7
    <3>2. lst[c] # "none" /\ map'[Owner[c]] # c
      BY <2>7 DEF MapInv
    <3>3. MapInv'
      <4>1. \A u \in Users : map'[u] # None => Owner[map'[u]] = u /\ lst'[map'[u]] # "none"
        BY <2>1, <2>7 DEF MapInv
      <4>2. \A d \in dropped' : lst'[d] # "none"
        BY <2>1, <2>7, <3>2 DEF MapInv
      <4>3. \A d \in Conns : lst'[d] # "none" => (d \notin dropped' <=> map'[Owner[d]] = d)
        BY <2>1, <2>7, <3>1, <3>2 DEF MapInv, MapHoldsLiveHandles
      <4>4. \A d \in Conns : pc'[d] \in Handshaking \cup {"free", "abandoned"} => lst'[d] = "none"
        BY <2>1, <2>4 DEF MapInv
      <4> QED BY <4>1, <4>2, <4>3, <4>4 DEF MapInv, MapHoldsLiveHandles
    <3>4. LiveInv'
      BY <2>1, <2>4, <3>1, <3>2 DEF LiveInv
    <3> QED BY <2>3, <2>5, <3>3, <3>4
  <2> QED BY <2>2, <2>6, <2>7
<1>20. ASSUME NEW c \in Conns, UnregisterSelf(c) PROVE IndInv'
  <2>1. /\ pc[c] = "unregister" /\ pc' = [pc EXCEPT ![c] = "done"]
        /\ UNCHANGED <<gone, map, dropped, lst, told, view, serverUp, mapAlive, overtaken>>
        /\ \/ /\ online[Owner[c]] = c /\ online' = [online EXCEPT ![Owner[c]] = None]
              /\ disabled' = [disabled EXCEPT ![Owner[c]] = FALSE]
           \/ online[Owner[c]] # c /\ online' = online /\ disabled' = disabled
    BY <1>20 DEF UnregisterSelf
  <2>2. TypeOK'
    BY <1>20, <2>1 DEF UnregisterSelf, Publish
  <2>3. MapInv'
    BY <2>1 DEF MapInv, MapHoldsLiveHandles
  <2>4. OnlineInv'
    BY <2>1 DEF OnlineInv
  <2>5. ASSUME NEW d \in Conns, d # c
        PROVE  /\ pc'[d] = pc[d]
               /\ (online'[Owner[d]] = d) <=> (online[Owner[d]] = d)
               /\ online[Owner[d]] = d => disabled'[Owner[d]] = disabled[Owner[d]]
    <3>1. CASE Owner[d] = Owner[c]
      BY <2>1, <2>5, <3>1
    <3>2. CASE Owner[d] # Owner[c]
      BY <2>1, <2>5, <3>2
    <3> QED BY <3>1, <3>2
  <2>6. ToldInv'
    BY <2>1, <2>5 DEF ToldInv
  <2>7. LiveInv'
    BY <2>1, <2>5 DEF LiveInv
  <2> QED BY <2>2, <2>3, <2>4, <2>6, <2>7
<1>21. ASSUME Shutdown PROVE IndInv'
  BY <1>21 DEF Shutdown, MapInv, MapHoldsLiveHandles, OnlineInv, ToldInv, LiveInv
<1>25. ASSUME OthersPublish PROVE IndInv'
  BY <1>25 DEF OthersPublish, Publish, MapInv, MapHoldsLiveHandles, OnlineInv, ToldInv, LiveInv
<1>22. ASSUME DropMap PROVE IndInv'
  <2>1. /\ dropped' = dropped \cup {map[u] : u \in {v \in Users : map[v] # None}}
        /\ map' = [u \in Users |-> None] /\ mapAlive' = FALSE
        /\ UNCHANGED <<pc, gone, lst, online, disabled, told, dirty, view, serverUp, overtaken, oversized>>
    BY <1>22 DEF DropMap
  <2>2. TypeOK'
    <3>1. dropped' \subseteq Conns
      BY <2>1
    <3> QED BY <2>1, <3>1
  <2>3. MapInv'
    BY <2>1 DEF MapInv, MapHoldsLiveHandles
  <2>4. OnlineInv' /\ ToldInv'
    BY <2>1 DEF OnlineInv, ToldInv
  <2>5. LiveInv'
    BY <2>1 DEF LiveInv
  <2> QED BY <2>2, <2>3, <2>4, <2>5
<1>23. CASE UNCHANGED vars
  BY <1>23 DEF vars, MapInv, MapHoldsLiveHandles, OnlineInv, ToldInv, LiveInv
<1>24. QED
  BY <1>1, <1>2, <1>3, <1>4, <1>5, <1>6, <1>7, <1>8, <1>9, <1>10, <1>11, <1>12, <1>13, <1>14, <1>15, <1>16, <1>17, <1>18, <1>19, <1>20, <1>21, <1>22, <1>23, <1>25
  DEF Next, Handshake, SessionTask, Environment

LEMMA Invariance == Safety => []IndInv
BY InitInv, NextInv, PTL DEF Safety

\* The task of every connection stays in a phase of the handshake or of the
\* session, and every map of the server keeps its type.
THEOREM TypeCorrect == Safety => []TypeOK
BY Invariance, PTL DEF IndInv

\* ControlChannelMap: for any number of logins, a created handle is alive if
\* and only if the map holds it under its owner.
THEOREM MapExact == Safety => []MapHoldsLiveHandles
BY Invariance, PTL DEF IndInv, MapInv

\* The two early returns of server.rs:388 and 642 (a vanished peer, a directory
\* beyond MAX_FRAME) are the only way to leave a user online without a task,
\* whatever the number of logins.
THEOREM NoOtherGhost == Safety => []GhostOnlyAfterEarlyReturn
<1>1. IndInv => GhostOnlyAfterEarlyReturn
  BY DEF IndInv, OnlineInv, GhostOnlyAfterEarlyReturn
<1>2. QED
  BY <1>1, Invariance, PTL

\* The session in the map is the registered one, with its client's choice of
\* ports, unless a later login overtook it or is still under way.
THEOREM LiveRegistered == Safety => []LiveSessionRegistered
<1>1. IndInv => LiveSessionRegistered
  BY OwnerAssumption DEF IndInv, LiveInv, ToldInv, LiveSessionRegistered
<1>2. QED
  BY <1>1, Invariance, PTL

\* Only a newer login, the session's own exit or the end of the map takes an
\* entry out of ControlChannelMap: the step of a stale session never does.
THEOREM StaleExitHarmless == Safety => OnlySelfOrSuccessorCloses
<1> DEFINE Closes(u) ==
          \/ map'[u] # None /\ pc[map'[u]] = "install"
          \/ map'[u] = None /\ pc[map[u]] = "remove" /\ pc'[map[u]] = "unregister"
          \/ ~mapAlive'
<1>1. ASSUME IndInv, Next, NEW u \in Users, map[u] # None, map'[u] # map[u]
      PROVE  Closes(u)
  <2> USE <1>1, OwnerIsUser DEF IndInv, TypeOK, Goto
  <2>1. CASE \E c \in Conns : Install(c)
    BY <2>1 DEF Install
  <2>2. CASE \E c \in Conns : RemoveSelf(c)
    BY <2>2 DEF RemoveSelf
  <2>3. CASE DropMap
    BY <2>3 DEF DropMap
  <2>4. CASE \/ Shutdown \/ OthersPublish
             \/ \E c \in Conns : \/ Accept(c) \/ ReadHello(c) \/ ReadAuth(c) \/ HandshakeFails(c)
                                 \/ Register(c) \/ RegisterFails(c) \/ WriteAck(c) \/ WriteAckFails(c)
                                 \/ FirstPush(c) \/ FirstPushFails(c) \/ PushDirectory(c)
                                 \/ \E off \in BOOLEAN : ClientDisabled(c, off)
                                 \/ ExitLoop(c) \/ UnregisterSelf(c) \/ Environment(c)
    <3>1. map' = map
      BY <2>4
      DEF Shutdown, OthersPublish, Accept, ReadHello, ReadAuth, HandshakeFails, Register, RegisterFails, WriteAck,
          WriteAckFails, FirstPush, FirstPushFails, PushDirectory, ClientDisabled, ExitLoop,
          UnregisterSelf, Environment, ListenerBind, ListenerClose, VisitorOfLeaked, PeerVanishes
    <3> QED BY <3>1
  <2>5. QED
    BY <2>1, <2>2, <2>3, <2>4 DEF Next, Handshake, SessionTask
<1>2. IndInv /\ [Next]_vars =>
        [\A u \in Users : map[u] # None /\ map'[u] # map[u] => Closes(u)]_vars
  BY <1>1
<1>3. QED
  BY <1>2, Invariance, PTL DEF Safety, OnlySelfOrSuccessorCloses

-----------------------------------------------------------------------------
(* The safety halves of the liveness properties *)

\* A session whose receiver holds no unseen directory has sent the latest one.
ViewsCurrent ==
    \A c \in Conns : pc[c] = "loop" /\ c \notin dirty => view[c] = Directory(online, disabled)

LEMMA ViewsStep == TypeOK /\ ViewsCurrent /\ [Next]_vars => ViewsCurrent'
<1> SUFFICES ASSUME TypeOK, ViewsCurrent, [Next]_vars PROVE ViewsCurrent'
  OBVIOUS
<1> USE OwnerIsUser DEF TypeOK, Goto, ViewsCurrent
<1>1. ASSUME NEW c \in Conns,
             \/ Accept(c) \/ ReadHello(c) \/ ReadAuth(c) \/ HandshakeFails(c) \/ RegisterFails(c)
             \/ WriteAck(c) \/ WriteAckFails(c) \/ Install(c) \/ FirstPushFails(c) \/ ExitLoop(c)
             \/ RemoveSelf(c)
      PROVE  ViewsCurrent'
  <2>1. UNCHANGED <<online, disabled>> /\ \A d \in Conns : pc'[d] = "loop" => pc[d] = "loop" /\ d # c
    BY <1>1 DEF Accept, ReadHello, ReadAuth, HandshakeFails, RegisterFails, WriteAck, WriteAckFails,
                Install, FirstPushFails, ExitLoop, RemoveSelf
  <2>2. \A d \in Conns : d # c => view'[d] = view[d] /\ (d \in dirty => d \in dirty')
    BY <1>1 DEF Accept, ReadHello, ReadAuth, HandshakeFails, RegisterFails, WriteAck, WriteAckFails,
                Install, FirstPushFails, ExitLoop, RemoveSelf
  <2> QED BY <2>1, <2>2 DEF Directory
<1>2. ASSUME NEW c \in Conns, FirstPush(c) \/ PushDirectory(c) PROVE ViewsCurrent'
  <2>1. /\ view' = [view EXCEPT ![c] = Directory(online, disabled)] /\ dirty' = dirty \ {c}
        /\ UNCHANGED <<online, disabled>> /\ \A d \in Conns : d # c => pc'[d] = pc[d]
    BY <1>2 DEF FirstPush, PushDirectory
  <2> QED BY <2>1 DEF Directory
\* What changes the directory publishes it, and every session in its loop has
\* subscribed.
<1>3. ASSUME NEW c \in Conns,
             \/ Register(c) \/ UnregisterSelf(c) \/ \E off \in BOOLEAN : ClientDisabled(c, off)
      PROVE  ViewsCurrent'
  <2>1. \A d \in Conns : pc'[d] = "loop" => pc[d] = "loop"
    BY <1>3 DEF Register, UnregisterSelf, ClientDisabled
  <2>2. view' = view /\ (Publish \/ UNCHANGED <<online, disabled, dirty>>)
    BY <1>3 DEF Register, UnregisterSelf, ClientDisabled
  <2>3. CASE Publish
    BY <2>1, <2>3 DEF Publish, Subscribed
  <2>4. CASE UNCHANGED <<online, disabled, dirty>>
    BY <2>1, <2>2, <2>4 DEF Directory
  <2> QED BY <2>2, <2>3, <2>4
<1>4. CASE Shutdown \/ DropMap \/ UNCHANGED vars \/ \E c \in Conns : Environment(c)
  <2>1. UNCHANGED <<pc, online, disabled, dirty, view>>
    BY <1>4 DEF Shutdown, DropMap, vars, Environment, ListenerBind, ListenerClose, VisitorOfLeaked,
                PeerVanishes
  <2> QED BY <2>1 DEF Directory
<1>5. CASE OthersPublish
  BY <1>5 DEF OthersPublish, Publish, Subscribed
<1> QED BY <1>1, <1>2, <1>3, <1>4, <1>5 DEF Next, Handshake, SessionTask

\* No change of the directory is lost, for any number of sessions: one that falls
\* between `subscribe` and the first push (server.rs:640), or into a push, leaves
\* the receiver marked, so a session that has nothing more to push has pushed
\* what the registry says.
THEOREM NoUpdateLost == Safety => []ViewsCurrent
<1>1. Init => ViewsCurrent
  BY DEF Init, ViewsCurrent
<1>2. QED
  BY <1>1, ViewsStep, TypeCorrect, PTL DEF Safety

\* When the map is gone every handle that was ever created has been dropped, and
\* nobody is left who could create one.
AllDroppedWithMap ==
    ~mapAlive => \A c \in Conns : pc[c] \notin Handshaking /\ (lst[c] # "none" => c \in dropped)

EndInv ==
    ~mapAlive => /\ ~serverUp /\ (\A u \in Users : map[u] = None)
                 /\ \A c \in Conns : pc[c] \notin Handshaking

LEMMA EndStep == TypeOK /\ EndInv /\ [Next]_vars => EndInv'
<1> SUFFICES ASSUME TypeOK, EndInv, [Next]_vars PROVE EndInv'
  OBVIOUS
<1> USE OwnerIsUser DEF TypeOK, Goto, EndInv, Handshaking
<1>1. ASSUME NEW c \in Conns, Handshake(c) PROVE EndInv'
  <2>1. mapAlive' = mapAlive /\ (pc[c] \in Handshaking \/ serverUp)
    BY <1>1 DEF Handshake, Accept, ReadHello, ReadAuth, HandshakeFails, Register, RegisterFails,
                WriteAck, WriteAckFails, Install
  <2> QED BY <2>1
<1>2. ASSUME NEW c \in Conns, SessionTask(c) \/ Environment(c) PROVE EndInv'
  <2>1. /\ UNCHANGED <<mapAlive, serverUp>>
        /\ \A d \in Conns : pc'[d] \in Handshaking => pc[d] \in Handshaking
    BY <1>2 DEF SessionTask, FirstPush, FirstPushFails, PushDirectory, ClientDisabled, ExitLoop,
                RemoveSelf, UnregisterSelf, Environment, ListenerBind, ListenerClose,
                VisitorOfLeaked, PeerVanishes
  <2>2. \A u \in Users : map'[u] \in {map[u], None}
    BY <1>2 DEF SessionTask, FirstPush, FirstPushFails, PushDirectory, ClientDisabled, ExitLoop,
                RemoveSelf, UnregisterSelf, Environment, ListenerBind, ListenerClose,
                VisitorOfLeaked, PeerVanishes
  <2> QED BY <2>1, <2>2
<1>3. CASE Shutdown \/ OthersPublish
  BY <1>3 DEF Shutdown, OthersPublish
<1>4. CASE DropMap
  BY <1>4 DEF DropMap
<1>5. CASE UNCHANGED vars
  BY <1>5 DEF vars
<1> QED BY <1>1, <1>2, <1>3, <1>4, <1>5 DEF Next

\* Session tasks hold weak references (server.rs:590), so the end of the last
\* handshake after a shutdown takes the map with it; with the map goes the
\* shutdown sender of every session, old or new, whose listeners may still hold
\* a port.  No session is left out and none is created afterwards.
THEOREM NothingOutlivesTheMap == Safety => []AllDroppedWithMap
<1>1. Init => EndInv
  BY DEF Init, EndInv
<1>2. IndInv /\ EndInv => AllDroppedWithMap
  BY OwnerIsUser DEF IndInv, TypeOK, MapInv, MapHoldsLiveHandles, EndInv, AllDroppedWithMap
<1>3. QED
  BY <1>1, <1>2, EndStep, Invariance, PTL DEF Safety, IndInv

\* When a session is put into the map its nonce is not there, under any user.
NonceIsNew == \A c \in Conns : pc[c] = "install" => \A u \in Users : map[u] # c

\* `let _ = h.insert(..)` (server.rs:423) throws away an error it cannot get: the
\* user's old entry was removed under the same lock, and no entry has the nonce,
\* so MultiMap (BiMap's Insert) accepts the handle.
THEOREM InsertAccepted == Safety => []NonceIsNew
<1>1. ASSUME IndInv, NEW c \in Conns, pc[c] = "install", NEW u \in Users PROVE map[u] # c
  <2>1. lst[c] = "none" /\ c # None
    BY <1>1, OwnerIsUser DEF IndInv, MapInv, Handshaking
  <2> QED BY <1>1, <2>1 DEF IndInv, MapInv
<1>2. IndInv => NonceIsNew
  BY <1>1 DEF NonceIsNew
<1>3. QED
  BY <1>2, Invariance, PTL
=============================================================================
