--------------------------- MODULE ServerSessions ---------------------------
(***************************************************************************)
(* Control-channel sessions of one server instance (src/src/server.rs):    *)
(* the handshake task of every connection, the map of control channels,    *)
(* the session task with its clean-up, the listeners of its mappings, and  *)
(* what the registry and the clients believe about all that.               *)
(*                                                                         *)
(* A connection is its own session nonce.  The registry is reduced to what *)
(* sessions read and write: per user the registered session and whether it *)
(* turned its ports off (Registry models the rest).  All listeners of a    *)
(* session are one listener: a user's ports are bound and closed together. *)
(***************************************************************************)
EXTENDS Naturals, FiniteSets

CONSTANTS
    Conns,               \* the control connections of a behaviour
    Users,
    Owner,               \* Owner[c]: the user that connection c logs in as
    None

ASSUME OwnerAssumption == Owner \in [Conns -> Users]
ASSUME NoneAssumption == None \notin Conns

VARIABLES
    pc,         \* where the task of each connection is
    gone,       \* connections whose peer has vanished
    map,        \* ControlChannelMap: the session of each user
    dropped,    \* sessions whose handle was dropped (their shutdown signal)
    lst,        \* listeners of each session
    online,     \* Registry.online: the registered session of each user
    disabled,   \* Registry.online[_].disabled: has the user turned its ports off?
    told,       \* what each client last said about its ports
    dirty,      \* sessions whose directory receiver has an unseen value
    view,       \* the directory each client last received
    serverUp,   \* Server::run has not returned
    mapAlive,   \* some strong reference to the map exists
    overtaken,  \* history: sessions installed after a later login had registered
    oversized   \* the directory does not fit into a frame (MAX_FRAME)

vars == <<pc, gone, map, dropped, lst, online, disabled, told, dirty, view, serverUp, mapAlive, overtaken, oversized>>

\* Phases of a connection: handshake task, then session task.
Handshaking == {"hello", "auth", "register", "ack", "install"}
Subscribed == {"ack", "install", "push", "loop"}
Phases ==
    {"free", "push", "loop", "remove", "unregister", "done", "abandoned", "leaked"} \cup Handshaking

\* The directory as clients see it: which users' ports are listed online.
Directory(on, off) == {u \in Users : on[u] # None /\ ~off[u]}

\* The registry publishes: every subscriber has something new to read.  (The
\* session that registers subscribes afterwards, one that unregisters is gone.)
\* The directory also holds the ports of users outside the instance, so any
\* change may make it outgrow a frame or fit again.
Publish ==
    /\ dirty' = {c \in Conns : pc[c] \in Subscribed}
    /\ oversized' \in BOOLEAN

Goto(c, from, to) == pc[c] = from /\ pc' = [pc EXCEPT ![c] = to]

-----------------------------------------------------------------------------
(* The handshake task: handle_connection, do_control_channel_handshake *)

Accept(c) ==
    /\ serverUp
    /\ Goto(c, "free", "hello")
    /\ UNCHANGED <<gone, map, dropped, lst, online, disabled, told, dirty, view, serverUp, mapAlive, overtaken, oversized>>

\* read_hello, then the server's own hello with the nonce.
ReadHello(c) ==
    /\ c \notin gone
    /\ Goto(c, "hello", "auth")
    /\ UNCHANGED <<gone, map, dropped, lst, online, disabled, told, dirty, view, serverUp, mapAlive, overtaken, oversized>>

\* read_auth and Ack::Ok.
ReadAuth(c) ==
    /\ Goto(c, "auth", "register")
    /\ UNCHANGED <<gone, map, dropped, lst, online, disabled, told, dirty, view, serverUp, mapAlive, overtaken, oversized>>

\* A read or write error, an unknown user or a wrong key: the task returns.
HandshakeFails(c) ==
    /\ pc[c] \in {"hello", "auth"}
    /\ pc' = [pc EXCEPT ![c] = "done"]
    /\ UNCHANGED <<gone, map, dropped, lst, online, disabled, told, dirty, view, serverUp, mapAlive, overtaken, oversized>>

\* registry.register under its mutex: online with nothing disabled, published.
Register(c) ==
    /\ Goto(c, "register", "ack")
    /\ online' = [online EXCEPT ![Owner[c]] = c]
    /\ disabled' = [disabled EXCEPT ![Owner[c]] = FALSE]
    /\ Publish
    /\ UNCHANGED <<gone, map, dropped, lst, told, view, serverUp, mapAlive, overtaken>>

\* The block is exhausted or the table cannot be written.
RegisterFails(c) ==
    /\ Goto(c, "register", "done")
    /\ UNCHANGED <<gone, map, dropped, lst, online, disabled, told, dirty, view, serverUp, mapAlive, overtaken, oversized>>

\* RegisterAck::Ok.  A write to a vanished peer may still succeed.
WriteAck(c) ==
    /\ Goto(c, "ack", "install")
    /\ UNCHANGED <<gone, map, dropped, lst, online, disabled, told, dirty, view, serverUp, mapAlive, overtaken, oversized>>

\* `write_frame(..).await?` returns: the registration stays.
WriteAckFails(c) ==
    /\ c \in gone
    /\ Goto(c, "ack", "abandoned")
    /\ dirty' = dirty \ {c}
    /\ UNCHANGED <<gone, map, dropped, lst, online, disabled, told, view, serverUp, mapAlive, overtaken, oversized>>

\* Mutant: the previous handle is not dropped.
InstallBeside(c) ==
    /\ Goto(c, "install", "push")
    /\ map' = [map EXCEPT ![Owner[c]] = c]
    /\ lst' = [lst EXCEPT ![c] = "binding"]
    /\ overtaken' = IF online[Owner[c]] = c THEN overtaken ELSE overtaken \cup {c}
    /\ UNCHANGED <<gone, dropped, online, disabled, told, dirty, view, serverUp, mapAlive, oversized>>

\* Under the write lock: drop the user's previous handle, create the new one
\* (listeners and session task start), insert it.
Install(c) ==
    /\ Goto(c, "install", "push")
    /\ dropped' = dropped \cup ({map[Owner[c]]} \ {None})
    /\ map' = [map EXCEPT ![Owner[c]] = c]
    /\ lst' = [lst EXCEPT ![c] = "binding"]
    /\ overtaken' = IF online[Owner[c]] = c THEN overtaken ELSE overtaken \cup {c}
    /\ UNCHANGED <<gone, online, disabled, told, dirty, view, serverUp, mapAlive, oversized>>

-----------------------------------------------------------------------------
(* The session task: ControlChannel::run *)

\* Push the current directory first.
FirstPush(c) ==
    /\ ~oversized
    /\ Goto(c, "push", "loop")
    /\ view' = [view EXCEPT ![c] = Directory(online, disabled)]
    /\ dirty' = dirty \ {c}
    /\ UNCHANGED <<gone, map, dropped, lst, online, disabled, told, serverUp, mapAlive, overtaken, oversized>>

\* The `?` on that first send: the task ends before the loop and its clean-up,
\* for a peer that vanished or for a directory beyond MAX_FRAME.
FirstPushFails(c) ==
    /\ c \in gone \/ oversized
    /\ Goto(c, "push", "leaked")
    /\ dirty' = dirty \ {c}
    /\ UNCHANGED <<gone, map, dropped, lst, online, disabled, told, view, serverUp, mapAlive, overtaken, oversized>>

\* dir_rx.changed()
PushDirectory(c) ==
    /\ pc[c] = "loop" /\ c \in dirty /\ ~oversized
    /\ view' = [view EXCEPT ![c] = Directory(online, disabled)]
    /\ dirty' = dirty \ {c}
    /\ UNCHANGED <<pc, gone, map, dropped, lst, online, disabled, told, serverUp, mapAlive, overtaken, oversized>>

\* ClientCmd::Disabled: applied only for the registered session.
ClientDisabled(c, off) ==
    /\ pc[c] = "loop" /\ c \notin gone
    /\ told' = [told EXCEPT ![c] = off]
    /\ \/ /\ online[Owner[c]] = c
          /\ disabled' = [disabled EXCEPT ![Owner[c]] = off]
          /\ Publish
       \/ /\ online[Owner[c]] # c
          /\ UNCHANGED <<disabled, dirty, oversized>>
    /\ UNCHANGED <<pc, gone, map, dropped, lst, online, view, serverUp, mapAlive, overtaken>>

\* Mutant: the shutdown branch is missing.
ExitOnErrorOnly(c) ==
    /\ c \in gone \/ (c \in dirty /\ oversized)
    /\ Goto(c, "loop", "remove")
    /\ dirty' = dirty \ {c}
    /\ view' = [view EXCEPT ![c] = {}]
    /\ told' = [told EXCEPT ![c] = FALSE]
    /\ UNCHANGED <<gone, map, dropped, lst, online, disabled, serverUp, mapAlive, overtaken, oversized>>

\* The reader or a write reports a dead peer, the directory does not fit into a
\* frame, or the handle was dropped.
ExitLoop(c) ==
    /\ c \in gone \cup dropped \/ (c \in dirty /\ oversized)
    /\ Goto(c, "loop", "remove")
    /\ dirty' = dirty \ {c}
    /\ view' = [view EXCEPT ![c] = {}]        \* the client is disconnected
    /\ told' = [told EXCEPT ![c] = FALSE]
    /\ UNCHANGED <<gone, map, dropped, lst, online, disabled, serverUp, mapAlive, overtaken, oversized>>

\* Mutant: remove1(user), whoever's session it is.
RemoveByUser(c) ==
    /\ Goto(c, "remove", "unregister")
    /\ map' = [map EXCEPT ![Owner[c]] = None]
    /\ dropped' = dropped \cup ({map[Owner[c]]} \ {None})
    /\ UNCHANGED <<gone, lst, online, disabled, told, dirty, view, serverUp, mapAlive, overtaken, oversized>>

\* Mutant: returns early when its entry is gone.
RemoveOrReturn(c) ==
    /\ pc[c] = "remove"
    /\ \/ /\ map[Owner[c]] = c
          /\ pc' = [pc EXCEPT ![c] = "unregister"]
          /\ map' = [map EXCEPT ![Owner[c]] = None]
          /\ dropped' = dropped \cup {c}
       \/ /\ map[Owner[c]] # c
          /\ pc' = [pc EXCEPT ![c] = "done"]
          /\ UNCHANGED <<map, dropped>>
    /\ UNCHANGED <<gone, lst, online, disabled, told, dirty, view, serverUp, mapAlive, overtaken, oversized>>

\* upgrade() and remove2(nonce): only this session's own entry.
RemoveSelf(c) ==
    /\ Goto(c, "remove", "unregister")
    /\ \/ /\ map[Owner[c]] = c
          /\ map' = [map EXCEPT ![Owner[c]] = None]
          /\ dropped' = dropped \cup {c}
       \/ /\ map[Owner[c]] # c
          /\ UNCHANGED <<map, dropped>>
    /\ UNCHANGED <<gone, lst, online, disabled, told, dirty, view, serverUp, mapAlive, overtaken, oversized>>

\* Mutant: no comparison of nonces.
UnregisterUser(c) ==
    /\ Goto(c, "unregister", "done")
    /\ online' = [online EXCEPT ![Owner[c]] = None]
    /\ disabled' = [disabled EXCEPT ![Owner[c]] = FALSE]
    /\ Publish
    /\ UNCHANGED <<gone, map, dropped, lst, told, view, serverUp, mapAlive, overtaken>>

\* Mutant: nothing is published.
UnregisterSilently(c) ==
    /\ Goto(c, "unregister", "done")
    /\ online' = [online EXCEPT ![Owner[c]] = IF @ = c THEN None ELSE @]
    /\ UNCHANGED <<gone, map, dropped, lst, disabled, told, dirty, view, serverUp, mapAlive, overtaken, oversized>>

UnregisterSelf(c) ==
    /\ Goto(c, "unregister", "done")
    /\ \/ /\ online[Owner[c]] = c
          /\ online' = [online EXCEPT ![Owner[c]] = None]
          /\ disabled' = [disabled EXCEPT ![Owner[c]] = FALSE]
          /\ Publish
       \/ /\ online[Owner[c]] # c
          /\ UNCHANGED <<online, disabled, dirty, oversized>>
    /\ UNCHANGED <<gone, map, dropped, lst, told, view, serverUp, mapAlive, overtaken>>

-----------------------------------------------------------------------------
(* Listeners, peers and shutdown *)

\* bind() is retried until no other listener of the user holds the ports.
ListenerBind(c) ==
    /\ lst[c] = "binding"
    /\ \A d \in Conns : Owner[d] = Owner[c] => lst[d] # "bound"
    /\ lst' = [lst EXCEPT ![c] = "bound"]
    /\ UNCHANGED <<pc, gone, map, dropped, online, disabled, told, dirty, view, serverUp, mapAlive, overtaken, oversized>>

\* Mutant: the shutdown is seen while binding only.
ListenerCloseEarly(c) ==
    /\ c \in dropped /\ lst[c] = "binding"
    /\ lst' = [lst EXCEPT ![c] = "closed"]
    /\ UNCHANGED <<pc, gone, map, dropped, online, disabled, told, dirty, view, serverUp, mapAlive, overtaken, oversized>>

\* The shutdown channel closed, while binding or while accepting.
ListenerClose(c) ==
    /\ c \in dropped /\ lst[c] \in {"binding", "bound"}
    /\ lst' = [lst EXCEPT ![c] = "closed"]
    /\ UNCHANGED <<pc, gone, map, dropped, online, disabled, told, dirty, view, serverUp, mapAlive, overtaken, oversized>>

\* A visitor of a session without a task: the data channel request fails and
\* the listener breaks out of its loop.
VisitorOfLeaked(c) ==
    /\ pc[c] = "leaked" /\ lst[c] = "bound"
    /\ lst' = [lst EXCEPT ![c] = "closed"]
    /\ UNCHANGED <<pc, gone, map, dropped, online, disabled, told, dirty, view, serverUp, mapAlive, overtaken, oversized>>

PeerVanishes(c) ==
    /\ c \notin gone
    /\ pc[c] \in Handshaking \cup {"push", "loop"}
    /\ gone' = gone \cup {c}
    /\ UNCHANGED <<pc, map, dropped, lst, online, disabled, told, dirty, view, serverUp, mapAlive, overtaken, oversized>>

\* A user outside the instance registers, unregisters or turns ports off.
OthersPublish ==
    /\ Publish
    /\ UNCHANGED <<pc, gone, map, dropped, lst, online, disabled, told, view, serverUp, mapAlive, overtaken>>

\* Server::run returns and the Server is dropped (config reload or ctrl-c).
Shutdown ==
    /\ serverUp
    /\ serverUp' = FALSE
    /\ UNCHANGED <<pc, gone, map, dropped, lst, online, disabled, told, dirty, view, mapAlive, overtaken, oversized>>

\* Mutant: session tasks hold strong references.
DropMapStrong ==
    /\ mapAlive /\ ~serverUp
    /\ \A c \in Conns : pc[c] \notin Handshaking \cup {"push", "loop"}
    /\ mapAlive' = FALSE
    /\ dropped' = dropped \cup {map[u] : u \in {v \in Users : map[v] # None}}
    /\ map' = [u \in Users |-> None]
    /\ UNCHANGED <<pc, gone, lst, online, disabled, told, dirty, view, serverUp, overtaken, oversized>>

\* The last strong reference is gone (each handshake task holds one; session
\* tasks hold weak ones): the map and every handle in it are dropped.
DropMap ==
    /\ mapAlive /\ ~serverUp
    /\ \A c \in Conns : pc[c] \notin Handshaking
    /\ mapAlive' = FALSE
    /\ dropped' = dropped \cup {map[u] : u \in {v \in Users : map[v] # None}}
    /\ map' = [u \in Users |-> None]
    /\ UNCHANGED <<pc, gone, lst, online, disabled, told, dirty, view, serverUp, overtaken, oversized>>

Init ==
    /\ pc = [c \in Conns |-> "free"]
    /\ gone = {}
    /\ map = [u \in Users |-> None]
    /\ dropped = {}
    /\ lst = [c \in Conns |-> "none"]
    /\ online = [u \in Users |-> None]
    /\ disabled = [u \in Users |-> FALSE]
    /\ told = [c \in Conns |-> FALSE]
    /\ dirty = {}
    /\ view = [c \in Conns |-> {}]
    /\ serverUp = TRUE
    /\ mapAlive = TRUE
    /\ overtaken = {}
    /\ oversized = FALSE

Handshake(c) ==
    \/ Accept(c) \/ ReadHello(c) \/ ReadAuth(c) \/ HandshakeFails(c)
    \/ Register(c) \/ RegisterFails(c) \/ WriteAck(c) \/ WriteAckFails(c) \/ Install(c)

SessionTask(c) ==
    \/ FirstPush(c) \/ FirstPushFails(c) \/ PushDirectory(c)
    \/ \E off \in BOOLEAN : ClientDisabled(c, off)
    \/ ExitLoop(c) \/ RemoveSelf(c) \/ UnregisterSelf(c)

Environment(c) ==
    \/ ListenerBind(c) \/ ListenerClose(c) \/ VisitorOfLeaked(c) \/ PeerVanishes(c)

Next ==
    \/ \E c \in Conns : Handshake(c) \/ SessionTask(c) \/ Environment(c)
    \/ OthersPublish
    \/ Shutdown
    \/ DropMap

Safety == Init /\ [][Next]_vars

\* The runtime polls every ready task: reads of a dead peer fail, writes
\* complete or fail, and a free port is bound by the next retry.  Nothing is
\* assumed of a live peer in its handshake: no timeout bounds its silence.
TaskFairness ==
    /\ \A c \in Conns :
          /\ WF_vars(c \in gone /\ HandshakeFails(c))
          /\ WF_vars(Register(c) \/ RegisterFails(c))
          /\ WF_vars(WriteAck(c) \/ WriteAckFails(c))
          /\ WF_vars(Install(c))
          /\ WF_vars(FirstPush(c) \/ FirstPushFails(c))
          /\ WF_vars(PushDirectory(c) \/ ExitLoop(c))
          /\ WF_vars(ExitLoop(c))
          /\ WF_vars(RemoveSelf(c))
          /\ WF_vars(UnregisterSelf(c))
          /\ WF_vars(ListenerBind(c))
          /\ WF_vars(ListenerClose(c))
    /\ WF_vars(DropMap)

Spec == Safety /\ TaskFairness

-----------------------------------------------------------------------------
(* Properties *)

\* Types of the sessions' state: every task is in a known phase.
TypeOK ==
    /\ pc \in [Conns -> Phases]
    /\ gone \subseteq Conns
    /\ map \in [Users -> Conns \cup {None}]
    /\ dropped \subseteq Conns
    /\ lst \in [Conns -> {"none", "binding", "bound", "closed"}]
    /\ online \in [Users -> Conns \cup {None}]
    /\ disabled \in [Users -> BOOLEAN]
    /\ told \in [Conns -> BOOLEAN]
    /\ dirty \subseteq Conns
    /\ view \in [Conns -> SUBSET Users]
    /\ serverUp \in BOOLEAN
    /\ mapAlive \in BOOLEAN
    /\ overtaken \subseteq Conns
    /\ oversized \in BOOLEAN

\* A session that serves its user is the one the registry knows, with the
\* ports it was told are off, unless a newer login of the user is under way, was
\* abandoned before its ack, or overtook this one between register and install:
\* a late exit of a replaced session changes nothing ("Stale session cannot
\* mark the user offline", registry.rs:244).
LiveSessionRegistered ==
    \A c \in Conns \ overtaken :
        (/\ pc[c] = "loop" /\ map[Owner[c]] = c
         /\ \A d \in Conns : Owner[d] = Owner[c] => pc[d] \notin {"ack", "install", "abandoned"})
        => online[Owner[c]] = c /\ disabled[Owner[c]] = told[c]

\* A user is listed online only while a task exists that will take it offline
\* again, or after one of the two early returns: the `?` of server.rs:388 on a
\* vanished peer, that of server.rs:642 on one or on a directory beyond
\* MAX_FRAME.  No interleaving of exits, logins and shutdown leaves a ghost in
\* another way.
GhostOnlyAfterEarlyReturn ==
    \A u \in Users : online[u] # None => pc[online[u]] # "done"

\* "Only ports that are reachable are listed" (README.md:111): a user who is
\* listed online has a task that will take it offline again.
NoGhostUser ==
    \A u \in Users : online[u] # None => pc[online[u]] \notin {"done", "abandoned", "leaked"}

\* The map holds no dropped handle, and once the map is gone no handle lives.
MapHoldsLiveHandles ==
    \A c \in Conns : lst[c] # "none" => (c \notin dropped <=> map[Owner[c]] = c)

\* A user's entry in the map is taken out only by a newer login, by the exit of
\* the very session in it, or with the whole map: a stale session that exits
\* late never closes its successor.
OnlySelfOrSuccessorCloses ==
    [][\A u \in Users : map[u] # None /\ map'[u] # map[u] =>
          \/ map'[u] # None /\ pc[map'[u]] = "install"
          \/ map'[u] = None /\ pc[map[u]] = "remove" /\ pc'[map[u]] = "unregister"
          \/ ~mapAlive']_vars

\* A session whose handle was dropped ends, and its listeners close.
DroppedSessionEnds ==
    \A c \in Conns : c \in dropped ~> pc[c] \in {"done", "leaked"} /\ lst[c] = "closed"

\* An installed session gets its ports, although the listeners of its
\* predecessor may still hold them at that time, unless it is dropped first.
CurrentSessionListens ==
    \A c \in Conns : map[Owner[c]] = c /\ lst[c] = "binding"
        ~> lst[c] = "bound" \/ map[Owner[c]] # c

\* Every change of the directory reaches every connected client: a change
\* between `subscribe` and the first push, or during a push, is not lost.
DirectoryReachesClients ==
    \A c \in Conns : pc[c] = "loop" /\ view[c] # Directory(online, disabled)
        ~> pc[c] # "loop" \/ view[c] = Directory(online, disabled)

\* After a shutdown the ports become free for the next instance, unless some
\* peer stays silent in its handshake for ever: session tasks hold the map
\* weakly ("a strong reference would keep the map (and thus our own shutdown
\* sender) alive", server.rs:588), handshake tasks hold it strongly.
ReloadFreesPorts ==
    <>[](\A c \in Conns : pc[c] \notin {"hello", "auth"})
        => (~serverUp ~> \A c \in Conns : lst[c] \in {"none", "closed"})
=============================================================================
