------------------------------ MODULE Aliases -------------------------------
(***************************************************************************)
(* Alias listeners of a client (src/src/client.rs: alias_ports, Aliases,   *)
(* run_alias) and the probe of its own local ports (probe_listening), over *)
(* the sessions and hot reloads of the client.  A hot reload tells the     *)
(* control channel task to stop but does not wait for it: it may handle    *)
(* directories while the next instance's channel does.  Each session has   *)
(* its own Aliases; tasks it aborts end some time later; STATE, and the    *)
(* ports on 127.0.0.1, are shared by all of them and the user's services.  *)
(*                                                                         *)
(* A directory is a set of mappings; Directories are the ones the server   *)
(* may push.  Ports are TCP ports of this machine and of the server alike. *)
(* A bind fails when anybody listens on the port (as on Linux).            *)
(***************************************************************************)
EXTENDS Naturals, FiniteSets

CONSTANTS
    Ports,
    Me,             \* the user of this client
    Directories,    \* sets of [user, proto, local, remote, online]
    None,
    Channels,       \* bound: control channel tasks that overlap
    Slots,          \* bound: tasks of one port that may exist at a time
    MaxEvents       \* bound: sessions, directories, changes of services

ASSUME DirectoriesAssumption ==
    \A d \in Directories : \A m \in d : m.local \in Ports /\ m.remote \in Ports
ASSUME BoundsAssumption == Slots \in Nat /\ MaxEvents \in Nat

VARIABLES
    connected,  \* channels past registration
    now,        \* the channel of the running instance
    told,       \* channels of earlier instances: their shutdown signal was sent
    on,         \* channels whose alias_bind is not empty
    dir,        \* STATE.directory
    listening,  \* STATE.listening
    got,        \* the directory each channel is handling and its probe, or None
    applied,    \* history: the directory each channel applied last
    tasks,      \* each channel's Aliases.tasks: slot of the port's task, 0 for none
    st,         \* where each task of run_alias is, "none" when it has ended
    aborted,    \* tasks whose handle was aborted
    service,    \* ports the user's own services listen on
    events

vars ==
    <<connected, now, told, on, dir, listening, got, applied, tasks, st, aborted, service, events>>

Tasks == Ports \X (1..Slots)

-----------------------------------------------------------------------------
(* Directory handling *)

\* Mutant: the own local ports are not left out.
AliasPortsOfAll(d) ==
    {m.remote : m \in {n \in d : n.online /\ n.proto = "tcp" /\ n.user # Me}}

\* alias_ports: remote ports of other users' online TCP mappings, except ports
\* that are one of our own local ports.
AliasPorts(d) ==
    {m.remote : m \in {n \in d : n.online /\ n.proto = "tcp" /\ n.user # Me}}
    \ {m.local : m \in {n \in d : n.user = Me}}

\* `alias_bind = ""` turns aliases off.
Want(c, d) == IF c \in on THEN AliasPorts(d) ELSE {}

\* Something accepts connections on the port.
Taken(p) == p \in service \/ \E n \in 1..Slots : st[<<p, n>>] = "open"

OwnTcp(d) == {m.local : m \in {n \in d : n.user = Me /\ n.proto = "tcp"}}

\* probe_listening: connect to every own local TCP port.
Probe(d) == {p \in OwnTcp(d) : Taken(p)}

NoHandles == [p \in Ports |-> 0]
Handles(c) == {t \in Tasks : tasks[c][t[1]] = t[2]}

\* A session registers, maybe of an instance that was told to stop while it
\* logged in: an empty state and no aliases.
Connect(c) ==
    /\ c \in ({now} \cup told) \ connected /\ events < MaxEvents
    /\ connected' = connected \cup {c}
    /\ on' \in {on \ {c}, on \cup {c}}
    /\ dir' = {} /\ listening' = {}
    /\ applied' = [applied EXCEPT ![c] = {}]
    /\ tasks' = [tasks EXCEPT ![c] = NoHandles]
    /\ events' = events + 1
    /\ UNCHANGED <<now, told, got, st, aborted, service>>

\* The login fails, and the channel was told to stop.
GivesUp(c) ==
    /\ c \in told \ connected
    /\ told' = told \ {c}
    /\ UNCHANGED <<connected, now, on, dir, listening, got, applied, tasks, st, aborted, service, events>>

\* handle.shutdown(), and the next instance starts: nobody waits for the task.
HotReload(c) ==
    /\ events < MaxEvents
    /\ c \notin {now} \cup told
    /\ told' = told \cup {now} /\ now' = c
    /\ events' = events + 1
    /\ UNCHANGED <<connected, on, dir, listening, got, applied, tasks, st, aborted, service>>

\* ControlChannelCmd::Directory: the ports are probed first ...
ReceiveDirectory(c, d) ==
    /\ c \in connected /\ got[c] = None /\ events < MaxEvents
    /\ got' = [got EXCEPT ![c] = [dir |-> d, seen |-> Probe(d)]]
    /\ events' = events + 1
    /\ UNCHANGED <<connected, now, told, on, dir, listening, applied, tasks, st, aborted, service>>

FreeSlots(p) == {n \in 1..Slots : st[<<p, n>>] = "none"}
NewSlot(p) == CHOOSE n \in FreeSlots(p) : TRUE

\* The rest of the handler: the state is updated.
Applied(c) ==
    /\ applied' = [applied EXCEPT ![c] = got[c].dir]
    /\ dir' = got[c].dir /\ listening' = got[c].seen
    /\ got' = [got EXCEPT ![c] = None]
    /\ UNCHANGED <<connected, now, told, on, service, events>>

\* ... then Aliases::apply: abort what is not wanted any more, start what is new.
Apply(c) ==
    LET want == Want(c, got[c].dir)
        new == {p \in want : tasks[c][p] = 0}
    IN  /\ got[c] # None /\ \A p \in new : FreeSlots(p) # {}
        /\ aborted' = aborted \cup {t \in Handles(c) : t[1] \notin want}
        /\ tasks' = [tasks EXCEPT ![c] =
                        [p \in Ports |-> IF p \in new THEN NewSlot(p)
                                         ELSE IF p \in want THEN tasks[c][p] ELSE 0]]
        /\ st' = [t \in Tasks |->
                    IF t[1] \in new /\ tasks'[c][t[1]] = t[2] THEN "check" ELSE st[t]]
        /\ Applied(c)

\* probe.tick(): the state is updated when the answer differs.
ProbeTick(c) ==
    /\ c \in connected /\ got[c] = None
    /\ Probe(dir) # listening
    /\ listening' = Probe(dir)
    /\ UNCHANGED <<connected, now, told, on, dir, got, applied, tasks, st, aborted, service, events>>

\* Mutant: the tasks are not aborted, only their handles dropped.
DisconnectDetaches(c) ==
    /\ c \in connected /\ got[c] = None
    /\ connected' = connected \ {c} /\ told' = told \ {c}
    /\ tasks' = [tasks EXCEPT ![c] = NoHandles]
    /\ UNCHANGED <<now, on, dir, listening, got, applied, st, aborted, service, events>>

\* The session ends between two handlers; Aliases is dropped.
Disconnect(c) ==
    /\ c \in connected /\ got[c] = None
    /\ connected' = connected \ {c} /\ told' = told \ {c}
    /\ aborted' = aborted \cup Handles(c)
    /\ tasks' = [tasks EXCEPT ![c] = NoHandles]
    /\ UNCHANGED <<now, on, dir, listening, got, applied, st, service, events>>

-----------------------------------------------------------------------------
(* The task of one alias: run_alias *)

Move(t, from, to) ==
    /\ st[t] = from /\ st' = [st EXCEPT ![t] = to]
    /\ UNCHANGED <<connected, now, told, on, dir, listening, got, applied, tasks, aborted, service, events>>

\* Mutant: gives up when the port is taken.
CheckOnce(t) == Move(t, "check", IF Taken(t[1]) THEN "none" ELSE "bind")

\* TcpStream::connect(bind): somebody listens there already.
Check(t) == Move(t, "check", IF Taken(t[1]) THEN "sleep" ELSE "bind")

\* TcpListener::bind: the port may have been taken since the check.
Bind(t) == Move(t, "bind", IF Taken(t[1]) THEN "sleep" ELSE "open")

WakeUp(t) == Move(t, "sleep", "check")

\* The abort takes effect at an await: the listener is dropped, and the JoinSet
\* with the visitors' connections.
Cancelled(t) ==
    /\ t \in aborted
    /\ st' = [st EXCEPT ![t] = "none"]
    /\ aborted' = aborted \ {t}
    /\ UNCHANGED <<connected, now, told, on, dir, listening, got, applied, tasks, service, events>>

\* A service of the user starts or stops listening.
ServiceChanges(p) ==
    /\ events < MaxEvents
    /\ p \in service \/ ~Taken(p)
    /\ service' = IF p \in service THEN service \ {p} ELSE service \cup {p}
    /\ events' = events + 1
    /\ UNCHANGED <<connected, now, told, on, dir, listening, got, applied, tasks, st, aborted>>

Init ==
    /\ connected = {} /\ now \in Channels /\ told = {} /\ on = {}
    /\ dir = {} /\ listening = {}
    /\ got = [c \in Channels |-> None] /\ applied = [c \in Channels |-> {}]
    /\ tasks = [c \in Channels |-> NoHandles]
    /\ st = [t \in Tasks |-> "none"]
    /\ aborted = {}
    /\ service \in SUBSET Ports
    /\ events = 0

Next ==
    \/ \E c \in Channels :
          \/ Connect(c) \/ GivesUp(c) \/ HotReload(c)
          \/ Apply(c) \/ ProbeTick(c) \/ Disconnect(c)
    \/ \E c \in Channels, d \in Directories : ReceiveDirectory(c, d)
    \/ \E t \in Tasks : Check(t) \/ Bind(t) \/ WakeUp(t) \/ Cancelled(t)
    \/ \E p \in Ports : ServiceChanges(p)

\* Tasks are polled and timers fire, a channel that was told to stop does so;
\* sessions and services need not change.
Spec ==
    /\ Init /\ [][Next]_vars
    /\ \A c \in Channels :
          WF_vars(Apply(c)) /\ WF_vars(ProbeTick(c)) /\ WF_vars(c \in told /\ Disconnect(c))
    /\ \A t \in Tasks :
          WF_vars(Check(t)) /\ WF_vars(Bind(t)) /\ WF_vars(WakeUp(t)) /\ WF_vars(Cancelled(t))

-----------------------------------------------------------------------------
(* Properties *)

\* Types of the alias state.
TypeOK ==
    /\ connected \subseteq Channels /\ now \in Channels /\ told \subseteq Channels /\ on \subseteq Channels
    /\ got = [c \in Channels |-> got[c]]
    /\ tasks \in [Channels -> [Ports -> 0..Slots]]
    /\ st \in [Tasks -> {"none", "check", "bind", "sleep", "open"}]
    /\ aborted \subseteq Tasks /\ service \subseteq Ports

\* Every task that runs on is the one that one live channel's Aliases holds for
\* its port: over reconnects, hot reloads whose channels overlap and directories
\* in any order no task is left behind that nobody can abort, and none is held
\* twice ("Dropping the JoinSet", client.rs:575, and Drop).
NoOrphans ==
    \A t \in Tasks : st[t] # "none" /\ t \notin aborted =>
        \E c \in connected : \A o \in Channels : t \in Handles(o) <=> o = c

\* When things are quiet, exactly the aliases are open that the directory wants
\* which the channel applied last, but for ports on which a service listens: a
\* port that a previous alias still held, of this or of an earlier session, or
\* of the previous instance's channel, is taken over in the end.
AliasesSettle ==
    <>[](\A p \in Ports :
            (\E n \in 1..Slots : st[<<p, n>>] = "open")
            <=> p \notin service /\ \E c \in connected : p \in Want(c, applied[c]))

\* What the client believes, and reports, about its own ports becomes true
\* again: an alias is never mistaken for the user's service for good, although
\* the probe of a directory runs before apply closes the alias on a port that
\* has become our own.  But an earlier instance's channel that handles a directory
\* late leaves its own one in STATE until the next comes.
ListeningSettles ==
    <>[](\A c \in connected : dir = applied[c] => listening = OwnTcp(dir) \cap service)
=============================================================================
