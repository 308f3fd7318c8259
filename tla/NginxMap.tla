------------------------------ MODULE NginxMap ------------------------------
(***************************************************************************)
(* The task that keeps the nginx map file in step with the directory       *)
(* (src/src/server.rs: run_nginx_map, update_nginx_map), over server       *)
(* instances: a config reload aborts the task at whatever await it is in   *)
(* and the next instance starts a new one on the same file.                *)
(*                                                                         *)
(* A directory is what render_nginx_map makes of it, a model value: online *)
(* states are not rendered, so only a change of the TCP allocations        *)
(* changes it.  nginx itself is external: it loads the file on reload.     *)
(***************************************************************************)
EXTENDS Naturals

CONSTANTS
    Maps,          \* rendered maps
    MaxChanges,    \* bound on changes of the directory
    MaxFaults,     \* bound on failed commands and server reloads
    Torn,          \* contents that are no rendered map
    None

ASSUME BoundsAssumption == MaxChanges \in Nat /\ MaxFaults \in Nat /\ {Torn, None} \cap Maps = {}

VARIABLES
    dir,        \* the published directory
    unseen,     \* the task's receiver has an unseen value
    task,       \* where the task is
    want,       \* the map it rendered from its copy of the directory
    file,       \* contents of map_file
    nginx,      \* the map nginx has loaded
    command,    \* reload_cmd is set for the running instance
    owed,       \* history: the last write failed and the task has not woken since
    late,       \* map that an aborted task is still writing
    unreloaded, \* history: the last write was not followed by a reload of nginx
    stale,      \* history: the last write was one of an aborted task
    changes, faults

vars == <<dir, unseen, task, want, file, nginx, command, owed, late, unreloaded, stale, changes, faults>>

\* registry.publish; a change of online states alone renders the same map.
DirectoryChanges(d) ==
    /\ changes < MaxChanges
    /\ changes' = changes + 1
    /\ dir' = d
    /\ unseen' = TRUE
    /\ UNCHANGED <<task, want, file, nginx, command, owed, late, unreloaded, stale, faults>>

\* Top of the loop, at the start or after rx.changed(): borrow_and_update.
Wake ==
    /\ task = "start" \/ (task = "wait" /\ unseen)
    /\ unseen' = FALSE
    /\ owed' = FALSE
    /\ want' = dir
    /\ task' = "compare"
    /\ UNCHANGED <<dir, file, nginx, command, late, unreloaded, stale, changes, faults>>

\* The file already holds this map: nothing to do.
UpToDate ==
    /\ task = "compare" /\ file = want
    /\ task' = "wait"
    /\ UNCHANGED <<dir, unseen, want, file, nginx, command, owed, late, unreloaded, stale, changes, faults>>

\* Without reload_cmd (a warning) nginx keeps its map until somebody reloads it.
WriteMap ==
    /\ task = "compare" /\ file # want
    /\ file' = want
    /\ stale' = FALSE
    /\ task' = IF command THEN "reload" ELSE "wait"
    /\ unreloaded' = (unreloaded \/ ~command)
    /\ UNCHANGED <<dir, unseen, want, nginx, command, owed, late, changes, faults>>

\* The error is logged and the task waits for the next change; the write may have
\* truncated the file and got as far as any contents.
WriteFails ==
    /\ faults < MaxFaults
    /\ task = "compare" /\ file # want
    /\ faults' = faults + 1
    /\ file' \in Maps \cup {file, Torn}
    /\ unreloaded' = (unreloaded \/ file' # file)
    /\ owed' = TRUE
    /\ task' = "wait"
    /\ UNCHANGED <<dir, unseen, want, nginx, command, late, stale, changes>>

\* Mutant: marks what came in meanwhile as seen.
RunReloadCmdMarksSeen ==
    /\ task = "reload"
    /\ nginx' = file
    /\ task' = "wait"
    /\ unseen' = FALSE
    /\ unreloaded' = FALSE
    /\ UNCHANGED <<dir, want, file, command, owed, late, stale, changes, faults>>

RunReloadCmd ==
    /\ task = "reload"
    /\ nginx' = file
    /\ task' = "wait"
    /\ unreloaded' = FALSE
    /\ UNCHANGED <<dir, unseen, want, file, command, owed, late, stale, changes, faults>>

ReloadCmdFails ==
    /\ faults < MaxFaults
    /\ task = "reload"
    /\ faults' = faults + 1
    /\ task' = "wait"
    /\ unreloaded' = TRUE
    /\ UNCHANGED <<dir, unseen, want, file, nginx, command, owed, late, stale, changes>>

\* Server::run aborts the task; the next instance subscribes and starts anew.
\* Abort takes effect at an await: a write that has begun goes on, on the
\* blocking pool, and reload_cmd, once spawned, is not killed.
ServerReload ==
    /\ faults < MaxFaults
    /\ faults' = faults + 1
    /\ task' = "start"
    /\ command' \in BOOLEAN
    /\ unreloaded' = (unreloaded \/ task = "reload")
    /\ late' \in {late} \cup (IF task = "compare" /\ file # want /\ late = None THEN {want} ELSE {})
    /\ UNCHANGED <<dir, unseen, want, file, nginx, owed, stale, changes>>

\* The write of the aborted task, at any time after the abort.
LateWrite ==
    /\ late # None
    /\ file' = late
    /\ late' = None
    /\ stale' = TRUE
    /\ UNCHANGED <<dir, unseen, task, want, nginx, command, owed, unreloaded, changes, faults>>

Init ==
    /\ dir \in Maps /\ want \in Maps /\ file \in Maps \cup {Torn}
    /\ nginx = file /\ command \in BOOLEAN
    /\ unseen = FALSE /\ owed = FALSE /\ unreloaded = FALSE /\ task = "start"
    /\ late = None /\ stale = FALSE
    /\ changes = 0 /\ faults = 0

Next ==
    \/ \E d \in Maps : DirectoryChanges(d)
    \/ Wake \/ UpToDate \/ WriteMap \/ WriteFails \/ RunReloadCmd \/ ReloadCmdFails
    \/ ServerReload \/ LateWrite

\* The task is polled; commands end.
Spec ==
    /\ Init /\ [][Next]_vars
    /\ WF_vars(Wake) /\ WF_vars(UpToDate) /\ WF_vars(WriteMap \/ WriteFails)
    /\ WF_vars(RunReloadCmd \/ ReloadCmdFails) /\ WF_vars(LateWrite)

-----------------------------------------------------------------------------
(* Properties *)

\* "Keep the nginx map in sync with the directory" (server.rs:143): when the
\* directory is quiet the file holds it, unless the write failed or the write of an
\* aborted task came last, and nginx serves the file, whatever changed while the
\* task wrote and wherever a server reload cut the task off, unless reload_cmd
\* failed, is not set or was never run because the abort fell just before it (the
\* next instance trusts the file: server.rs:249-255).
NginxFollows ==
    <>[](/\ file = dir \/ owed \/ stale
         /\ nginx = file \/ unreloaded \/ stale)
=============================================================================
