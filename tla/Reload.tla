------------------------------- MODULE Reload -------------------------------
(***************************************************************************)
(* Hot reload: the config watcher, the queue of configurations and the     *)
(* loop that replaces the running instance (src/src/config_watcher.rs and  *)
(* run / run_instance of src/src/lib.rs, the signal handler of main.rs).   *)
(*                                                                         *)
(* The contents of the configuration file are a model value with the       *)
(* sections they define.  The instance is seen from outside: modules       *)
(* ServerSessions and ClientControl model what it does between its start   *)
(* and its stop.                                                           *)
(***************************************************************************)
EXTENDS Naturals, Sequences

CONSTANTS
    Contents,    \* what the file may hold
    Parses,      \* contents whose sections parse and validate
    Sections,    \* the sections, [server] and [client], of each contents
    Flags,       \* the ones of --server and --client that were given
    Builds,      \* contents whose transport is built and whose address is bound
    MaxEdits     \* bound on edits of the file

Modes == {"server", "client"}

\* Config::parse: a file without any section is invalid.
Valid == {c \in Parses : Sections[c] # {}}

\* determine_run_mode, as the set of modes to choose from: the flags decide,
\* and without flags the only section.
RunMode(c) == IF Flags # {} THEN Flags ELSE Sections[c]

\* run_instance panics unless the mode is determined, and run_server and
\* run_client fail without their section.
Startable ==
    {c \in Valid \cap Builds : \E m \in Sections[c] : RunMode(c) = {m}}

ASSUME ContentsAssumption ==
    /\ Parses \subseteq Contents /\ Builds \subseteq Contents
    /\ Sections \in [Contents -> SUBSET Modes] /\ Flags \subseteq Modes
    /\ MaxEdits \in Nat

VARIABLES
    file,       \* contents of the configuration file
    edits,      \* edits made
    fevents,    \* file events in fevent_rx
    watcher,    \* where config_watcher is
    old,        \* the watcher's last configuration
    queue,      \* event_rx
    main,       \* where run's loop is
    next,       \* the configuration taken from event_rx
    inst,       \* the instance: its task's state and its configuration
    stop,       \* the instance's receiver holds the shutdown message
    ctrlC,      \* the user asked the process to end
    missed,     \* history: the last edit fell before the watch was in place
    unwatched   \* history: the watch could not be set up

vars == <<file, edits, fevents, watcher, old, queue, main, next, inst, stop, ctrlC, missed, unwatched>>

Alive == main \notin {"exited", "error"}

-----------------------------------------------------------------------------
(* The file and the watcher *)

Edit(c) ==
    /\ Alive /\ edits < MaxEdits
    /\ edits' = edits + 1
    /\ file' = c
    /\ missed' = (watcher = "start")
    /\ fevents' = IF missed' THEN fevents ELSE fevents + 1
    /\ UNCHANGED <<watcher, old, queue, main, next, inst, stop, ctrlC, unwatched>>

\* watch_file, at the start of the spawned task.
StartWatching ==
    /\ Alive /\ watcher = "start"
    /\ watcher' = "select"
    /\ UNCHANGED <<file, edits, fevents, old, queue, main, next, inst, stop, ctrlC, missed, unwatched>>

\* `watch_file(&path)?`: the watcher returns and drops event_tx; its error is
\* the result of a task that nobody awaits.
WatchFails ==
    /\ Alive /\ watcher = "start"
    /\ watcher' = "exited"
    /\ unwatched' = TRUE
    /\ UNCHANGED <<file, edits, fevents, old, queue, main, next, inst, stop, ctrlC, missed>>

TakeFileEvent ==
    /\ Alive /\ watcher = "select" /\ fevents > 0
    /\ fevents' = fevents - 1
    /\ watcher' = "read"
    /\ UNCHANGED <<file, edits, old, queue, main, next, inst, stop, ctrlC, missed, unwatched>>

\* Mutant: an invalid file ends the watcher.
InvalidEndsWatcher ==
    /\ Alive /\ watcher = "read"
    /\ file \notin Valid \/ file = old
    /\ watcher' = IF file \in Valid THEN "select" ELSE "exited"
    /\ UNCHANGED <<file, edits, fevents, old, queue, main, next, inst, stop, ctrlC, missed, unwatched>>

\* "If the config is invalid, just ignore it"; so too one equal to old.
IgnoreContents ==
    /\ Alive /\ watcher = "read"
    /\ file \notin Valid \/ file = old
    /\ watcher' = "select"
    /\ UNCHANGED <<file, edits, fevents, old, queue, main, next, inst, stop, ctrlC, missed, unwatched>>

\* Mutant: the watcher compares with the first configuration for ever.
SendWithoutMemory ==
    /\ Alive /\ watcher = "read"
    /\ file \in Valid /\ file # old
    /\ watcher' = "select"
    /\ queue' = Append(queue, file)
    /\ UNCHANGED <<file, edits, fevents, old, main, next, inst, stop, ctrlC, missed, unwatched>>

SendConfig ==
    /\ Alive /\ watcher = "read"
    /\ file \in Valid /\ file # old
    /\ watcher' = "select"
    /\ queue' = Append(queue, file)
    /\ old' = file
    /\ UNCHANGED <<file, edits, fevents, main, next, inst, stop, ctrlC, missed, unwatched>>

\* Ctrl-C, sent on the broadcast channel by main.rs.
CtrlC ==
    /\ Alive /\ ~ctrlC
    /\ ctrlC' = TRUE
    /\ UNCHANGED <<file, edits, fevents, watcher, old, queue, main, next, inst, stop, missed, unwatched>>

\* The watcher leaves its select and drops event_tx.
WatcherStops ==
    /\ Alive /\ watcher = "select" /\ ctrlC
    /\ watcher' = "exited"
    /\ UNCHANGED <<file, edits, fevents, old, queue, main, next, inst, stop, ctrlC, missed, unwatched>>

-----------------------------------------------------------------------------
(* The loop of run *)

\* tokio::spawn(run_instance(config, .., shutdown_tx.subscribe())): a message
\* sent before is not seen by the new receiver.
Spawn(c) ==
    /\ inst' = [st |-> "starting", cfg |-> c]
    /\ stop' = FALSE
    /\ main' = "recv"

First ==
    /\ main = "recv" /\ queue # <<>> /\ inst.st = "none"
    /\ queue' = Tail(queue)
    /\ next' = Head(queue)
    /\ Spawn(Head(queue))
    /\ UNCHANGED <<file, edits, fevents, watcher, old, ctrlC, missed, unwatched>>

\* Mutant: the instance is joined without being told.
JoinSilently ==
    /\ main = "recv" /\ queue # <<>> /\ inst.st \in {"starting", "running"}
    /\ queue' = Tail(queue)
    /\ next' = Head(queue)
    /\ main' = "join"
    /\ UNCHANGED <<file, edits, fevents, watcher, old, inst, stop, ctrlC, missed, unwatched>>

\* shutdown_tx.send(true)? reaches the instance as long as its task runs.
TellInstance ==
    /\ main = "recv" /\ queue # <<>> /\ inst.st \in {"starting", "running"}
    /\ queue' = Tail(queue)
    /\ next' = Head(queue)
    /\ stop' = TRUE
    /\ main' = "join"
    /\ UNCHANGED <<file, edits, fevents, watcher, old, inst, ctrlC, missed, unwatched>>

\* The instance has failed and dropped its receiver: the send is an error and
\* run returns it.
SendFails ==
    /\ main = "recv" /\ queue # <<>> /\ inst.st = "failed"
    /\ queue' = Tail(queue)
    /\ next' = Head(queue)
    /\ main' = "error"
    /\ UNCHANGED <<file, edits, fevents, watcher, old, inst, stop, ctrlC, missed, unwatched>>

\* i.await?? after a clean end.
Restart ==
    /\ main = "join" /\ inst.st = "ended"
    /\ Spawn(next)
    /\ UNCHANGED <<file, edits, fevents, watcher, old, queue, next, ctrlC, missed, unwatched>>

\* i.await?? of an instance that failed or panicked.
JoinFails ==
    /\ main = "join" /\ inst.st = "failed"
    /\ main' = "error"
    /\ UNCHANGED <<file, edits, fevents, watcher, old, queue, next, inst, stop, ctrlC, missed, unwatched>>

\* Mutant: waits for the instance, which nobody told to stop.
FinishAfterInstance ==
    /\ main = "recv" /\ queue = <<>> /\ watcher = "exited" /\ inst.st = "ended"
    /\ main' = "exited"
    /\ stop' = TRUE
    /\ UNCHANGED <<file, edits, fevents, watcher, old, queue, next, inst, ctrlC, missed, unwatched>>

\* event_rx.recv() returns None: every sender is gone and the queue is empty.
Finish ==
    /\ main = "recv" /\ queue = <<>> /\ watcher = "exited"
    /\ main' = "exited"
    /\ stop' = TRUE
    /\ UNCHANGED <<file, edits, fevents, watcher, old, queue, next, inst, ctrlC, missed, unwatched>>

-----------------------------------------------------------------------------
(* The instance *)

InstanceStarts ==
    /\ Alive /\ inst.st = "starting" /\ inst.cfg \in Startable
    /\ inst' = [inst EXCEPT !.st = "running"]
    /\ UNCHANGED <<file, edits, fevents, watcher, old, queue, main, next, stop, ctrlC, missed, unwatched>>

\* run_server or run_client returns an error, or run_instance panics because
\* the run mode is not determined.  Nobody looks at the task until the next
\* configuration.
InstanceFails ==
    /\ Alive /\ inst.st = "starting" /\ inst.cfg \notin Startable
    /\ inst' = [inst EXCEPT !.st = "failed"]
    /\ UNCHANGED <<file, edits, fevents, watcher, old, queue, main, next, stop, ctrlC, missed, unwatched>>

InstanceStops ==
    /\ Alive /\ inst.st = "running" /\ stop
    /\ inst' = [inst EXCEPT !.st = "ended"]
    /\ UNCHANGED <<file, edits, fevents, watcher, old, queue, main, next, stop, ctrlC, missed, unwatched>>

\* ConfigWatcherHandle::new has read the file and queued the initial start.
Init ==
    /\ file \in Valid
    /\ edits = 0 /\ fevents = 0
    /\ watcher = "start" /\ old = file
    /\ queue = <<file>> /\ next = file
    /\ main = "recv"
    /\ inst = [st |-> "none", cfg |-> file]
    /\ stop = FALSE /\ ctrlC = FALSE /\ missed = FALSE /\ unwatched = FALSE

WatcherStep == StartWatching \/ TakeFileEvent \/ IgnoreContents \/ SendConfig

MainStep == First \/ TellInstance \/ SendFails \/ Restart \/ JoinFails \/ Finish

InstanceStep == InstanceStarts \/ InstanceFails \/ InstanceStops

Next ==
    \/ \E c \in Contents : Edit(c)
    \/ CtrlC \/ WatcherStops \/ WatchFails
    \/ WatcherStep \/ MainStep \/ InstanceStep

\* The runtime polls every task; with finitely many edits the watcher's select
\* is in the end left with nothing but the pending shutdown.
Spec ==
    /\ Init /\ [][Next]_vars
    /\ WF_vars(WatcherStep) /\ WF_vars(MainStep) /\ WF_vars(InstanceStep)
    /\ WF_vars(WatcherStops)

-----------------------------------------------------------------------------
(* Properties *)

\* An instance is never torn down for a configuration equal to its own, however
\* many file events, invalid contents and repeated edits lie between the two: what
\* the watcher remembers and what runs are a queue apart (`new != old`,
\* config_watcher.rs:105).
NoIdleRestart == main = "join" => next # inst.cfg

\* An instance told to stop is replaced or the process ends: the loop never
\* waits for ever on an instance that misses its shutdown message.
StopIsHeard == (main = "join") ~> (main # "join")

\* Ctrl-C ends the process, also in the middle of a reload.
CtrlCEnds == ctrlC ~> ~Alive

\* The file's last contents end up running, whatever sequence of edits, valid
\* or not, led there ("Services can be added or removed dynamically by
\* hot-reloading the configuration file", README.md:38), unless run returned
\* the error of an instance that had failed (lib.rs:90-91), the last edit came
\* between the first read of the file and the watch, or the watch could not be
\* set up at all, which ends the process (config_watcher.rs:88).
LastConfigRuns ==
    <>[](file \in Startable /\ ~ctrlC /\ main # "error" /\ ~missed /\ ~unwatched
         => inst = [st |-> "running", cfg |-> file])

=============================================================================
