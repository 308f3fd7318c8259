--------------------------- MODULE ClientControl ----------------------------
(***************************************************************************)
(* The client's control channel (src/src/client.rs): the retry loop of     *)
(* ControlChannelHandle::new, ControlChannel::run, and the process-wide    *)
(* STATE and DISABLED that every instance of the client and the UI share.  *)
(*                                                                         *)
(* A hot reload starts the next instance without waiting for the task of   *)
(* the previous one, so several instances run this loop.  The client       *)
(* exposes one TCP port; the server is reduced to the session it currently *)
(* serves for the user and what that session reported about the port.      *)
(***************************************************************************)
EXTENDS Naturals

CONSTANTS
    NumInstances,  \* instances of the client, one plus the number of hot reloads
    MaxEvents      \* bound on what users, the local service and the network do

ASSUME BoundsAssumption == NumInstances \in Nat \ {0} /\ MaxEvents \in Nat

Instances == 1..NumInstances     \* in the order hot reloads start them

VARIABLES
    pc,          \* where each instance is
    stop,        \* instances that were told to shut down
    unseen,      \* instances whose receiver of DISABLED has an unseen value
    reported,    \* `reported`: what each instance last sent
    pushed,      \* instances with a directory frame to read
    disabled,    \* DISABLED contains the port
    st,          \* STATE: connected, disabled, directory received, port listening
    sess,        \* the instance whose session the server serves, or 0
    srv,         \* the server has the port of that session as disabled
    service,     \* something listens on the local port
    raced,       \* history: instances whose two reads of DISABLED the last toggle fell between
    stolen,      \* history: another instance than the serving one last changed what STATE says
    events       \* number of environment events so far

vars == <<pc, stop, unseen, reported, pushed, disabled, st, sess, srv, service, raced, stolen, events>>

-----------------------------------------------------------------------------
(* Reporting *)

\* unavailable_ports(STATE)
Unavailable(s) == s.disabled \/ (s.known /\ ~s.listening)

\* report_unavailable for state s, with directory frames `frames` left to read.
\* The write reaches the server if this instance's session is still the one it
\* serves; the server answers every change with a new directory.
Report(i, s, frames) ==
    LET want == Unavailable(s)
        arrives == want # reported[i] /\ sess = i
    IN  /\ reported' = [reported EXCEPT ![i] = want]
        /\ srv' = IF arrives THEN want ELSE srv
        /\ pushed' = IF arrives THEN frames \cup {i} ELSE frames
        /\ stolen' = (sess # i /\ (stolen \/ want # Unavailable(st)))

\* Mutant: retries although it was told to stop.
AlwaysRetry(i) == pc' = [pc EXCEPT ![i] = "backoff"]

\* Mutant: an error ends the task.
GiveUp(i) == pc' = [pc EXCEPT ![i] = "done"]

\* After an error: stop if told so, else sleep and retry.
AfterError(i) == pc' = [pc EXCEPT ![i] = IF i \in stop THEN "done" ELSE "backoff"]

-----------------------------------------------------------------------------
(* ControlChannel::run *)

\* Connect, hello, auth, ack, registration: the server replaces the user's
\* session and pushes a directory.  (Register and install are one step here; what
\* may fall between them is in ServerSessions.)
Login(i) ==
    /\ pc[i] = "connect"
    /\ pc' = [pc EXCEPT ![i] = "acked"]
    /\ sess' = i /\ srv' = FALSE
    /\ pushed' = pushed \cup {i}
    /\ UNCHANGED <<stop, unseen, reported, disabled, st, service, raced, stolen, events>>

\* The client reads its RegisterAck, maybe when the session was replaced already,
\* and empties the shared STATE but for a snapshot of DISABLED.
RewriteState(i) ==
    /\ pc[i] = "acked"
    /\ pc' = [pc EXCEPT ![i] = "established"]
    /\ st' = [connected |-> TRUE, disabled |-> disabled, known |-> FALSE, listening |-> FALSE]
    /\ raced' = raced \ {i}
    /\ stolen' = (sess # i /\ (stolen \/ Unavailable(st') # Unavailable(st)))
    /\ UNCHANGED <<stop, unseen, reported, pushed, disabled, sess, srv, service, events>>

\* The connection was lost before the RegisterAck was read.
AckLost(i) ==
    /\ pc[i] = "acked" /\ sess # i
    /\ AfterError(i)
    /\ pushed' = pushed \ {i}
    /\ UNCHANGED <<stop, unseen, reported, disabled, st, sess, srv, service, raced, stolen, events>>

LoginFails(i) ==
    /\ pc[i] = "connect" /\ events < MaxEvents
    /\ events' = events + 1
    /\ AfterError(i)
    /\ UNCHANGED <<stop, unseen, reported, pushed, disabled, st, sess, srv, service, raced, stolen>>

\* DISABLED.subscribe(), borrow_and_update(), reported = [].
Subscribe(i) ==
    /\ pc[i] = "established"
    /\ pc' = [pc EXCEPT ![i] = "first"]
    /\ unseen' = unseen \ {i}
    /\ reported' = [reported EXCEPT ![i] = FALSE]
    /\ UNCHANGED <<stop, pushed, disabled, st, sess, srv, service, raced, stolen, events>>

FirstReport(i) ==
    /\ pc[i] = "first"
    /\ pc' = [pc EXCEPT ![i] = "loop"]
    /\ Report(i, st, pushed)
    /\ UNCHANGED <<stop, unseen, disabled, st, sess, service, raced, events>>

\* The `?` on the first report: run returns without updating STATE.
FirstReportFails(i) ==
    /\ pc[i] = "first" /\ sess # i /\ Unavailable(st)
    /\ AfterError(i)
    /\ pushed' = pushed \ {i}
    /\ UNCHANGED <<stop, unseen, reported, disabled, st, sess, srv, service, raced, stolen, events>>

\* ControlChannelCmd::Directory: probe, update STATE, report.
RecvDirectory(i) ==
    /\ pc[i] = "loop" /\ i \in pushed
    /\ st' = [st EXCEPT !.known = TRUE, !.listening = service]
    /\ Report(i, st', pushed \ {i})
    /\ UNCHANGED <<pc, stop, unseen, disabled, sess, service, raced, events>>

\* Mutant: the result is not reported.
ProbeTickUnreported(i) ==
    /\ pc[i] = "loop"
    /\ st.listening # (st.known /\ service)
    /\ st' = [st EXCEPT !.listening = st.known /\ service]
    /\ UNCHANGED <<pc, stop, unseen, reported, pushed, disabled, sess, srv, service, raced, stolen, events>>

\* probe.tick(): only a changed result is applied.  Without a directory there
\* is nothing to probe.
ProbeTick(i) ==
    /\ pc[i] = "loop"
    /\ st.listening # (st.known /\ service)
    /\ st' = [st EXCEPT !.listening = st.known /\ service]
    /\ Report(i, st', pushed)
    /\ UNCHANGED <<pc, stop, unseen, disabled, sess, service, raced, events>>

DisabledChanged(i) ==
    /\ pc[i] = "loop" /\ i \in unseen
    /\ unseen' = unseen \ {i}
    /\ st' = [st EXCEPT !.disabled = disabled]
    /\ Report(i, st', pushed)
    /\ UNCHANGED <<pc, stop, disabled, sess, service, raced, events>>

\* A read or write on the lost connection fails.
ConnectionLost(i) ==
    /\ pc[i] = "loop" /\ sess # i
    /\ st' = [st EXCEPT !.connected = FALSE]
    /\ AfterError(i)
    /\ pushed' = pushed \ {i}
    /\ UNCHANGED <<stop, unseen, reported, disabled, sess, srv, service, raced, stolen, events>>

\* The shutdown signal is polled in the loop only.
ShutdownSeen(i) ==
    /\ pc[i] = "loop" /\ i \in stop
    /\ pc' = [pc EXCEPT ![i] = "done"]
    /\ st' = [st EXCEPT !.connected = FALSE]
    /\ sess' = IF sess = i THEN 0 ELSE sess
    /\ pushed' = pushed \ {i}
    /\ UNCHANGED <<stop, unseen, reported, disabled, srv, service, raced, stolen, events>>

\* The sleep before the next attempt is over.
Retry(i) ==
    /\ pc[i] = "backoff"
    /\ pc' = [pc EXCEPT ![i] = "connect"]
    /\ UNCHANGED <<stop, unseen, reported, pushed, disabled, st, sess, srv, service, raced, stolen, events>>

-----------------------------------------------------------------------------
(* The rest of the process, the local service and the network *)

\* Client::run of the next instance after the previous one was told to stop.
HotReload(i) ==
    /\ pc[i] = "off"
    /\ i > 1 => pc[i - 1] # "off"
    /\ pc' = [pc EXCEPT ![i] = "connect"]
    /\ stop' = stop \cup {j \in Instances : j < i}
    /\ UNCHANGED <<unseen, reported, pushed, disabled, st, sess, srv, service, raced, stolen, events>>

\* set_port_enabled: every receiver of DISABLED gets a new value to see.
SetPortEnabled ==
    /\ events < MaxEvents
    /\ events' = events + 1
    /\ disabled' = ~disabled
    /\ unseen' = {i \in Instances : pc[i] \in {"first", "loop"}}
    /\ raced' = {i \in Instances : pc[i] = "established"}
    /\ UNCHANGED <<pc, stop, reported, pushed, st, sess, srv, service, stolen>>

ServiceToggles ==
    /\ events < MaxEvents
    /\ events' = events + 1
    /\ service' = ~service
    /\ UNCHANGED <<pc, stop, unseen, reported, pushed, disabled, st, sess, srv, raced, stolen>>

\* The network or the server ends the session.
SessionLost ==
    /\ events < MaxEvents /\ sess # 0
    /\ events' = events + 1
    /\ sess' = 0 /\ srv' = FALSE
    /\ UNCHANGED <<pc, stop, unseen, reported, pushed, disabled, st, service, raced, stolen>>

Init ==
    /\ pc = [i \in Instances |-> "off"]
    /\ stop = {} /\ unseen = {} /\ pushed = {} /\ raced = {} /\ stolen = FALSE
    /\ reported = [i \in Instances |-> FALSE]
    /\ disabled = FALSE
    /\ st = [connected |-> FALSE, disabled |-> FALSE, known |-> FALSE, listening |-> FALSE]
    /\ sess = 0 /\ srv = FALSE
    /\ service \in BOOLEAN
    /\ events = 0

Run(i) ==
    \/ Login(i) \/ LoginFails(i) \/ RewriteState(i) \/ AckLost(i)
    \/ Subscribe(i) \/ FirstReport(i) \/ FirstReportFails(i)
    \/ RecvDirectory(i) \/ ProbeTick(i) \/ DisabledChanged(i)
    \/ ConnectionLost(i) \/ ShutdownSeen(i) \/ Retry(i)

Next ==
    \/ \E i \in Instances : Run(i) \/ HotReload(i)
    \/ SetPortEnabled \/ ServiceToggles \/ SessionLost

\* The runtime polls every ready task, timers fire, select! does not starve a
\* branch, and a server that is there accepts the login in the end.
Fairness ==
    /\ \A i \in Instances :
          /\ WF_vars(HotReload(i)) /\ WF_vars(Login(i))
          /\ WF_vars(RewriteState(i) \/ AckLost(i)) /\ WF_vars(Subscribe(i))
          /\ WF_vars(FirstReport(i) \/ FirstReportFails(i))
          /\ WF_vars(RecvDirectory(i)) /\ WF_vars(ProbeTick(i)) /\ WF_vars(DisabledChanged(i))
          /\ WF_vars(ConnectionLost(i)) /\ WF_vars(ShutdownSeen(i)) /\ WF_vars(Retry(i))

Spec == Init /\ [][Next]_vars /\ Fairness

-----------------------------------------------------------------------------
(* Properties *)

\* "Tell the server which ports are unavailable, now and on every change"
\* (client.rs:710): once users, service and network are quiet, the server ends
\* up with exactly the port's real state, over reconnects and hot reloads too,
\* but for three races on what instances share: the last toggle fell between the
\* two reads of DISABLED with which that session began (client.rs:686 and
\* 711-712); an instance that is about to end saw the change first and put it
\* into STATE, so that the probe of the serving one finds nothing new (764); or
\* such an instance emptied STATE late (679), so that there is nothing to probe.
ReportSettles ==
    <>[](/\ sess # 0 /\ pc[sess] = "loop"
         /\ sess \in raced \/ stolen \/ ~st.known \/ srv = (disabled \/ ~service))

\* An instance that was told to stop ends, wherever it was: sleeping, in the
\* middle of a login or just replaced by its successor.
StoppedInstanceEnds == \A i \in Instances : i \in stop ~> pc[i] = "done"

\* After hot reloads the last instance serves the user, although an older one
\* that was asleep may log in once more and push it out.
LastInstanceServes == <>[](sess = NumInstances /\ pc[NumInstances] = "loop")

\* The process-wide STATE ends up telling whether the client is connected:
\* "process-wide state, one client per process" (client.rs:55).
StateSettles == <>[](st.connected <=> \E i \in Instances : pc[i] = "loop" /\ sess = i)

\* "What the client currently knows, for the CLI table and the desktop UI":
\* it does not claim to be connected when no instance has a connection.
ConnectedIsCurrent ==
    st.connected => \E i \in Instances : pc[i] \in {"established", "first", "loop"}
=============================================================================
