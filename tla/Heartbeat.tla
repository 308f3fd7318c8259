----------------------------- MODULE Heartbeat ------------------------------
(***************************************************************************)
(* The application-layer heartbeat of a control channel, in time: the      *)
(* server's select! loop sends HeartBeat after heartbeat_interval without  *)
(* another event (src/src/server.rs), the client's select! loop gives up   *)
(* after heartbeat_timeout (src/src/client.rs).  Both timers are           *)
(* `time::sleep` expressions inside select!, so every iteration of the     *)
(* loop starts them again; the client's loop also iterates for its probe   *)
(* interval.  One tick is one unit of time; a due timer fires before time  *)
(* goes on.                                                                *)
(***************************************************************************)
EXTENDS Naturals

CONSTANTS
    Interval,    \* server.heartbeat_interval (default 30), 0: off
    Timeout,     \* client.heartbeat_timeout (default 40), 0: off
    Probe,       \* PROBE_INTERVAL_SECS (5)
    MaxToggles   \* bound on the user's changes of the disabled ports

ASSUME TimesAssumption == Interval \in Nat /\ Timeout \in Nat /\ Probe \in Nat \ {0}
ASSUME BoundAssumption == MaxToggles \in Nat

VARIABLES
    sendIn,      \* age of the server's sleep
    idle,        \* age of the client's sleep
    sinceProbe,  \* age of the client's probe interval
    link,        \* "ok", or "silent": nothing arrives any more, nothing fails
    frame,       \* a frame is waiting in frame_rx
    report,      \* a report is waiting in the server's client_rx
    connected,   \* the client is in its loop
    toggles      \* changes of the disabled ports so far

vars == <<sendIn, idle, sinceProbe, link, frame, report, connected, toggles>>

\* Frames that are sent on a good link arrive.
Deliver == frame' = (link = "ok" \/ frame)

\* report_unavailable: it may have something to tell the server, and on a silent
\* link that may arrive or not.
MayReport == report' \in {report, TRUE}

\* The server's sleep is over.
SendHeartbeat ==
    /\ Interval # 0 /\ sendIn = Interval
    /\ sendIn' = 0
    /\ Deliver
    /\ UNCHANGED <<idle, sinceProbe, link, report, connected, toggles>>

\* The server pushes a directory or requests a data channel.
SendOther ==
    /\ sendIn' = 0
    /\ Deliver
    /\ UNCHANGED <<idle, sinceProbe, link, report, connected, toggles>>

\* client_rx.recv(): the server's loop starts over and nothing is sent; the new
\* directory, if there is one, is a SendOther.
RecvReport ==
    /\ report
    /\ report' = FALSE
    /\ sendIn' = 0
    /\ UNCHANGED <<idle, sinceProbe, link, frame, connected, toggles>>

\* Mutant: a frame does not restart the timeout.
RecvFrameNoReset ==
    /\ connected /\ frame
    /\ frame' = FALSE
    /\ MayReport
    /\ UNCHANGED <<sendIn, idle, sinceProbe, link, connected, toggles>>

\* The client handles a frame, after a directory reports, and its loop starts over.
RecvFrame ==
    /\ connected /\ frame
    /\ frame' = FALSE
    /\ idle' = 0
    /\ MayReport
    /\ UNCHANGED <<sendIn, sinceProbe, link, connected, toggles>>

\* probe.tick(): the loop starts over.
ProbeTick ==
    /\ connected /\ sinceProbe = Probe
    /\ sinceProbe' = 0
    /\ idle' = 0
    /\ MayReport
    /\ UNCHANGED <<sendIn, link, frame, connected, toggles>>

\* disabled_rx.changed(): the loop starts over.
DisabledChanged ==
    /\ connected /\ toggles < MaxToggles
    /\ toggles' = toggles + 1
    /\ idle' = 0
    /\ MayReport
    /\ UNCHANGED <<sendIn, sinceProbe, link, frame, connected>>

\* Mutant: off by one, so that the timeout is never met.
TimedOutLate ==
    /\ connected /\ Timeout # 0 /\ idle > Timeout
    /\ connected' = FALSE
    /\ UNCHANGED <<sendIn, idle, sinceProbe, link, frame, report, toggles>>

\* "Heartbeat timed out": leave the loop.
TimedOut ==
    /\ connected /\ Timeout # 0 /\ idle = Timeout
    /\ connected' = FALSE
    /\ UNCHANGED <<sendIn, idle, sinceProbe, link, frame, report, toggles>>

LinkGoesSilent ==
    /\ link = "ok"
    /\ link' = "silent"
    /\ UNCHANGED <<sendIn, idle, sinceProbe, frame, report, connected, toggles>>

\* Nothing is due.
Tick ==
    /\ ~report /\ (Interval # 0 => sendIn < Interval)
    /\ connected => sinceProbe < Probe /\ ~frame /\ (Timeout # 0 => idle < Timeout)
    /\ sendIn' = IF Interval # 0 THEN sendIn + 1 ELSE 0
    /\ idle' = IF connected /\ Timeout # 0 THEN idle + 1 ELSE 0
    /\ sinceProbe' = IF connected THEN sinceProbe + 1 ELSE 0
    /\ UNCHANGED <<link, frame, report, connected, toggles>>

Init ==
    /\ sendIn = 0 /\ idle = 0 /\ sinceProbe = Probe     \* the first tick is immediate
    /\ link = "ok" /\ frame = FALSE /\ report \in BOOLEAN /\ connected = TRUE
    /\ toggles = 0

Next ==
    \/ SendHeartbeat \/ SendOther \/ RecvReport \/ RecvFrame \/ ProbeTick \/ DisabledChanged
    \/ TimedOut \/ LinkGoesSilent \/ Tick

\* Time goes on and due timers fire.
Spec ==
    /\ Init /\ [][Next]_vars
    /\ WF_vars(Tick) /\ WF_vars(SendHeartbeat) /\ WF_vars(RecvReport) /\ WF_vars(RecvFrame)
    /\ WF_vars(ProbeTick) /\ SF_vars(TimedOut)

-----------------------------------------------------------------------------
(* Properties *)

\* With heartbeat_timeout greater than heartbeat_interval, as the README asks,
\* a client on a good link never times out, whatever else the server sends and
\* although the client's reports put the server's heartbeat off.
NoFalseAlarm == link = "ok" => connected

\* The heartbeat test finds a connection on which nothing arrives any more:
\* "Set to 0 to disable the application-layer heartbeat test" (README.md:141).
SilenceDetected == link = "silent" ~> ~connected
=============================================================================
