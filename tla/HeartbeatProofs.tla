-------------------------- MODULE HeartbeatProofs ---------------------------
(***************************************************************************)
(* The heartbeat test for every interval, timeout and probe interval.      *)
(***************************************************************************)
EXTENDS Heartbeat, TLAPS

\* What README.md:141 asks for: the test is off, or the server sends heartbeats
\* more often than the client gives up.
SettingsAsDocumented == Timeout = 0 \/ (Interval # 0 /\ Interval < Timeout)

TypeOK ==
    /\ sendIn \in Nat /\ idle \in Nat /\ sinceProbe \in Nat
    /\ link \in {"ok", "silent"} /\ connected \in BOOLEAN
    /\ frame \in BOOLEAN /\ report \in BOOLEAN

\* On a good link the client has waited no longer than the server, unless what
\* the server sent is still waiting in frame_rx.
QuietInv ==
    /\ Interval # 0 => sendIn <= Interval
    /\ Timeout = 0 => idle = 0
    /\ report => idle = 0
    /\ link = "ok" /\ Interval # 0 => idle <= Interval /\ (frame \/ idle <= sendIn)

\* The client's sleep is never older than its probe interval.
ProbeInv == idle <= sinceProbe /\ sinceProbe <= Probe

IndInv == TypeOK /\ QuietInv

-----------------------------------------------------------------------------
LEMMA TypeOKInit == Init => TypeOK
<1> SUFFICES ASSUME Init PROVE TypeOK
  OBVIOUS
<1>1. sendIn \in Nat /\ idle \in Nat /\ sinceProbe \in Nat
  BY TimesAssumption DEF Init
<1>2. link \in {"ok", "silent"} /\ connected \in BOOLEAN /\ frame \in BOOLEAN /\ report \in BOOLEAN
  BY Zenon DEF Init
<1> QED BY <1>1, <1>2 DEF TypeOK

\* A frame that is sent arrives if the link is good, and replaces none.
LEMMA Arrival ==
    ASSUME TypeOK, SendHeartbeat \/ SendOther
    PROVE  /\ frame' \in BOOLEAN
           /\ link = "ok" => frame'
           /\ sendIn' = 0
           /\ UNCHANGED <<idle, sinceProbe, link, report, connected>>
<1>1. Deliver
  BY Zenon DEF SendHeartbeat, SendOther
<1>2. frame' \in BOOLEAN /\ (link = "ok" => frame')
  BY <1>1, Zenon DEF Deliver
<1>3. sendIn' = 0 /\ UNCHANGED <<idle, sinceProbe, link, report, connected>>
  BY DEF SendHeartbeat, SendOther
<1> QED BY <1>2, <1>3

\* A branch of the client's loop was taken: its sleep starts again.
LEMMA LoopStartsOver ==
    ASSUME TypeOK, RecvFrame \/ ProbeTick \/ DisabledChanged
    PROVE  /\ connected /\ connected' = connected /\ idle' = 0
           /\ sinceProbe' = sinceProbe \/ sinceProbe' = 0
           /\ frame' \in BOOLEAN /\ report' \in BOOLEAN
           /\ UNCHANGED <<sendIn, link>>
<1>1. MayReport => report' \in BOOLEAN
  BY Zenon DEF MayReport, TypeOK
<1>2. frame \in BOOLEAN
  BY DEF TypeOK
<1>3. CASE RecvFrame
  BY <1>1, <1>3, Zenon DEF RecvFrame
<1>4. CASE ProbeTick
  BY <1>1, <1>2, <1>4, Zenon DEF ProbeTick
<1>5. CASE DisabledChanged
  BY <1>1, <1>2, <1>5, Zenon DEF DisabledChanged
<1> QED BY <1>3, <1>4, <1>5

\* One step per action.
LEMMA TypeOKStep == TypeOK /\ [Next]_vars => TypeOK'
<1> SUFFICES ASSUME TypeOK, [Next]_vars PROVE TypeOK'
  OBVIOUS
<1>1. CASE SendHeartbeat \/ SendOther
  BY <1>1, Arrival DEF TypeOK
<1>2. CASE RecvFrame \/ ProbeTick \/ DisabledChanged
  BY <1>2, LoopStartsOver DEF TypeOK
<1>3. CASE RecvReport
  BY <1>3 DEF TypeOK, RecvReport
<1>4. CASE TimedOut
  BY <1>4 DEF TypeOK, TimedOut
<1>5. CASE LinkGoesSilent
  BY <1>5 DEF TypeOK, LinkGoesSilent
<1>6. CASE Tick
  BY <1>6 DEF TypeOK, Tick
<1>7. CASE UNCHANGED vars
  BY <1>7 DEF TypeOK, vars
<1> QED BY <1>1, <1>2, <1>3, <1>4, <1>5, <1>6, <1>7 DEF Next

LEMMA IndInvInit == Init => IndInv
<1> SUFFICES ASSUME Init PROVE QuietInv
  BY TypeOKInit DEF IndInv
<1> QED BY TimesAssumption DEF Init, QuietInv

\* A frame is handled before time goes on, so both sleeps age together from the
\* last frame; every frame the server sends restarts its own sleep first, and a
\* report, which restarts the server's sleep, has just restarted the client's.
LEMMA IndInvStep == IndInv /\ [Next]_vars => IndInv'
<1> SUFFICES ASSUME TypeOK, QuietInv, [Next]_vars PROVE QuietInv'
  BY TypeOKStep DEF IndInv
<1>1. CASE SendHeartbeat \/ SendOther
  BY <1>1, Arrival, TimesAssumption DEF TypeOK, QuietInv
<1>2. CASE RecvFrame \/ ProbeTick \/ DisabledChanged
  <2>1. sendIn' = sendIn /\ link' = link /\ idle' = 0
    BY <1>2, LoopStartsOver
  <2> QED BY <2>1, TimesAssumption DEF TypeOK, QuietInv
<1>3. CASE RecvReport
  BY <1>3, TimesAssumption DEF TypeOK, QuietInv, RecvReport
<1>4. CASE TimedOut
  BY <1>4 DEF QuietInv, TimedOut
<1>5. CASE LinkGoesSilent
  BY <1>5 DEF QuietInv, LinkGoesSilent
<1>6. CASE Tick
  BY <1>6, TimesAssumption DEF TypeOK, QuietInv, Tick
<1>7. CASE UNCHANGED vars
  BY <1>7 DEF QuietInv, vars
<1> QED BY <1>1, <1>2, <1>3, <1>4, <1>5, <1>6, <1>7 DEF Next

LEMMA Invariance == Spec => []IndInv
BY IndInvInit, IndInvStep, PTL DEF Spec

\* A client on a good link is never thrown out by the heartbeat test, for all
\* settings the README allows, however the server's other frames and the
\* client's probe (client.rs:761) restart the two sleeps.
THEOREM NeverFalse == SettingsAsDocumented => (Spec => []NoFalseAlarm)
<1> SUFFICES ASSUME SettingsAsDocumented PROVE Spec => []NoFalseAlarm
  OBVIOUS
<1>1. Init => NoFalseAlarm
  BY DEF Init, NoFalseAlarm
<1>2. IndInv /\ NoFalseAlarm /\ [Next]_vars => NoFalseAlarm'
  <2> SUFFICES ASSUME TypeOK, QuietInv, NoFalseAlarm, [Next]_vars PROVE NoFalseAlarm'
    BY DEF IndInv
  <2>1. CASE TimedOut
    <3>1. Timeout # 0 /\ idle = Timeout
      BY <2>1 DEF TimedOut
    <3>2. link # "ok"
      BY <3>1, TimesAssumption DEF TypeOK, QuietInv, SettingsAsDocumented
    <3> QED BY <2>1, <3>2 DEF TimedOut, NoFalseAlarm
  <2>2. CASE SendHeartbeat \/ SendOther \/ RecvReport \/ LinkGoesSilent \/ Tick
    BY <2>2 DEF NoFalseAlarm, SendHeartbeat, SendOther, RecvReport, LinkGoesSilent, Tick
  <2>4. CASE RecvFrame \/ ProbeTick \/ DisabledChanged
    BY <2>4, LoopStartsOver DEF NoFalseAlarm
  <2>3. CASE UNCHANGED vars
    BY <2>3 DEF NoFalseAlarm, vars
  <2> QED BY <2>1, <2>2, <2>3, <2>4 DEF Next
<1> QED BY <1>1, <1>2, Invariance, PTL DEF Spec

-----------------------------------------------------------------------------
\* The test does nothing at all when the timeout is longer than the probe
\* interval of 5 seconds, as with the default of 40: the sleep of client.rs:779
\* is restarted by every probe.tick(), so the client stays in its loop for ever
\* on a connection that has gone silent.
THEOREM ProbeDefeatsTimeout == Probe < Timeout => (Spec => []connected)
<1> SUFFICES ASSUME Probe < Timeout PROVE Spec => []connected
  OBVIOUS
<1> DEFINE Inv == TypeOK /\ ProbeInv /\ connected
<1>1. Init => Inv
  BY TypeOKInit, TimesAssumption DEF Init, ProbeInv
<1>2. Inv /\ [Next]_vars => Inv'
  <2> SUFFICES ASSUME Inv, [Next]_vars PROVE ProbeInv' /\ connected'
    BY TypeOKStep
  <2>1. CASE SendHeartbeat \/ SendOther \/ RecvReport \/ LinkGoesSilent
    BY <2>1 DEF ProbeInv, SendHeartbeat, SendOther, RecvReport, LinkGoesSilent
  <2>2. CASE RecvFrame \/ ProbeTick \/ DisabledChanged
    <3>1. /\ idle' = 0 /\ (sinceProbe' = sinceProbe \/ sinceProbe' = 0)
          /\ connected'
      BY <2>2, LoopStartsOver
    <3> QED BY <3>1, TimesAssumption DEF TypeOK, ProbeInv
  <2>3. CASE TimedOut
    BY <2>3, TimesAssumption DEF TypeOK, ProbeInv, TimedOut
  <2>4. CASE Tick
    BY <2>4, TimesAssumption DEF TypeOK, ProbeInv, Tick
  <2>5. CASE UNCHANGED vars
    BY <2>5 DEF ProbeInv, vars
  <2> QED BY <2>1, <2>2, <2>3, <2>4, <2>5 DEF Next
<1>3. Inv => connected
  OBVIOUS
<1> QED BY <1>1, <1>2, <1>3, PTL DEF Spec
=============================================================================
