--------------------------- MODULE AliasesProofs ----------------------------
(***************************************************************************)
(* No alias task is left behind, whatever the directories, the number of   *)
(* ports, of sessions and of overlapping channels, and the time aborted    *)
(* tasks take to end.                                                      *)
(***************************************************************************)
EXTENDS Aliases, TLAPS

\* A handle in a channel's Aliases.tasks belongs to a task that runs and was not
\* aborted; the channel is in its session.
HandlesInv ==
    \A c \in Channels, p \in Ports : tasks[c][p] # 0 =>
        c \in connected /\ st[<<p, tasks[c][p]>>] # "none" /\ <<p, tasks[c][p]>> \notin aborted

\* No two channels hold the same task.
OneHolder ==
    \A c, d \in Channels, p \in Ports : tasks[c][p] # 0 /\ tasks[c][p] = tasks[d][p] => c = d

\* A task that runs on is held.
HeldInv ==
    \A t \in Tasks : st[t] # "none" /\ t \notin aborted => \E c \in Channels : tasks[c][t[1]] = t[2]

\* Only a running task is aborted; only a session handles a directory.
RunInv ==
    /\ \A t \in aborted : st[t] # "none"
    /\ \A c \in Channels : got[c] # None => c \in connected

IndInv == TypeOK /\ HandlesInv /\ OneHolder /\ HeldInv /\ RunInv

\* A task is a port and a slot, and a slot is not 0.
LEMMA TaskForm ==
    /\ \A t \in Tasks : t[1] \in Ports /\ t[2] \in 1..Slots /\ t[2] # 0 /\ t = <<t[1], t[2]>>
    /\ \A p \in Ports, n \in 1..Slots : <<p, n>> \in Tasks
    /\ 0 \notin 1..Slots /\ 0 \in 0..Slots /\ 1..Slots \subseteq 0..Slots
BY BoundsAssumption DEF Tasks

LEMMA InitInv == Init => IndInv
<1> SUFFICES ASSUME Init PROVE IndInv
  OBVIOUS
<1>1. TypeOK
  BY TaskForm DEF Init, TypeOK, NoHandles
<1>2. HandlesInv /\ OneHolder /\ HeldInv /\ RunInv
  BY DEF Init, NoHandles, HandlesInv, OneHolder, HeldInv, RunInv
<1> QED BY <1>1, <1>2 DEF IndInv

\* What apply does to the handle and the task of each port.
LEMMA ApplyStep ==
    ASSUME IndInv, NEW c \in Channels, Apply(c)
    PROVE  LET want == Want(c, got[c].dir)
           IN  /\ c \in connected /\ UNCHANGED <<connected, now, told, on, service>>
               /\ got' = [got EXCEPT ![c] = None]
               /\ aborted' = aborted \cup {t \in Tasks : tasks[c][t[1]] = t[2] /\ t[1] \notin want}
               /\ tasks' \in [Channels -> [Ports -> 0..Slots]]
               /\ st' \in [Tasks -> {"none", "check", "bind", "sleep", "open"}]
               /\ \A d \in Channels : d # c => tasks'[d] = tasks[d]
               /\ \A p \in Ports : tasks[c][p] = 0 /\ p \in want =>
                     tasks'[c][p] \in 1..Slots /\ st[<<p, tasks'[c][p]>>] = "none"
               /\ \A p \in Ports : tasks[c][p] # 0 /\ p \in want => tasks'[c][p] = tasks[c][p]
               /\ \A p \in Ports : p \notin want => tasks'[c][p] = 0
               /\ \A t \in Tasks : st'[t] =
                     IF t[1] \in want /\ tasks[c][t[1]] = 0 /\ tasks'[c][t[1]] = t[2]
                     THEN "check" ELSE st[t]
<1> DEFINE want == Want(c, got[c].dir)
           new == {p \in want : tasks[c][p] = 0}
           handles == [p \in Ports |-> IF p \in new THEN NewSlot(p)
                                       ELSE IF p \in want THEN tasks[c][p] ELSE 0]
<1>1. /\ got[c] # None /\ \A p \in new : FreeSlots(p) # {}
      /\ aborted' = aborted \cup {t \in Handles(c) : t[1] \notin want}
      /\ tasks' = [tasks EXCEPT ![c] = handles]
      /\ st' = [t \in Tasks |-> IF t[1] \in new /\ tasks'[c][t[1]] = t[2] THEN "check" ELSE st[t]]
      /\ got' = [got EXCEPT ![c] = None]
      /\ UNCHANGED <<connected, now, told, on, service>>
  BY DEF Apply, Applied
<1>2. \A p \in new : NewSlot(p) \in 1..Slots /\ st[<<p, NewSlot(p)>>] = "none"
  BY <1>1 DEF NewSlot, FreeSlots
<1>3. c \in connected /\ tasks \in [Channels -> [Ports -> 0..Slots]]
      /\ st \in [Tasks -> {"none", "check", "bind", "sleep", "open"}]
  BY <1>1 DEF IndInv, RunInv, TypeOK
<1>4. aborted' = aborted \cup {t \in Tasks : tasks[c][t[1]] = t[2] /\ t[1] \notin want}
  BY <1>1 DEF Handles
<1> HIDE DEF want
<1>5. handles \in [Ports -> 0..Slots]
  <2>1. \A p \in Ports : (IF p \in new THEN NewSlot(p)
                          ELSE IF p \in want THEN tasks[c][p] ELSE 0) \in 0..Slots
    BY <1>2, <1>3, TaskForm
  <2> QED BY <2>1
<1>6. /\ \A p \in Ports : tasks[c][p] = 0 /\ p \in want =>
            handles[p] \in 1..Slots /\ st[<<p, handles[p]>>] = "none"
      /\ \A p \in Ports : tasks[c][p] # 0 /\ p \in want => handles[p] = tasks[c][p]
      /\ \A p \in Ports : p \notin want => handles[p] = 0
  BY <1>2
<1> HIDE DEF handles
<1>7. /\ tasks' \in [Channels -> [Ports -> 0..Slots]] /\ tasks'[c] = handles
      /\ \A d \in Channels : d # c => tasks'[d] = tasks[d]
  BY <1>1, <1>3, <1>5
<1>8. st' \in [Tasks -> {"none", "check", "bind", "sleep", "open"}]
  BY <1>1, <1>3
<1>9. \A t \in Tasks : st'[t] =
         IF t[1] \in want /\ tasks[c][t[1]] = 0 /\ tasks'[c][t[1]] = t[2] THEN "check" ELSE st[t]
  BY <1>1
<1> QED
  BY <1>1, <1>3, <1>4, <1>6, <1>7, <1>8, <1>9 DEF want

\* Steps that drop a channel's handles, having aborted its tasks, or find it
\* without any.
LEMMA HandlesDropped ==
    ASSUME IndInv, NEW c \in Channels, tasks' = [tasks EXCEPT ![c] = NoHandles],
           aborted' = aborted \cup Handles(c), connected \ {c} \subseteq connected', UNCHANGED st
    PROVE  HandlesInv' /\ OneHolder' /\ HeldInv' /\ \A t \in aborted' : st'[t] # "none"
<1>1. /\ \A p \in Ports : tasks'[c][p] = 0
      /\ \A d \in Channels : d # c => tasks'[d] = tasks[d]
  BY DEF IndInv, TypeOK, NoHandles
<1>2. aborted' = aborted \cup {t \in Tasks : tasks[c][t[1]] = t[2]}
  BY DEF Handles
<1>3. HandlesInv'
  <2> SUFFICES ASSUME NEW d \in Channels, NEW p \in Ports, tasks'[d][p] # 0
               PROVE  /\ d \in connected' /\ st'[<<p, tasks'[d][p]>>] # "none"
                      /\ <<p, tasks'[d][p]>> \notin aborted'
    BY DEF HandlesInv
  <2>1. d # c /\ tasks'[d][p] = tasks[d][p]
    BY <1>1
  <2>2. tasks[c][p] # tasks[d][p]
    BY <2>1 DEF IndInv, OneHolder
  <2>3. <<p, tasks[d][p]>> \notin aborted'
    BY <1>2, <2>1, <2>2 DEF IndInv, HandlesInv
  <2> QED BY <2>1, <2>3 DEF IndInv, HandlesInv
<1>4. OneHolder'
  BY <1>1 DEF IndInv, OneHolder
<1>5. HeldInv'
  <2> SUFFICES ASSUME NEW t \in Tasks, st[t] # "none", t \notin aborted'
               PROVE  \E d \in Channels : tasks'[d][t[1]] = t[2]
    BY DEF HeldInv
  <2>1. PICK d \in Channels : tasks[d][t[1]] = t[2]
    BY <1>2 DEF IndInv, HeldInv
  <2> QED BY <1>1, <1>2, <2>1
<1>6. \A t \in aborted' : st'[t] # "none"
  BY <1>2, TaskForm DEF IndInv, RunInv, HandlesInv
<1> QED BY <1>3, <1>4, <1>5, <1>6

\* Every step keeps the invariant.
LEMMA NextInv == IndInv /\ [Next]_vars => IndInv'
<1> SUFFICES ASSUME IndInv, [Next]_vars PROVE IndInv'
  OBVIOUS
<1> USE TaskForm DEF IndInv
<1>1. ASSUME NEW c \in Channels, Connect(c) PROVE IndInv'
  <2>1. /\ c \notin connected /\ connected' = connected \cup {c} /\ on' \in {on \ {c}, on \cup {c}}
        /\ tasks' = [tasks EXCEPT ![c] = NoHandles]
        /\ UNCHANGED <<now, told, got, st, aborted, service>>
    BY <1>1 DEF Connect, TypeOK
  <2>2. aborted' = aborted \cup Handles(c)
    BY <2>1 DEF Handles, HandlesInv
  <2>3. NoHandles \in [Ports -> 0..Slots]
    BY DEF NoHandles
  <2>4. TypeOK'
    BY <2>1, <2>3 DEF TypeOK
  <2> QED BY <2>1, <2>2, <2>4, HandlesDropped DEF RunInv
<1>2. ASSUME NEW c \in Channels, GivesUp(c) \/ HotReload(c) \/ ProbeTick(c) PROVE IndInv'
  <2>1. /\ now' \in Channels /\ told' \subseteq Channels
        /\ UNCHANGED <<connected, on, got, tasks, st, aborted, service>>
    BY <1>2 DEF GivesUp, HotReload, ProbeTick, TypeOK
  <2> QED BY <2>1 DEF TypeOK, HandlesInv, OneHolder, HeldInv, RunInv
<1>3. ASSUME NEW c \in Channels, Apply(c) PROVE IndInv'
  <2> DEFINE want == Want(c, got[c].dir)
  <2>1. /\ c \in connected /\ UNCHANGED <<connected, now, told, on, service>>
        /\ got' = [got EXCEPT ![c] = None]
        /\ aborted' = aborted \cup {t \in Tasks : tasks[c][t[1]] = t[2] /\ t[1] \notin want}
        /\ tasks' \in [Channels -> [Ports -> 0..Slots]]
        /\ st' \in [Tasks -> {"none", "check", "bind", "sleep", "open"}]
    BY <1>3, ApplyStep
  <2>2. /\ \A d \in Channels : d # c => tasks'[d] = tasks[d]
        /\ \A p \in Ports : tasks[c][p] = 0 /\ p \in want =>
              tasks'[c][p] \in 1..Slots /\ st[<<p, tasks'[c][p]>>] = "none"
        /\ \A p \in Ports : tasks[c][p] # 0 /\ p \in want => tasks'[c][p] = tasks[c][p]
        /\ \A p \in Ports : p \notin want => tasks'[c][p] = 0
    BY <1>3, ApplyStep
  <2>3. \A t \in Tasks : st'[t] =
           IF t[1] \in want /\ tasks[c][t[1]] = 0 /\ tasks'[c][t[1]] = t[2] THEN "check" ELSE st[t]
    BY <1>3, ApplyStep
  <2> HIDE DEF want
  <2>4. TypeOK'
    BY <2>1 DEF TypeOK
  <2>5. RunInv'
    <3>1. \A d \in Channels : got'[d] # None => d \in connected'
      BY <2>1 DEF RunInv, TypeOK
    <3>2. \A t \in aborted' : st[t] # "none" /\ t \in Tasks
      BY <2>1 DEF RunInv, HandlesInv, TypeOK
    <3> QED BY <2>3, <3>1, <3>2 DEF RunInv
  <2>6. HandlesInv'
    <3> SUFFICES ASSUME NEW d \in Channels, NEW p \in Ports, tasks'[d][p] # 0
                 PROVE  /\ d \in connected /\ st'[<<p, tasks'[d][p]>>] # "none"
                        /\ <<p, tasks'[d][p]>> \notin aborted'
      BY <2>1 DEF HandlesInv
    <3>1. <<p, tasks'[d][p]>> \in Tasks
      BY <2>1 DEF Tasks
    <3>2. CASE d = c /\ tasks[c][p] = 0
      BY <2>1, <2>2, <2>3, <3>1, <3>2 DEF RunInv
    <3>3. CASE d = c /\ tasks[c][p] # 0
      BY <2>1, <2>2, <2>3, <3>1, <3>3 DEF HandlesInv
    <3>4. CASE d # c
      <4>1. tasks'[d][p] = tasks[d][p] /\ tasks[c][p] # tasks[d][p]
        BY <2>2, <3>4 DEF OneHolder
      <4> QED BY <2>1, <2>3, <3>1, <4>1 DEF HandlesInv
    <3> QED BY <3>2, <3>3, <3>4
  <2>7. OneHolder'
    <3>1. ASSUME NEW d \in Channels, d # c, NEW p \in Ports, tasks'[c][p] # 0
          PROVE  tasks'[c][p] # tasks'[d][p]
      <4>1. CASE tasks[c][p] = 0
        <5>1. st[<<p, tasks'[c][p]>>] = "none"
          BY <2>2, <3>1, <4>1
        <5>2. tasks[d][p] # 0 => st[<<p, tasks[d][p]>>] # "none"
          BY DEF HandlesInv
        <5> QED BY <2>2, <3>1, <5>1, <5>2
      <4>2. CASE tasks[c][p] # 0
        BY <2>2, <3>1, <4>2 DEF OneHolder
      <4> QED BY <4>1, <4>2
    <3>2. \A d, e \in Channels, p \in Ports :
             d # c /\ e # c /\ tasks'[d][p] # 0 /\ tasks'[d][p] = tasks'[e][p] => d = e
      BY <2>2 DEF OneHolder
    <3> QED BY <3>1, <3>2 DEF OneHolder
  <2>8. HeldInv'
    <3> SUFFICES ASSUME NEW t \in Tasks, st'[t] # "none", t \notin aborted'
                 PROVE  \E d \in Channels : tasks'[d][t[1]] = t[2]
      BY DEF HeldInv
    <3>1. CASE t[1] \in want /\ tasks[c][t[1]] = 0 /\ tasks'[c][t[1]] = t[2]
      BY <3>1
    <3>2. CASE ~(t[1] \in want /\ tasks[c][t[1]] = 0 /\ tasks'[c][t[1]] = t[2])
      <4>1. PICK d \in Channels : tasks[d][t[1]] = t[2]
        BY <2>1, <2>3, <3>2 DEF HeldInv
      <4>2. CASE d = c
        BY <2>1, <2>2, <4>1, <4>2
      <4>3. CASE d # c
        BY <2>2, <4>1, <4>3
      <4> QED BY <4>2, <4>3
    <3> QED BY <3>1, <3>2
  <2> QED BY <2>4, <2>5, <2>6, <2>7, <2>8
<1>4. ASSUME NEW c \in Channels, Disconnect(c) PROVE IndInv'
  <2>1. /\ got[c] = None /\ connected' = connected \ {c} /\ told' = told \ {c}
        /\ aborted' = aborted \cup Handles(c) /\ tasks' = [tasks EXCEPT ![c] = NoHandles]
        /\ UNCHANGED <<now, on, got, st, service>>
    BY <1>4 DEF Disconnect
  <2>2. NoHandles \in [Ports -> 0..Slots]
    BY DEF NoHandles
  <2>3. TypeOK'
    BY <2>1, <2>2 DEF TypeOK, Handles
  <2> QED BY <2>1, <2>3, HandlesDropped DEF RunInv
<1>5. ASSUME NEW c \in Channels, NEW d \in Directories, ReceiveDirectory(c, d) PROVE IndInv'
  <2>1. /\ c \in connected /\ got' = [got EXCEPT ![c] = [dir |-> d, seen |-> Probe(d)]]
        /\ UNCHANGED <<connected, now, told, on, tasks, st, aborted, service>>
    BY <1>5 DEF ReceiveDirectory
  <2>2. TypeOK'
    BY <2>1 DEF TypeOK
  <2>3. \A b \in Channels : b # c => got'[b] = got[b]
    BY <2>1 DEF TypeOK
  <2>4. RunInv'
    BY <2>1, <2>3 DEF RunInv
  <2> QED BY <2>1, <2>2, <2>4 DEF HandlesInv, OneHolder, HeldInv
<1>6. ASSUME NEW t \in Tasks, Check(t) \/ Bind(t) \/ WakeUp(t) PROVE IndInv'
  <2>1. /\ st[t] # "none"
        /\ \E to \in {"check", "bind", "sleep", "open"} : st' = [st EXCEPT ![t] = to]
        /\ UNCHANGED <<connected, now, told, on, got, tasks, aborted, service>>
    BY <1>6 DEF Check, Bind, WakeUp, Move
  <2> QED BY <2>1 DEF TypeOK, HandlesInv, OneHolder, HeldInv, RunInv
<1>7. ASSUME NEW t \in Tasks, Cancelled(t) PROVE IndInv'
  <2>1. /\ t \in aborted /\ st' = [st EXCEPT ![t] = "none"] /\ aborted' = aborted \ {t}
        /\ UNCHANGED <<connected, now, told, on, got, tasks, service>>
    BY <1>7 DEF Cancelled
  <2> QED BY <2>1 DEF TypeOK, HandlesInv, OneHolder, HeldInv, RunInv
<1>8. ASSUME NEW p \in Ports, ServiceChanges(p) PROVE IndInv'
  <2>1. service' \subseteq Ports /\ UNCHANGED <<connected, now, told, on, got, tasks, st, aborted>>
    BY <1>8 DEF ServiceChanges, TypeOK
  <2> QED BY <2>1 DEF TypeOK, HandlesInv, OneHolder, HeldInv, RunInv
<1>9. CASE UNCHANGED vars
  BY <1>9 DEF vars, TypeOK, HandlesInv, OneHolder, HeldInv, RunInv
<1> QED
  BY <1>1, <1>2, <1>3, <1>4, <1>5, <1>6, <1>7, <1>8, <1>9 DEF Next

LEMMA Invariance == Spec => []IndInv
BY InitInv, NextInv, PTL DEF Spec

\* Aliases::apply and Drop between them leave no task that a session started
\* without exactly one holder that will abort it, for any directories and any
\* number of sessions and of overlapping channels.
THEOREM NoTaskLeftBehind == Spec => []NoOrphans
<1>1. IndInv => NoOrphans
  <2> SUFFICES ASSUME IndInv, NEW t \in Tasks, st[t] # "none", t \notin aborted
               PROVE  \E c \in connected : \A o \in Channels : t \in Handles(o) <=> o = c
    BY DEF NoOrphans
  <2>1. PICK c \in Channels : tasks[c][t[1]] = t[2]
    BY DEF IndInv, HeldInv
  <2>2. t[1] \in Ports /\ t[2] # 0
    BY TaskForm
  <2>3. c \in connected
    BY <2>1, <2>2 DEF IndInv, HandlesInv
  <2>4. \A o \in Channels : tasks[o][t[1]] = t[2] <=> o = c
    BY <2>1, <2>2 DEF IndInv, OneHolder
  <2> QED BY <2>3, <2>4 DEF Handles
<1> QED
  BY <1>1, Invariance, PTL
=============================================================================
