--------------------------- MODULE RegistryProofs ---------------------------
(***************************************************************************)
(* Proofs about Registry, for every set of users, ports and user tables.   *)
(***************************************************************************)
EXTENDS Registry, FiniteSetTheorems, TLAPS

\* Neighbours that do not touch, in a sorted sequence, are enough for all pairs:
\* the check of validate_users leaves no two blocks that overlap.
LEMMA BlocksDisjoint ==
    ASSUME NEW c, \A u \in DOMAIN c : c[u].lo \in Nat /\ c[u].hi \in Nat,
           Cardinality(DOMAIN c) \in Nat, AcceptsBlocks(c)
    PROVE  \A u, v \in DOMAIN c : u # v => Block(c[u]) \cap Block(c[v]) = {}
<1> SUFFICES ASSUME NEW u \in DOMAIN c, NEW v \in DOMAIN c, u # v
             PROVE  c[u].hi < c[v].lo \/ c[v].hi < c[u].lo
  BY DEF Block
<1>1. PICK s \in SortedUsers(c) : \A i \in DOMAIN s :
            i + 1 \in DOMAIN s => c[s[i]].hi < c[s[i + 1]].lo
  BY DEF AcceptsBlocks
<1>2. /\ DOMAIN s = 1..Cardinality(DOMAIN c)
      /\ \A i \in DOMAIN s : s[i] \in DOMAIN c
      /\ \A x \in DOMAIN c : \E i \in DOMAIN s : s[i] = x
      /\ \A i, j \in DOMAIN s : i < j => c[s[i]].lo <= c[s[j]].lo
  <2>1. /\ s \in [1..Cardinality(DOMAIN c) -> DOMAIN c]
        /\ \A x \in DOMAIN c : \E i \in DOMAIN s : s[i] = x
        /\ \A i, j \in DOMAIN s : i < j =>
              \/ c[s[i]].lo < c[s[j]].lo
              \/ c[s[i]].lo = c[s[j]].lo /\ c[s[i]].hi <= c[s[j]].hi
    BY <1>1, Zenon DEF SortedUsers
  <2>2. \A i \in DOMAIN s : c[s[i]].lo \in Nat
    BY <2>1
  <2>3. DOMAIN s = 1..Cardinality(DOMAIN c) /\ \A i \in DOMAIN s : s[i] \in DOMAIN c
    BY <2>1
  <2>4. ASSUME NEW i \in DOMAIN s, NEW j \in DOMAIN s, i < j
        PROVE  c[s[i]].lo <= c[s[j]].lo
    <3>1. c[s[i]].lo < c[s[j]].lo \/ c[s[i]].lo = c[s[j]].lo
      BY <2>1, <2>4
    <3> QED BY <3>1, <2>2
  <2> QED BY <2>1, <2>3, <2>4
<1>3. ASSUME NEW i \in DOMAIN s, NEW j \in DOMAIN s, i < j
      PROVE  c[s[i]].hi < c[s[j]].lo
  <2>1. i + 1 \in DOMAIN s /\ (i + 1 = j \/ i + 1 < j)
    BY <1>2, <1>3
  <2>2. c[s[i]].hi < c[s[i + 1]].lo /\ c[s[i + 1]].lo <= c[s[j]].lo
    BY <1>1, <1>2, <2>1
  <2> QED BY <1>2, <2>1, <2>2
<1>4. PICK i \in DOMAIN s, j \in DOMAIN s : s[i] = u /\ s[j] = v
  BY <1>2
<1>5. i < j \/ j < i
  BY <1>2, <1>4
<1> QED
  BY <1>3, <1>4, <1>5

\* Config::parse hands the registry only tables it can work with.
LEMMA ConfigsSound ==
    \A c \in Configs : /\ DOMAIN c \subseteq Users
                       /\ c \in [DOMAIN c -> UserConfig]
                       /\ ValidUsers(c)
<1> SUFFICES ASSUME NEW t \in Tables,
                    \A u \in DOMAIN t : AcceptsUser(t[u], Expanded(t)[u]),
                    AcceptsBlocks(Expanded(t))
             PROVE  /\ DOMAIN t \subseteq Users
                    /\ Expanded(t) \in [DOMAIN t -> UserConfig]
                    /\ ValidUsers(Expanded(t))
  BY DEF Configs, Expanded
<1> DEFINE c == Expanded(t)
<1>1. DOMAIN c = DOMAIN t
  BY DEF Expanded
<1>2. ASSUME NEW u \in DOMAIN t
      PROVE  /\ c[u] = [lo |-> t[u].block[1], hi |-> t[u].block[2],
                        tcp |-> ExpandPorts(t[u].tcp), udp |-> ExpandPorts(t[u].udp)]
             /\ t[u] \in RawUser
             /\ \A r \in {t[u].block} \cup t[u].tcp \cup t[u].udp : ParsesRange(r)
             /\ Cardinality(c[u].tcp) + Cardinality(c[u].udp) <= c[u].hi - c[u].lo + 1
  BY TablesAssumption DEF Expanded, AcceptsUser
<1>3. ASSUME NEW u \in DOMAIN t PROVE c[u] \in UserConfig /\ c[u].lo <= c[u].hi
  <2>1. t[u].block[1] \in Ports /\ t[u].block[2] \in Ports /\ t[u].block[1] <= t[u].block[2]
    <3>1. t[u].block \in Ranges /\ ParsesRange(t[u].block)
      BY <1>2, <1>3 DEF RawUser
    <3>2. t[u].block[1] \in 0..MaxPort /\ t[u].block[2] \in 0..MaxPort
      BY <3>1 DEF Ranges
    <3> QED BY <3>1, <3>2, PortsAssumption DEF ParsesRange, Ports
  <2>2. ExpandPorts(t[u].tcp) \subseteq LocalPorts /\ ExpandPorts(t[u].udp) \subseteq LocalPorts
    BY <1>2, TablesAssumption DEF ExpandPorts
  <2>3. c[u] = [lo |-> t[u].block[1], hi |-> t[u].block[2],
                tcp |-> ExpandPorts(t[u].tcp), udp |-> ExpandPorts(t[u].udp)]
    BY <1>2, <1>3
  <2> HIDE DEF c
  <2> QED BY <2>1, <2>2, <2>3 DEF UserConfig
<1>4. c \in [DOMAIN t -> UserConfig]
  BY <1>3 DEF Expanded
<1>5. \A u \in DOMAIN c : c[u].lo \in Nat /\ c[u].hi \in Nat
  BY <1>1, <1>3, PortsAssumption DEF UserConfig, Ports
<1>6. Cardinality(DOMAIN c) \in Nat
  BY <1>1, TablesAssumption, UsersAssumption, FS_Subset, FS_CardinalityType
<1>7. \A u, v \in DOMAIN c : u # v => Block(c[u]) \cap Block(c[v]) = {}
  <2> HIDE DEF c
  <2> QED BY <1>5, <1>6, BlocksDisjoint DEF c
<1> QED
  BY <1>1, <1>2, <1>3, <1>4, <1>7, TablesAssumption DEF ValidUsers

\* The type of the published directory, for any table and sessions.
LEMMA DirectoryType ==
    ASSUME NEW t \in Table, NEW on \in [Users -> Session]
    PROVE  Directory(t, on) \subseteq [user : Users, key : Keys, remote : Ports, online : BOOLEAN]
<1> SUFFICES ASSUME NEW u \in Users, NEW k \in Keys, t[u][k] # 0
             PROVE  t[u][k] \in Ports /\ MappingOnline(on, u, k) \in BOOLEAN
  BY DEF Directory
<1>1. t[u][k] \in 0..MaxPort
  BY DEF Table
<1> QED
  BY <1>1, PortsAssumption DEF Ports, MappingOnline

\* The configured ports of a user are keys of the table.
LEMMA WantedType ==
    ASSUME NEW c \in Configs \cup {NoUsers}, NEW u \in DOMAIN c
    PROVE  /\ u \in Users
           /\ c[u] \in UserConfig
           /\ Wanted(c[u]) \subseteq Keys
           /\ Block(c[u]) \subseteq Ports
<1>1. u \in Users /\ c[u] \in UserConfig
  BY ConfigsSound DEF NoUsers
<1>2. Wanted(c[u]) \subseteq Keys
  BY <1>1 DEF UserConfig, Wanted, Keys, Protos
<1>3. Block(c[u]) \subseteq Ports
  BY <1>1, PortsAssumption DEF UserConfig, Block, Ports
<1> QED
  BY <1>1, <1>2, <1>3

\* Nothing is in the initial table.
LEMMA EmptyType == EmptyTable \in Table /\ Offline \in Session
BY NonceAssumption, PortsAssumption DEF EmptyTable, Table, Offline, Session

\* What a write that was cut off leaves is a table with some of the entries.
LEMMA CutsType ==
    ASSUME NEW t \in Table, NEW f \in Cuts(t)
    PROVE  f \in Table \cup {Torn} /\ (f # Torn /\ Distinct(t) => Distinct(f))
<1>1. CASE f = Torn
  BY <1>1
<1>2. ASSUME NEW S \in Parts,
             f = [u \in Users |-> [k \in Keys |-> IF <<u, k>> \in S THEN t[u][k] ELSE 0]]
      PROVE  f \in Table /\ (Distinct(t) => Distinct(f))
  <2>1. \A u \in Users : \A k \in Keys : f[u][k] = t[u][k] \/ f[u][k] = 0
    BY <1>2
  <2>2. \A u \in Users : \A k \in Keys :
           (IF <<u, k>> \in S THEN t[u][k] ELSE 0) \in 0..MaxPort
    BY PortsAssumption DEF Table
  <2>3. f \in Table
    BY <1>2, <2>2 DEF Table
  <2>4. ASSUME Distinct(t), NEW u \in Users, NEW j \in Keys, NEW k \in Keys, j # k, f[u][j] # 0
        PROVE  f[u][j] # f[u][k]
    BY <2>1, <2>4 DEF Distinct
  <2> QED
    BY <2>3, <2>4 DEF Distinct
<1> QED
  BY <1>1, <1>2 DEF Cuts

\* The types of a call in progress, of its registry and its user.
LEMMA CallType ==
    ASSUME TypeOK, NEW i \in Instances, call[i] # NoCall, call[i].user \in DOMAIN cfg[i]
    PROVE  /\ call[i] \in Call
           /\ call[i].user \in Users
           /\ call[i].nonce \in Nonces
           /\ call[i].work \in Table
           /\ Wanted(cfg[i][call[i].user]) \subseteq Keys
<1>1. call[i] \in Call /\ cfg[i] \in Configs \cup {NoUsers}
  BY DEF TypeOK
<1> QED
  BY <1>1, WantedType DEF Call

\* The types are preserved by every operation: the tables hold only ports of
\* 1..MaxPort (or 0), the directories only real mappings.
LEMMA TypeOKStep ==
    /\ TypeOK
    /\ \A i \in Instances : call[i] # NoCall => call[i].user \in DOMAIN cfg[i]
    /\ [Next]_vars
    => TypeOK'
<1> SUFFICES ASSUME TypeOK, [Next]_vars,
                    \A i \in Instances : call[i] # NoCall => call[i].user \in DOMAIN cfg[i]
             PROVE  TypeOK'
  OBVIOUS
<1> USE NonceAssumption, PortsAssumption
<1> DEFINE Mappings == [user : Users, key : Keys, remote : Ports, online : BOOLEAN]
<1>d. ASSUME NEW t \in Table, NEW on \in [Users -> Session]
      PROVE  Directory(t, on) \in SUBSET Mappings
  BY DirectoryType
<1>1. ASSUME NEW i \in Instances, NEW u \in Users, RegisterBegin(i, u) PROVE TypeOK'
  <2>1. Wanted(cfg[i][u]) \subseteq Keys
    BY <1>1, WantedType DEF RegisterBegin, TypeOK
  <2>2. [user |-> u, nonce |-> issued + 1, todo |-> Wanted(cfg[i][u]), work |-> allocs[i],
         changed |-> FALSE, stage |-> "loop", alone |-> TRUE] \in Call
    BY <1>1, <2>1 DEF RegisterBegin, TypeOK, Call, Nonces
  <2>3. call' \in [Instances -> Call \cup {NoCall}]
    BY <1>1, <2>2 DEF RegisterBegin, TypeOK
  <2> QED
    BY <1>1, <2>3 DEF RegisterBegin, disk, TypeOK
<1>2. ASSUME NEW i \in Instances, NEW k \in Keys, KeepAllocation(i, k) PROVE TypeOK'
  <2>1. [call[i] EXCEPT !.todo = @ \ {k}] \in Call
    BY <1>2, CallType DEF KeepAllocation, AtPort, Call
  <2>2. call' \in [Instances -> Call \cup {NoCall}]
    BY <1>2, <2>1 DEF KeepAllocation, TypeOK
  <2> QED
    BY <1>2, <2>2 DEF KeepAllocation, disk, TypeOK
<1>3. ASSUME NEW i \in Instances, NEW k \in Keys, NEW p \in Ports, Allocate(i, k, p) PROVE TypeOK'
  <2>1. call[i] \in Call /\ call[i].work \in Table /\ call[i].user \in Users
    BY <1>3, CallType DEF Allocate, AtPort
  <2>2. [call[i].work EXCEPT ![call[i].user][k] = p] \in Table
    BY <2>1, <1>3 DEF Table, Ports
  <2>3. [call[i] EXCEPT !.todo = @ \ {k}, !.work = [call[i].work EXCEPT ![call[i].user][k] = p],
                        !.changed = TRUE] \in Call
    BY <2>1, <2>2 DEF Call
  <2>4. call' = [call EXCEPT ![i] = [call[i] EXCEPT !.todo = @ \ {k},
                    !.work = [call[i].work EXCEPT ![call[i].user][k] = p], !.changed = TRUE]]
    BY <1>3 DEF Allocate, TypeOK
  <2>5. call' \in [Instances -> Call \cup {NoCall}]
    BY <2>3, <2>4 DEF TypeOK
  <2> QED
    BY <1>3, <2>5 DEF Allocate, disk, TypeOK
<1>4. ASSUME NEW i \in Instances, NEW k \in Keys, BailExhausted(i, k) PROVE TypeOK'
  BY <1>4 DEF BailExhausted, disk, TypeOK
<1>5. ASSUME NEW i \in Instances, WriteBegins(i) PROVE TypeOK'
  <2>1. ASSUME NEW j \in Instances, call[j] # NoCall
        PROVE  /\ [call[j] EXCEPT !.stage = "writing", !.alone = ~SomeoneWrites] \in Call
               /\ [call[j] EXCEPT !.alone = FALSE] \in Call
    <3>1. SomeoneWrites \in BOOLEAN
      BY DEF SomeoneWrites
    <3> QED BY <2>1, <3>1 DEF TypeOK, Call
  <2>2. call[i] # NoCall /\ \A j \in Instances : IsWriting(j) => call[j] # NoCall
    BY <1>5 DEF WriteBegins, IsWriting
  <2>3. call' \in [Instances -> Call \cup {NoCall}]
    BY <1>5, <2>1, <2>2 DEF WriteBegins, TypeOK
  <2> QED
    BY <1>5, <2>3, EmptyType DEF WriteBegins, TypeOK
<1>6. ASSUME NEW i \in Instances, WritePart(i) PROVE TypeOK'
  <2>1. call[i].work \in Table
    BY <1>6, CallType DEF WritePart, IsWriting
  <2>2. file' \in Table \cup {Torn}
    BY <1>6, <2>1, CutsType DEF WritePart
  <2> QED
    BY <1>6, <2>2 DEF WritePart, registries, TypeOK
<1>7. ASSUME NEW i \in Instances, WriteEnds(i) PROVE TypeOK'
  <2>1. call[i] \in Call /\ call[i].work \in Table
    BY <1>7, CallType DEF WriteEnds, IsWriting
  <2>2. [call[i] EXCEPT !.stage = "written"] \in Call
    BY <2>1 DEF Call
  <2>3. call' \in [Instances -> Call \cup {NoCall}]
    BY <1>7, <2>2 DEF WriteEnds, TypeOK
  <2>4. file' \in Table \cup {Torn} /\ saved' \in Table /\ writer' \in 0..MaxInstances
    BY <1>7, <2>1 DEF WriteEnds, TypeOK, Instances
  <2> QED
    BY <1>7, <2>3, <2>4 DEF WriteEnds, TypeOK
<1>8. ASSUME NEW i \in Instances, PersistFails(i) PROVE TypeOK'
  BY <1>8 DEF PersistFails, TypeOK
<1>9. ASSUME NEW i \in Instances, RegisterCommit(i) PROVE TypeOK'
  <2>g. GoesOnline(i)
    BY <1>9 DEF RegisterCommit
  <2>1. /\ call[i].user \in Users /\ call[i].nonce \in Nonces /\ call[i].work \in Table
        /\ Wanted(cfg[i][call[i].user]) \subseteq Keys
    BY <1>9, CallType DEF RegisterCommit
  <2>2. [nonce |-> call[i].nonce, ports |-> Wanted(cfg[i][call[i].user]), disabled |-> {}] \in Session
    BY <2>1 DEF Session, Nonces
  <2>3. /\ allocs' \in [Instances -> Table]
        /\ online' \in [Instances -> [Users -> Session]]
    BY <2>1, <2>2, <2>g DEF GoesOnline, TypeOK
  <2>4. Directory(allocs'[i], online'[i]) \in SUBSET Mappings
    BY <2>3, <1>d
  <2>5. dir' \in [Instances -> SUBSET Mappings]
    BY <2>4, <2>g DEF GoesOnline, TypeOK
  <2>6. /\ open' \in [Instances -> [Users -> SUBSET Nonces]]
        /\ latest' \in [Instances -> [Users -> 0..MaxNonce]]
    <3>1. /\ [open[i] EXCEPT ![call[i].user] = open[i][call[i].user] \cup {call[i].nonce}] \in [Users -> SUBSET Nonces]
          /\ [latest[i] EXCEPT ![call[i].user] = call[i].nonce] \in [Users -> 0..MaxNonce]
      BY <2>1 DEF TypeOK, Nonces
    <3>2. /\ open' = [open EXCEPT ![i] = [open[i] EXCEPT ![call[i].user] = open[i][call[i].user] \cup {call[i].nonce}]]
          /\ latest' = [latest EXCEPT ![i] = [latest[i] EXCEPT ![call[i].user] = call[i].nonce]]
      BY <2>g DEF GoesOnline, TypeOK
    <3> QED BY <3>1, <3>2 DEF TypeOK
  <2>7. call' \in [Instances -> Call \cup {NoCall}]
    BY <2>g DEF GoesOnline, TypeOK
  <2> QED
    BY <2>3, <2>5, <2>6, <2>7, <2>g DEF GoesOnline, disk, TypeOK
<1>10. ASSUME NEW i \in Instances, NEW u \in Users, NEW n \in Nonces, Unregister(i, u, n) PROVE TypeOK'
  <2>1. online' \in [Instances -> [Users -> Session]]
    <3>1. [online[i] EXCEPT ![u] = Offline] \in [Users -> Session]
      BY EmptyType DEF TypeOK
    <3>2. online' = [online EXCEPT ![i] = [online[i] EXCEPT ![u] = Offline]] \/ online' = online
      BY <1>10 DEF Unregister, TypeOK
    <3> QED BY <3>1, <3>2 DEF TypeOK
  <2>2. Directory(allocs[i], online'[i]) \in SUBSET Mappings
    BY <2>1, <1>d DEF TypeOK
  <2>3. dir' \in [Instances -> SUBSET Mappings]
    BY <2>2, <1>10 DEF Unregister, TypeOK
  <2>4. open' \in [Instances -> [Users -> SUBSET Nonces]]
    <3>1. [open[i] EXCEPT ![u] = open[i][u] \ {n}] \in [Users -> SUBSET Nonces]
      BY DEF TypeOK
    <3>2. open' = [open EXCEPT ![i] = [open[i] EXCEPT ![u] = open[i][u] \ {n}]]
      BY <1>10 DEF Unregister, TypeOK
    <3> QED BY <3>1, <3>2 DEF TypeOK
  <2> QED
    BY <2>1, <2>3, <2>4, <1>10 DEF Unregister, disk, TypeOK
<1>11. ASSUME NEW i \in Instances, NEW u \in Users, NEW n \in Nonces, NEW d \in SUBSET LocalPorts,
              SetDisabled(i, u, n, d)
      PROVE  TypeOK'
  <2>1. [online[i][u] EXCEPT !.disabled = d] \in Session
    <3>1. online[i][u] \in Session
      BY DEF TypeOK
    <3> QED BY <3>1 DEF Session
  <2>2. online' \in [Instances -> [Users -> Session]]
    <3>1. [online[i] EXCEPT ![u] = [online[i][u] EXCEPT !.disabled = d]] \in [Users -> Session]
      BY <2>1 DEF TypeOK
    <3>2. online' = [online EXCEPT ![i] = [online[i] EXCEPT ![u] = [online[i][u] EXCEPT !.disabled = d]]]
      BY <1>11 DEF SetDisabled, TypeOK
    <3> QED BY <3>1, <3>2 DEF TypeOK
  <2>3. Directory(allocs[i], online'[i]) \in SUBSET Mappings
    BY <2>2, <1>d DEF TypeOK
  <2>4. dir' \in [Instances -> SUBSET Mappings]
    BY <2>3, <1>11 DEF SetDisabled, TypeOK
  <2> QED
    BY <2>2, <2>4, <1>11 DEF SetDisabled, disk, TypeOK
<1>12. CASE Crash
  <2>1. /\ cfg' \in [Instances -> Configs \cup {NoUsers}]
        /\ allocs' \in [Instances -> Table]
        /\ online' \in [Instances -> [Users -> Session]]
    BY <1>12, EmptyType DEF Crash
  <2>2. /\ dir' \in [Instances -> SUBSET Mappings]
        /\ call' \in [Instances -> Call \cup {NoCall}]
        /\ open' \in [Instances -> [Users -> SUBSET Nonces]]
        /\ latest' \in [Instances -> [Users -> 0..MaxNonce]]
    BY <1>12 DEF Crash
  <2>3. started' \in 0..MaxInstances /\ writer' \in 0..MaxInstances
    BY <1>12 DEF Crash, TypeOK
  <2> QED
    BY <2>1, <2>2, <2>3, <1>12 DEF Crash, TypeOK
<1>13. ASSUME NEW c \in Configs, Load(c) PROVE TypeOK'
  <2>1. started + 1 \in Instances /\ file \in Table
    BY <1>13 DEF Load, TypeOK, Instances
  <2>2. Directory(file, online[started + 1]) \in SUBSET Mappings
    BY <2>1, <1>d DEF TypeOK
  <2>3. /\ cfg' \in [Instances -> Configs \cup {NoUsers}]
        /\ allocs' \in [Instances -> Table]
        /\ dir' \in [Instances -> SUBSET Mappings]
    BY <2>1, <2>2, <1>13 DEF Load, TypeOK
  <2>4. started' \in 0..MaxInstances /\ writer' \in 0..MaxInstances /\ saved' \in Table
    BY <2>1, <1>13 DEF Load, Instances
  <2> QED
    BY <2>3, <2>4, <1>13 DEF Load, TypeOK
<1>14. CASE UNCHANGED vars
  BY <1>14 DEF vars, registries, disk, TypeOK
<1> QED
  BY <1>1, <1>2, <1>3, <1>4, <1>5, <1>6, <1>7, <1>8, <1>9, <1>10, <1>11, <1>12, <1>13, <1>14 DEF Next

-----------------------------------------------------------------------------
(* The inductive invariant *)

\* Changing one entry to a free port keeps a user's entries distinct.
LEMMA DistinctUpdate ==
    ASSUME NEW t \in Table, Distinct(t), NEW u \in Users, NEW k \in Keys, NEW p \in Ports,
           p \notin UsedPorts(t, u, k)
    PROVE  Distinct([t EXCEPT ![u][k] = p])
<1> DEFINE n == [t EXCEPT ![u][k] = p]
<1> SUFFICES ASSUME NEW v \in Users, NEW i \in Keys, NEW j \in Keys, i # j, n[v][i] # 0
             PROVE  n[v][i] # n[v][j]
  BY DEF Distinct
<1>1. \A w \in Users : \A x \in Keys : n[w][x] = IF w = u /\ x = k THEN p ELSE t[w][x]
  BY DEF Table
<1>2. \A x \in Keys : x # k => t[u][x] # p
  BY DEF UsedPorts
<1>3. p # 0
  BY PortsAssumption DEF Ports
<1> HIDE DEF n
<1> QED
  BY <1>1, <1>2, <1>3 DEF Distinct

\* An empty table has no two entries alike.
LEMMA EmptyDistinct == Distinct(EmptyTable)
BY DEF Distinct, EmptyTable

\* A step that leaves an instance's table alone, and of its call at most the stage.
CallFrame(j) ==
    \/ call'[j] = NoCall
    \/ /\ cfg'[j] = cfg[j] /\ allocs'[j] = allocs[j]
       /\ call[j] # NoCall
       /\ call'[j].user = call[j].user
       /\ call'[j].todo = call[j].todo
       /\ call'[j].work = call[j].work
       /\ call'[j].changed = call[j].changed
       /\ call'[j].stage # "loop" => call[j].stage # "loop" \/ (call[j].todo = {} /\ call[j].changed)

LEMMA CallFrameKeeps ==
    ASSUME NEW j \in Instances, CallInv(j), CallFrame(j)
    PROVE  CallInv(j)'
<1>1. CASE call'[j] = NoCall
  BY <1>1 DEF CallInv
<1>2. CASE call'[j] # NoCall
  <2>1. /\ cfg'[j] = cfg[j] /\ allocs'[j] = allocs[j]
        /\ call[j] # NoCall
        /\ call'[j].user = call[j].user
        /\ call'[j].todo = call[j].todo
        /\ call'[j].work = call[j].work
        /\ call'[j].changed = call[j].changed
        /\ call'[j].stage # "loop" => call[j].stage # "loop" \/ (call[j].todo = {} /\ call[j].changed)
    BY <1>2 DEF CallFrame
  <2> QED
    BY <2>1 DEF CallInv, BlockOf, Entry, Distinct
<1> QED
  BY <1>1, <1>2

\* An instance whose table and call do not change at all.
LEMMA CallSame ==
    ASSUME NEW j \in Instances, cfg'[j] = cfg[j], allocs'[j] = allocs[j], call'[j] = call[j]
    PROVE  CallFrame(j)
BY DEF CallFrame

\* The loop of `register` maintains what its commit relies on.
LEMMA CallInvStep == IndInv /\ [Next]_vars => \A j \in Instances : CallInv(j)'
<1> SUFFICES ASSUME IndInv, [Next]_vars, NEW j \in Instances PROVE CallInv(j)'
  OBVIOUS
<1>t. TypeOK /\ CallInv(j)
  BY DEF IndInv
<1>f. CallFrame(j) => CallInv(j)'
  BY <1>t, CallFrameKeeps
<1>s. UNCHANGED <<cfg, allocs, call>> => CallFrame(j)
  BY CallSame
<1>1. ASSUME NEW i \in Instances, NEW u \in Users, RegisterBegin(i, u) PROVE CallInv(j)'
  <2>0. UNCHANGED <<cfg, allocs>> /\ u \in DOMAIN cfg[i]
    BY <1>1 DEF RegisterBegin
  <2>1. CASE j # i
    <3>1. call'[j] = call[j]
      BY <1>1, <1>t, <2>1 DEF RegisterBegin, TypeOK
    <3> QED BY <3>1, <2>0, <1>f, CallSame
  <2>2. CASE j = i
    <3>1. call'[i] = [user |-> u, nonce |-> issued + 1, todo |-> Wanted(cfg[i][u]),
                      work |-> allocs[i], changed |-> FALSE, stage |-> "loop", alone |-> TRUE]
      BY <1>1, <1>t DEF RegisterBegin, TypeOK
    <3>2. Distinct(allocs[i])
      BY DEF IndInv, TableInv
    <3> QED
      BY <2>0, <2>2, <3>1, <3>2 DEF CallInv, Distinct, Entry, BlockOf
  <2> QED BY <2>1, <2>2
<1>2. ASSUME NEW i \in Instances, NEW k \in Keys, KeepAllocation(i, k) PROVE CallInv(j)'
  <2>0. UNCHANGED <<cfg, allocs>> /\ call[i] # NoCall
    BY <1>2 DEF KeepAllocation, AtPort
  <2>1. CASE j # i
    <3>1. call'[j] = call[j]
      BY <1>2, <1>t, <2>1 DEF KeepAllocation, TypeOK
    <3> QED BY <3>1, <2>0, <1>f, CallSame
  <2>2. CASE j = i
    <3>1. call[i] \in Call
      BY <1>t, <2>0 DEF TypeOK
    <3>2. /\ call'[i].user = call[i].user /\ call'[i].work = call[i].work
          /\ call'[i].changed = call[i].changed /\ call'[i].stage = call[i].stage
          /\ call'[i].todo = call[i].todo \ {k}
      BY <1>2, <1>t, <3>1 DEF KeepAllocation, TypeOK, Call
    <3>3. Entry(i, k) \in BlockOf(i)
      BY <1>2 DEF KeepAllocation
    <3> QED
      BY <1>t, <2>0, <2>2, <3>2, <3>3 DEF CallInv, Distinct, Entry, BlockOf
  <2> QED BY <2>1, <2>2
<1>3. ASSUME NEW i \in Instances, NEW k \in Keys, NEW p \in Ports, Allocate(i, k, p)
      PROVE  CallInv(j)'
  <2>0. UNCHANGED <<cfg, allocs>> /\ call[i] # NoCall /\ CallInv(i)
    BY <1>3 DEF Allocate, AtPort, IndInv
  <2>1. CASE j # i
    <3>1. call'[j] = call[j]
      BY <1>3, <1>t, <2>1 DEF Allocate, TypeOK
    <3> QED BY <3>1, <2>0, <1>f, CallSame
  <2>2. CASE j = i
    <3>1. /\ call[i] \in Call /\ call[i].user \in Users /\ call[i].work \in Table
          /\ Wanted(cfg[i][call[i].user]) \subseteq Keys
      BY <1>t, <2>0, CallType DEF CallInv
    <3>2. /\ call'[i].user = call[i].user
          /\ call'[i].work = [call[i].work EXCEPT ![call[i].user][k] = p]
          /\ call'[i].changed /\ call'[i].stage = call[i].stage
          /\ call'[i].todo = call[i].todo \ {k}
      BY <1>3, <1>t, <3>1 DEF Allocate, TypeOK, Call
    <3>3. Entry(i, k) \notin BlockOf(i)
      BY <1>3 DEF Allocate
    <3>4. p \in BlockOf(i) /\ p \notin UsedPorts(call[i].work, call[i].user, k)
      BY <1>3 DEF Allocate, IsChosen, FreePorts, BlockOf
    <3>5. Distinct(call'[i].work)
      BY <2>0, <3>1, <3>2, <3>4, DistinctUpdate DEF CallInv
    <3>6. \A w \in Users : \A x \in Keys :
             call'[i].work[w][x] = IF w = call[i].user /\ x = k THEN p ELSE call[i].work[w][x]
      BY <3>1, <3>2 DEF Table
    <3>7. \A v \in Users \ {call[i].user} : call'[i].work[v] = call[i].work[v]
      BY <3>1, <3>2 DEF Table
    <3>8. BlockOf(i)' = BlockOf(i)
      BY <2>0, <3>2 DEF BlockOf
    <3>9. \A x \in Wanted(cfg[i][call[i].user]) \ call'[i].todo : Entry(i, x)' \in BlockOf(i)
      BY <2>0, <3>1, <3>2, <3>4, <3>6 DEF CallInv, Entry
    <3>10. \A x \in Keys : allocs[i][call[i].user][x] \in BlockOf(i)
                              => Entry(i, x)' = allocs[i][call[i].user][x]
      <4>1. ASSUME NEW x \in Keys, allocs[i][call[i].user][x] \in BlockOf(i)
            PROVE  Entry(i, x)' = allocs[i][call[i].user][x]
        <5>1. Entry(i, x) = allocs[i][call[i].user][x]
          BY <4>1, <2>0 DEF CallInv
        <5>2. x # k
          BY <5>1, <4>1, <3>3
        <5> QED BY <5>1, <5>2, <3>1, <3>2, <3>6 DEF Entry
      <4> QED BY <4>1
    <3>11. call'[i].stage # "loop" => call'[i].todo = {} /\ call'[i].changed
      BY <2>0, <3>2 DEF CallInv
    <3>12. \A v \in Users \ {call[i].user} : call'[i].work[v] = allocs[i][v]
      BY <2>0, <3>7 DEF CallInv
    <3>13. call[i].user \in DOMAIN cfg[i]
      BY <2>0 DEF CallInv
    <3> QED
      BY <2>0, <2>2, <3>2, <3>5, <3>8, <3>9, <3>10, <3>11, <3>12, <3>13 DEF CallInv
  <2> QED BY <2>1, <2>2
<1>4. ASSUME NEW i \in Instances, call' = [call EXCEPT ![i] = NoCall],
             UNCHANGED cfg, \A x \in Instances \ {i} : allocs'[x] = allocs[x]
      PROVE  CallInv(j)'
  <2>1. call'[j] = IF j = i THEN NoCall ELSE call[j]
    BY <1>4, <1>t DEF TypeOK
  <2> QED
    BY <1>4, <2>1, <1>f, CallSame DEF CallFrame
<1>5. ASSUME NEW i \in Instances, WriteBegins(i) PROVE CallInv(j)'
  <2>0. UNCHANGED <<cfg, allocs>> /\ call[i] # NoCall /\ call[i].todo = {} /\ call[i].changed
    BY <1>5 DEF WriteBegins
  <2>1. CASE j = i
    <3>1. call'[i] = [call[i] EXCEPT !.stage = "writing", !.alone = ~SomeoneWrites]
      BY <1>5 DEF WriteBegins
    <3>2. call[i] \in Call
      BY <2>0, <1>t DEF TypeOK
    <3> QED BY <2>0, <2>1, <3>1, <3>2, <1>f DEF CallFrame, Call
  <2>2. CASE j # i /\ IsWriting(j)
    <3>1. call'[j] = [call[j] EXCEPT !.alone = FALSE]
      BY <1>5, <2>2 DEF WriteBegins
    <3>2. call[j] # NoCall /\ call[j] \in Call
      BY <2>2, <1>t DEF TypeOK, IsWriting
    <3> QED BY <2>0, <3>1, <3>2, <1>f DEF CallFrame, Call
  <2>3. CASE j # i /\ ~IsWriting(j)
    <3>1. call'[j] = call[j]
      BY <1>5, <2>3 DEF WriteBegins
    <3> QED BY <2>0, <3>1, <1>f, CallSame
  <2> QED BY <2>1, <2>2, <2>3
<1>6. ASSUME NEW i \in Instances, WriteEnds(i) PROVE CallInv(j)'
  <2>0. UNCHANGED <<cfg, allocs>> /\ call[i] # NoCall /\ call[i] \in Call /\ call[i].stage = "writing"
    BY <1>6, <1>t DEF WriteEnds, IsWriting, TypeOK
  <2>1. call'[j] = IF j = i THEN [call[i] EXCEPT !.stage = "written"] ELSE call[j]
    BY <1>6, <1>t DEF WriteEnds, TypeOK
  <2>2. CASE j = i
    BY <2>0, <2>1, <2>2, <1>f DEF CallFrame, Call
  <2>3. CASE j # i
    BY <2>0, <2>1, <2>3, <1>f, CallSame
  <2> QED BY <2>2, <2>3
<1>7. ASSUME NEW i \in Instances, RegisterCommit(i) PROVE CallInv(j)'
  BY <1>7, <1>4, <1>t DEF RegisterCommit, GoesOnline, TypeOK
<1>8. CASE Crash
  BY <1>8, <1>f DEF Crash, CallFrame
<1>9. ASSUME NEW c \in Configs, Load(c) PROVE CallInv(j)'
  <2>1. call' = call /\ (j # started + 1 => cfg'[j] = cfg[j] /\ allocs'[j] = allocs[j])
    BY <1>9, <1>t DEF Load, TypeOK
  <2>2. j = started + 1 => call[j] = NoCall
    <3>1. j = started + 1 => j > started
      BY <1>t DEF TypeOK, Instances
    <3> QED BY <3>1 DEF IndInv, FreshInv
  <2> QED BY <2>1, <2>2, <1>f, CallSame DEF CallFrame
<1>10. ASSUME NEW i \in Instances, PersistFails(i) PROVE CallInv(j)'
  BY <1>10, <1>4 DEF PersistFails
<1>11. ASSUME NEW i \in Instances, NEW k \in Keys, BailExhausted(i, k) PROVE CallInv(j)'
  BY <1>11, <1>4 DEF BailExhausted
<1>12. CASE UNCHANGED <<cfg, allocs, call>>
  BY <1>12, <1>s, <1>f
<1> QED
  BY <1>1, <1>2, <1>3, <1>5, <1>6, <1>7, <1>8, <1>9, <1>10, <1>11, <1>12
     DEF Next, vars, registries, WritePart, Unregister, SetDisabled

\* The tables, in memory and in the file, stay distinct.
LEMMA TableInvStep == IndInv /\ [Next]_vars => TableInv'
<1> SUFFICES ASSUME IndInv, [Next]_vars PROVE TableInv'
  OBVIOUS
<1>t. TypeOK /\ TableInv
  BY DEF IndInv
<1>c. ASSUME NEW i \in Instances, call[i] # NoCall
      PROVE  call[i].work \in Table /\ Distinct(call[i].work)
  BY <1>c, <1>t DEF IndInv, CallInv, TypeOK, Call
<1>1. CASE UNCHANGED <<allocs, file>>
  BY <1>1, <1>t DEF TableInv, Distinct
<1>2. ASSUME UNCHANGED allocs, file' # Torn => Distinct(file') PROVE TableInv'
  BY <1>2, <1>t DEF TableInv, Distinct
<1>3. ASSUME NEW i \in Instances, WriteBegins(i) PROVE TableInv'
  BY <1>3, <1>2, EmptyDistinct DEF WriteBegins
<1>4. ASSUME NEW i \in Instances, WritePart(i) PROVE TableInv'
  <2>1. call[i].work \in Table /\ Distinct(call[i].work) /\ file' \in Cuts(call[i].work)
    BY <1>4, <1>c DEF WritePart, IsWriting
  <2> QED
    BY <1>4, <2>1, <1>2, CutsType DEF WritePart, registries
<1>5. ASSUME NEW i \in Instances, WriteEnds(i) PROVE TableInv'
  <2>1. Distinct(call[i].work)
    BY <1>5, <1>c DEF WriteEnds, IsWriting
  <2> QED
    BY <1>5, <2>1, <1>2 DEF WriteEnds
<1>6. ASSUME NEW i \in Instances, RegisterCommit(i) PROVE TableInv'
  <2>1. Distinct(call[i].work)
    BY <1>6, <1>c DEF RegisterCommit
  <2>2. \A j \in Instances : allocs'[j] = IF j = i THEN call[i].work ELSE allocs[j]
    BY <1>6, <1>t DEF RegisterCommit, GoesOnline, TypeOK
  <2>3. file' = file
    BY <1>6 DEF RegisterCommit, GoesOnline, disk
  <2> QED
    BY <2>1, <2>2, <2>3, <1>t DEF TableInv, Distinct
<1>7. CASE Crash
  BY <1>7, <1>t, EmptyDistinct DEF Crash, TableInv, Distinct
<1>8. ASSUME NEW c \in Configs, Load(c) PROVE TableInv'
  <2>1. \A j \in Instances : allocs'[j] = IF j = started + 1 THEN file ELSE allocs[j]
    BY <1>8, <1>t DEF Load, TypeOK
  <2> QED
    BY <1>8, <2>1, <1>t DEF Load, TableInv, Distinct
<1> QED
  BY <1>1, <1>3, <1>4, <1>5, <1>6, <1>7, <1>8
     DEF Next, vars, registries, disk, RegisterBegin, KeepAllocation, Allocate, BailExhausted,
         PersistFails, Unregister, SetDisabled

\* What the file holds at rest, and how it relates to the writer's table.
LEMMA FileInvStep == IndInv /\ [Next]_vars => FileInv'
<1> SUFFICES ASSUME IndInv, [Next]_vars, writer' # 0 PROVE FileInv'
  BY DEF FileInv
<1>t. TypeOK /\ FileInv /\ FreshInv /\ \A i \in Instances : CallInv(i)
  BY DEF IndInv
<1>w. writer \in Instances \cup {0} /\ writer' \in Instances \cup {0}
  BY <1>t, TypeOKStep DEF TypeOK, Instances, CallInv
<1>1. ASSUME UNCHANGED <<disk, cfg>>, SomeoneWrites => SomeoneWrites',
             \A w \in Instances : cfg[w] # NoUsers => Held(w)' = Held(w)
      PROVE  FileInv'
  <2>1. writer' = writer /\ file' = file /\ saved' = saved /\ cfg' = cfg
    BY <1>1 DEF disk
  <2>2. writer # 0 /\ writer \in Instances
    BY <2>1, <1>w
  <2> QED
    BY <1>1, <1>t, <2>1, <2>2 DEF FileInv
<1>2. ASSUME NEW i \in Instances, call' = [call EXCEPT ![i] = call'[i]],
             UNCHANGED <<disk, cfg, allocs>>, ~IsWriting(i), ~Written(i), ~Written(i)'
      PROVE  FileInv'
  <2>0. \A w \in Instances : w # i => call'[w] = call[w]
    BY <1>2, <1>t DEF TypeOK
  <2>1. ASSUME NEW w \in Instances PROVE Held(w)' = Held(w)
    <3>1. CASE w = i
      BY <3>1, <1>2 DEF Held
    <3>2. CASE w # i
      BY <3>2, <1>2, <2>0 DEF Held, Written
    <3> QED BY <3>1, <3>2
  <2>2. SomeoneWrites => SomeoneWrites'
    BY <2>0, <1>2 DEF SomeoneWrites, IsWriting
  <2> QED
    BY <2>1, <2>2, <1>1, <1>2
<1>3. ASSUME NEW i \in Instances, NEW u \in Users, RegisterBegin(i, u) PROVE FileInv'
  <2>1. /\ call' = [call EXCEPT ![i] = call'[i]] /\ call[i] = NoCall /\ call'[i].stage = "loop"
        /\ UNCHANGED <<disk, cfg, allocs>>
    BY <1>3, <1>t DEF RegisterBegin, TypeOK
  <2> QED
    BY <2>1, <1>2 DEF IsWriting, Written
<1>4. ASSUME NEW i \in Instances, call[i] # NoCall, call[i].todo # {},
             call' = [call EXCEPT ![i] = call'[i]], call'[i] = NoCall \/ call'[i].stage = call[i].stage,
             UNCHANGED <<disk, cfg, allocs>>
      PROVE  FileInv'
  <2>1. call[i].stage = "loop"
    BY <1>4, <1>t DEF CallInv
  <2> QED
    BY <2>1, <1>2, <1>4 DEF IsWriting, Written
<1>5. ASSUME NEW i \in Instances, NEW k \in Keys, KeepAllocation(i, k) PROVE FileInv'
  <2>1. /\ call[i] # NoCall /\ call[i].todo # {} /\ call[i] \in Call
        /\ call' = [call EXCEPT ![i] = [call[i] EXCEPT !.todo = @ \ {k}]]
        /\ UNCHANGED <<disk, cfg, allocs>>
    BY <1>5, <1>t DEF KeepAllocation, AtPort, IsNext, TypeOK
  <2>2. call'[i] = [call[i] EXCEPT !.todo = @ \ {k}]
    BY <2>1, <1>t DEF TypeOK
  <2>3. call'[i].stage = call[i].stage
    BY <2>1, <2>2 DEF Call
  <2> QED
    BY <2>1, <2>2, <2>3, <1>4
<1>6. ASSUME NEW i \in Instances, NEW k \in Keys, NEW p \in Ports, Allocate(i, k, p) PROVE FileInv'
  <2>1. /\ call[i] # NoCall /\ call[i].todo # {} /\ call[i] \in Call
        /\ UNCHANGED <<disk, cfg, allocs>>
    BY <1>6, <1>t DEF Allocate, AtPort, IsNext, TypeOK
  <2>2. call' = [call EXCEPT ![i] = call'[i]]
    BY <1>6, <1>t DEF Allocate, TypeOK
  <2>3. call'[i].stage = call[i].stage
    BY <1>6, <1>t, <2>1 DEF Allocate, TypeOK, Call
  <2> QED
    BY <2>1, <2>2, <2>3, <1>4
<1>7. ASSUME NEW i \in Instances, NEW k \in Keys, BailExhausted(i, k) PROVE FileInv'
  <2>1. /\ call[i] # NoCall /\ call[i].todo # {}
        /\ call' = [call EXCEPT ![i] = call'[i]] /\ call'[i] = NoCall
        /\ UNCHANGED <<disk, cfg, allocs>>
    BY <1>7, <1>t DEF BailExhausted, Exhausted, AtPort, IsNext, TypeOK
  <2> QED
    BY <2>1, <1>4
<1>8. ASSUME NEW i \in Instances, WriteBegins(i) PROVE FileInv'
  <2>1. /\ UNCHANGED <<cfg, allocs, saved, writer>>
        /\ call[i] # NoCall /\ call[i].stage = "loop"
        /\ call'[i] = [call[i] EXCEPT !.stage = "writing", !.alone = ~SomeoneWrites]
    BY <1>8 DEF WriteBegins
  <2>2. call[i] \in Call
    BY <2>1, <1>t DEF TypeOK
  <2>3. call'[i].stage = "writing" /\ call'[i] \in Call
    <3>1. SomeoneWrites \in BOOLEAN
      BY DEF SomeoneWrites
    <3> QED BY <2>1, <2>2, <3>1 DEF Call
  <2>4. SomeoneWrites'
    BY <2>3, NullAssumption DEF SomeoneWrites, IsWriting
  <2>5. ASSUME NEW w \in Instances PROVE Held(w)' = Held(w)
    <3>1. CASE w = i
      BY <3>1, <2>1, <2>3 DEF Held, Written
    <3>2. CASE w # i /\ IsWriting(w)
      <4>1. call'[w] = [call[w] EXCEPT !.alone = FALSE] /\ call[w] \in Call /\ call[w].stage = "writing"
        BY <1>8, <1>t, <3>2 DEF WriteBegins, IsWriting, TypeOK
      <4>2. call'[w].stage = "writing"
        BY <4>1 DEF Call
      <4> QED BY <4>1, <4>2, <2>1 DEF Held, Written
    <3>3. CASE w # i /\ ~IsWriting(w)
      <4>1. call'[w] = call[w]
        BY <1>8, <3>3 DEF WriteBegins
      <4> QED BY <4>1, <2>1 DEF Held, Written
    <3> QED BY <3>1, <3>2, <3>3
  <2> QED
    BY <2>1, <2>4, <2>5, <1>t, <1>w DEF FileInv
<1>9. ASSUME NEW i \in Instances, WritePart(i) PROVE FileInv'
  <2>1. /\ UNCHANGED <<cfg, allocs, call, saved, writer>> /\ SomeoneWrites
    BY <1>9 DEF WritePart, registries, SomeoneWrites
  <2>2. SomeoneWrites'
    BY <2>1 DEF SomeoneWrites, IsWriting
  <2> QED
    BY <2>1, <2>2, <1>t DEF FileInv, Held, Written
<1>10. ASSUME NEW i \in Instances, WriteEnds(i) PROVE FileInv'
  <2>1. file' = call[i].work /\ saved' = file' /\ writer' = i
    BY <1>10 DEF WriteEnds
  <2>2. call[i] # NoCall /\ call[i] \in Call
    BY <1>10, <1>t DEF WriteEnds, IsWriting, TypeOK
  <2>3. call'[i] = [call[i] EXCEPT !.stage = "written"]
    BY <1>10, <1>t DEF WriteEnds, TypeOK
  <2>4. call'[i] \in Call /\ call'[i].stage = "written" /\ call'[i].work = call[i].work
    BY <2>2, <2>3 DEF Call
  <2> QED
    BY <2>1, <2>4, NullAssumption DEF FileInv, Held, Written
<1>11. ASSUME NEW i \in Instances, PersistFails(i) PROVE FileInv'
  <2>1. ~IsWriting(i)
    BY <1>11 DEF PersistFails
  <2>2. /\ call' = [call EXCEPT ![i] = call'[i]] /\ call'[i] = NoCall
        /\ UNCHANGED <<disk, cfg, allocs>> /\ ~Written(i)
    BY <1>11, <2>1, <1>t DEF PersistFails, TypeOK, disk, Written
  <2> QED
    BY <2>1, <2>2, <1>2 DEF Written
<1>12. ASSUME NEW i \in Instances, RegisterCommit(i) PROVE FileInv'
  <2>1. /\ UNCHANGED <<disk, cfg>> /\ call[i] # NoCall
        /\ call' = [call EXCEPT ![i] = NoCall] /\ allocs' = [allocs EXCEPT ![i] = call[i].work]
        /\ call[i].changed => call[i].stage = "written"
    BY <1>12 DEF RegisterCommit, GoesOnline
  <2>2. \A w \in Instances : /\ call'[w] = (IF w = i THEN NoCall ELSE call[w])
                             /\ allocs'[w] = (IF w = i THEN call[i].work ELSE allocs[w])
    BY <2>1, <1>t DEF TypeOK
  <2>3. ~IsWriting(i)
    BY <2>1, <1>t DEF IsWriting, CallInv
  <2>4. SomeoneWrites => SomeoneWrites'
    BY <2>2, <2>3 DEF SomeoneWrites, IsWriting
  <2>5. ASSUME NEW w \in Instances PROVE Held(w)' = Held(w)
    <3>1. CASE w = i
      BY <3>1, <2>1, <2>2, <1>t DEF CallInv, Held, Written
    <3>2. CASE w # i
      BY <3>2, <2>2 DEF Held, Written
    <3> QED BY <3>1, <3>2
  <2> QED
    BY <2>1, <2>4, <2>5, <1>1
<1>13. CASE Crash
  <2>1. /\ ~SomeoneWrites /\ writer' = writer /\ UNCHANGED <<file, saved>>
        /\ \A i \in Instances : cfg'[i] = NoUsers
    BY <1>13 DEF Crash
  <2> QED
    BY <2>1, <1>t, <1>w DEF FileInv
<1>14. ASSUME NEW c \in Configs, Load(c) PROVE FileInv'
  <2>1. /\ started + 1 \in Instances /\ started + 1 > started
        /\ file' = file /\ saved' = file /\ writer' = started + 1 /\ call' = call
    BY <1>14, <1>t, NonceAssumption DEF Load, TypeOK, Instances
  <2>2. allocs'[started + 1] = file
    BY <1>14, <1>t, <2>1 DEF Load, TypeOK
  <2>3. call'[started + 1] = NoCall
    BY <2>1, <1>t DEF FreshInv
  <2> QED
    BY <2>1, <2>2, <2>3 DEF FileInv, Held, Written
<1>15. CASE UNCHANGED <<disk, cfg, allocs, call>>
  BY <1>15, <1>1 DEF SomeoneWrites, IsWriting, Held, Written
<1> QED
  BY <1>3, <1>5, <1>6, <1>7, <1>8, <1>9, <1>10, <1>11, <1>12, <1>13, <1>14, <1>15
     DEF Next, vars, registries, Unregister, SetDisabled

\* An online user stays fully mapped: nobody else's registration touches its
\* entries, and its own keeps those that lie in the block.
LEMMA OnlineInvStep == IndInv /\ [Next]_vars => \A j \in Instances : OnlineInv(j)'
<1> SUFFICES ASSUME IndInv, [Next]_vars, NEW j \in Instances PROVE OnlineInv(j)'
  OBVIOUS
<1>t. TypeOK /\ OnlineInv(j) /\ FreshInv /\ \A i \in Instances : CallInv(i)
  BY DEF IndInv
<1>f. cfg'[j] = cfg[j] /\ allocs'[j] = allocs[j] /\ online'[j] = online[j] => OnlineInv(j)'
  BY <1>t DEF OnlineInv
<1>1. CASE UNCHANGED <<cfg, allocs, online>>
  BY <1>1, <1>f
<1>2. ASSUME NEW i \in Instances, RegisterCommit(i) PROVE OnlineInv(j)'
  <2>g. GoesOnline(i) /\ call[i] # NoCall /\ call[i].todo = {}
    BY <1>2 DEF RegisterCommit
  <2>1. CASE j # i
    BY <2>1, <2>g, <1>t, <1>f DEF GoesOnline, TypeOK
  <2>2. CASE j = i
    <3>1. call[i].user \in Users /\ CallInv(i)
      BY <2>g, <1>t, CallType DEF CallInv
    <3>2. allocs'[i] = call[i].work /\ cfg' = cfg
      BY <2>g, <1>t DEF GoesOnline, TypeOK
    <3>3. /\ online'[i][call[i].user].ports = Wanted(cfg[i][call[i].user])
          /\ \A v \in Users \ {call[i].user} : online'[i][v] = online[i][v]
      BY <2>g, <1>t, <3>1 DEF GoesOnline, TypeOK
    <3>4. \A k \in Wanted(cfg[i][call[i].user]) :
             call[i].work[call[i].user][k] \in Block(cfg[i][call[i].user])
      BY <2>g, <3>1 DEF CallInv, Entry, BlockOf
    <3>5. \A v \in Users \ {call[i].user} : call[i].work[v] = allocs[i][v]
      BY <2>g, <3>1 DEF CallInv
    <3>6. call[i].user \in DOMAIN cfg[i]
      BY <2>g, <3>1 DEF CallInv
    <3> QED
      BY <2>2, <3>1, <3>2, <3>3, <3>4, <3>5, <3>6, <1>t DEF OnlineInv
  <2> QED BY <2>1, <2>2
<1>3. ASSUME NEW i \in Instances, NEW u \in Users, NEW n \in Nonces, Unregister(i, u, n)
      PROVE  OnlineInv(j)'
  <2>1. ASSUME NEW v \in Users
        PROVE  online'[j][v] = online[j][v] \/ online'[j][v] = Offline
    <3>1. online' = online \/ online' = [online EXCEPT ![i][u] = Offline]
      BY <1>3 DEF Unregister
    <3>2. online \in [Instances -> [Users -> Session]]
      BY <1>t DEF TypeOK
    <3>3. CASE online' = [online EXCEPT ![i][u] = Offline]
      <4>1. online'[j] = IF j = i THEN [online[i] EXCEPT ![u] = Offline] ELSE online[j]
        BY <3>2, <3>3
      <4>2. online[i] \in [Users -> Session]
        BY <3>2
      <4> QED BY <4>1, <4>2
    <3> QED BY <3>1, <3>3
  <2>2. cfg' = cfg /\ allocs' = allocs
    BY <1>3 DEF Unregister
  <2> QED
    BY <2>1, <2>2, <1>t DEF OnlineInv
<1>4. ASSUME NEW i \in Instances, NEW u \in Users, NEW n \in Nonces, NEW d \in SUBSET LocalPorts,
             SetDisabled(i, u, n, d)
      PROVE  OnlineInv(j)'
  <2>1. online'[i][u].ports = online[i][u].ports
    <3>1. online[i][u] \in Session
      BY <1>t DEF TypeOK
    <3>2. online'[i][u] = [online[i][u] EXCEPT !.disabled = d]
      BY <1>4, <1>t DEF SetDisabled, TypeOK
    <3> QED BY <3>1, <3>2 DEF Session
  <2>2. online[i][u] # Offline
    BY <1>4, NonceAssumption DEF SetDisabled, Offline, Nonces
  <2>3. \A v \in Users : <<j, v>> # <<i, u>> => online'[j][v] = online[j][v]
    BY <1>4, <1>t DEF SetDisabled, TypeOK
  <2>4. cfg' = cfg /\ allocs' = allocs
    BY <1>4 DEF SetDisabled
  <2> QED
    BY <2>1, <2>2, <2>3, <2>4, <1>t DEF OnlineInv
<1>5. CASE Crash
  BY <1>5 DEF Crash, OnlineInv
<1>6. ASSUME NEW c \in Configs, Load(c) PROVE OnlineInv(j)'
  <2>1. CASE j = started + 1
    <3>1. \A u \in Users : online[j][u] = Offline
      BY <2>1, <1>t DEF FreshInv, TypeOK
    <3> QED BY <3>1, <1>6 DEF Load, OnlineInv
  <2>2. CASE j # started + 1
    BY <2>2, <1>6, <1>t, <1>f DEF Load, TypeOK
  <2> QED BY <2>1, <2>2
<1> QED
  BY <1>1, <1>2, <1>3, <1>4, <1>5, <1>6
     DEF Next, vars, registries, RegisterBegin, KeepAllocation, Allocate, BailExhausted,
         WriteBegins, WritePart, WriteEnds, PersistFails

\* Every operation that changes a table or a session publishes.
LEMMA PublishedInvStep == IndInv /\ [Next]_vars => \A j \in Instances : PublishedInv(j)'
<1> SUFFICES ASSUME IndInv, [Next]_vars, NEW j \in Instances PROVE PublishedInv(j)'
  OBVIOUS
<1>t. TypeOK /\ PublishedInv(j)
  BY DEF IndInv
<1>f. allocs'[j] = allocs[j] /\ online'[j] = online[j] /\ dir'[j] = dir[j] => PublishedInv(j)'
  BY <1>t DEF PublishedInv
<1>g. dir'[j] = Directory(allocs'[j], online'[j]) => PublishedInv(j)'
  BY DEF PublishedInv
<1>1. CASE UNCHANGED <<allocs, online, dir>>
  BY <1>1, <1>f
<1>2. ASSUME NEW i \in Instances, RegisterCommit(i) PROVE PublishedInv(j)'
  <2>1. CASE j = i
    BY <2>1, <1>2, <1>t, <1>g DEF RegisterCommit, GoesOnline, TypeOK
  <2>2. CASE j # i
    BY <2>2, <1>2, <1>t, <1>f DEF RegisterCommit, GoesOnline, TypeOK
  <2> QED BY <2>1, <2>2
<1>3. ASSUME NEW i \in Instances, NEW u \in Users, NEW n \in Nonces, Unregister(i, u, n)
      PROVE  PublishedInv(j)'
  <2>1. CASE j = i /\ online[i][u].nonce = n
    BY <2>1, <1>3, <1>t, <1>g DEF Unregister, TypeOK
  <2>2. CASE j # i \/ online[i][u].nonce # n
    BY <2>2, <1>3, <1>t, <1>f DEF Unregister, TypeOK
  <2> QED BY <2>1, <2>2
<1>4. ASSUME NEW i \in Instances, NEW u \in Users, NEW n \in Nonces, NEW d \in SUBSET LocalPorts,
             SetDisabled(i, u, n, d)
      PROVE  PublishedInv(j)'
  <2>1. CASE j = i
    BY <2>1, <1>4, <1>t, <1>g DEF SetDisabled, TypeOK
  <2>2. CASE j # i
    BY <2>2, <1>4, <1>t, <1>f DEF SetDisabled, TypeOK
  <2> QED BY <2>1, <2>2
<1>5. CASE Crash
  <2>1. allocs'[j] = EmptyTable /\ dir'[j] = {}
    BY <1>5 DEF Crash
  <2>2. Directory(EmptyTable, online'[j]) = {}
    BY DEF Directory, EmptyTable
  <2> QED BY <2>1, <2>2, <1>g
<1>6. ASSUME NEW c \in Configs, Load(c) PROVE PublishedInv(j)'
  <2>1. CASE j = started + 1
    BY <2>1, <1>6, <1>t, <1>g DEF Load, TypeOK
  <2>2. CASE j # started + 1
    BY <2>2, <1>6, <1>t, <1>f DEF Load, TypeOK
  <2> QED BY <2>1, <2>2
<1> QED
  BY <1>1, <1>2, <1>3, <1>4, <1>5, <1>6
     DEF Next, vars, registries, RegisterBegin, KeepAllocation, Allocate, BailExhausted,
         WriteBegins, WritePart, WriteEnds, PersistFails

\* The nonce check keeps a replaced session from ending its successor.
LEMMA LatestStep == IndInv /\ [Next]_vars => OnlineIffLatestOpen'
<1> DEFINE Fits(i, u) == /\ online[i][u] # Offline <=> latest[i][u] \in open[i][u]
                         /\ online[i][u] # Offline => online[i][u].nonce = latest[i][u]
<1> SUFFICES ASSUME IndInv, [Next]_vars, NEW j \in Instances, NEW v \in Users
             PROVE  Fits(j, v)'
  BY DEF OnlineIffLatestOpen
<1>t. TypeOK /\ Fits(j, v) /\ \A i \in Instances : CallInv(i)
  BY DEF IndInv, OnlineIffLatestOpen
<1>f. online'[j][v] = online[j][v] /\ latest'[j][v] = latest[j][v] /\ open'[j][v] = open[j][v]
        => Fits(j, v)'
  BY <1>t
<1>1. CASE UNCHANGED <<online, open, latest>>
  BY <1>1, <1>f
<1>2. ASSUME NEW i \in Instances, RegisterCommit(i) PROVE Fits(j, v)'
  <2>g. GoesOnline(i) /\ call[i] # NoCall
    BY <1>2 DEF RegisterCommit
  <2>1. call[i].user \in Users /\ call[i].nonce \in Nonces
    BY <2>g, <1>t, CallType DEF CallInv
  <2>2. CASE j = i /\ v = call[i].user
    <3>1. /\ online'[j][v].nonce = call[i].nonce
          /\ latest'[j][v] = call[i].nonce
          /\ call[i].nonce \in open'[j][v]
      BY <2>1, <2>2, <2>g, <1>t DEF GoesOnline, TypeOK
    <3>2. online'[j][v] # Offline
      BY <2>1, <3>1, NonceAssumption DEF Offline, Nonces
    <3> QED BY <3>1, <3>2
  <2>3. CASE ~(j = i /\ v = call[i].user)
    <3>1. online'[j][v] = online[j][v]
      BY <2>1, <2>3, <2>g, <1>t DEF GoesOnline, TypeOK
    <3>2. latest'[j][v] = latest[j][v]
      BY <2>1, <2>3, <2>g, <1>t DEF GoesOnline, TypeOK
    <3>3. open'[j][v] = open[j][v]
      BY <2>1, <2>3, <2>g, <1>t DEF GoesOnline, TypeOK
    <3> QED BY <3>1, <3>2, <3>3, <1>f
  <2> QED BY <2>2, <2>3
<1>3. ASSUME NEW i \in Instances, NEW u \in Users, NEW n \in Nonces, Unregister(i, u, n)
      PROVE  Fits(j, v)'
  <2>0. latest' = latest /\ open' = [open EXCEPT ![i][u] = open[i][u] \ {n}]
    BY <1>3 DEF Unregister
  <2>1. CASE ~(j = i /\ v = u)
    <3>1. online'[j][v] = online[j][v]
      BY <1>3, <1>t, <2>1 DEF Unregister, TypeOK
    <3>2. open'[j][v] = open[j][v]
      BY <2>0, <2>1, <1>t DEF TypeOK
    <3> QED BY <3>1, <3>2, <2>0, <1>f
  <2>2. CASE j = i /\ v = u
    <3>0. open'[j][v] = open[j][v] \ {n}
      BY <2>0, <2>2, <1>t DEF TypeOK
    <3>1. CASE online[i][u].nonce = n
      <4>1. online'[j][v] = Offline
        BY <3>1, <2>2, <1>3, <1>t DEF Unregister, TypeOK
      <4>2. online[j][v] # Offline
        BY <3>1, <2>2, <1>3, NonceAssumption DEF Offline, Nonces
      <4> QED
        BY <4>1, <4>2, <3>0, <3>1, <2>0, <2>2, <1>t
    <3>2. CASE online[i][u].nonce # n
      <4>1. online' = online
        BY <3>2, <1>3 DEF Unregister
      <4> QED
        BY <4>1, <3>0, <3>2, <2>0, <2>2, <1>t
    <3> QED BY <3>1, <3>2
  <2> QED BY <2>1, <2>2
<1>4. ASSUME NEW i \in Instances, NEW u \in Users, NEW n \in Nonces, NEW d \in SUBSET LocalPorts,
             SetDisabled(i, u, n, d)
      PROVE  Fits(j, v)'
  <2>0. latest' = latest /\ open' = open
    BY <1>4 DEF SetDisabled
  <2>1. CASE ~(j = i /\ v = u)
    <3>1. online'[j][v] = online[j][v]
      BY <1>4, <1>t, <2>1 DEF SetDisabled, TypeOK
    <3> QED BY <3>1, <2>0, <1>f
  <2>2. CASE j = i /\ v = u
    <3>1. online'[j][v].nonce = online[j][v].nonce
      <4>1. online[i][u] \in Session
        BY <1>t DEF TypeOK
      <4>2. online'[i][u] = [online[i][u] EXCEPT !.disabled = d]
        BY <1>4, <1>t DEF SetDisabled, TypeOK
      <4> QED BY <4>1, <4>2, <2>2 DEF Session
    <3>2. online[j][v] # Offline /\ online'[j][v] # Offline
      BY <3>1, <2>2, <1>4, NonceAssumption DEF SetDisabled, Offline, Nonces
    <3> QED BY <3>1, <3>2, <2>0, <1>t
  <2> QED BY <2>1, <2>2
<1>5. CASE Crash
  BY <1>5 DEF Crash
<1> HIDE DEF Fits
<1> QED
  BY <1>1, <1>2, <1>3, <1>4, <1>5
     DEF Next, vars, registries, RegisterBegin, KeepAllocation, Allocate, BailExhausted,
         WriteBegins, WritePart, WriteEnds, PersistFails, Load

\* An instance that was not started yet has nothing, and no writer is younger
\* than the last instance.
LEMMA FreshStep == IndInv /\ [Next]_vars => FreshInv'
<1> SUFFICES ASSUME IndInv, [Next]_vars PROVE FreshInv'
  OBVIOUS
<1>t. TypeOK /\ FreshInv /\ (\A i \in Instances : CallInv(i)) /\ OnlineIffLatestOpen
  BY DEF IndInv
<1> USE NonceAssumption
<1>1. ASSUME started' = started, cfg' = cfg, writer' = writer \/ writer' \in 0..started,
             \A i \in Instances : i > started => call'[i] = NoCall /\ online'[i] = online[i]
      PROVE  FreshInv'
  BY <1>1, <1>t DEF FreshInv, TypeOK, Instances
<1>2. ASSUME NEW i \in Instances, call[i] # NoCall \/ (\E u \in Users : online[i][u] # Offline)
      PROVE  i <= started
  BY <1>2, <1>t DEF FreshInv, TypeOK, Instances
<1>3. ASSUME NEW i \in Instances, NEW u \in Users, RegisterBegin(i, u) PROVE FreshInv'
  <2>1. i <= started
    BY <1>3, <1>t DEF RegisterBegin, FreshInv, TypeOK, Instances, NoUsers
  <2>2. \A j \in Instances : j # i => call'[j] = call[j]
    BY <1>3, <1>t DEF RegisterBegin, TypeOK
  <2>3. started' = started /\ cfg' = cfg /\ writer' = writer /\ online' = online
    BY <1>3 DEF RegisterBegin, disk
  <2> QED BY <2>1, <2>2, <2>3, <1>1, <1>t DEF FreshInv, Instances, TypeOK
<1>4. ASSUME NEW i \in Instances, call[i] # NoCall, started' = started, cfg' = cfg,
             writer' = writer \/ writer' \in {0, i},
             \A j \in Instances \ {i} : online'[j] = online[j] /\ (call[j] = NoCall => call'[j] = NoCall)
      PROVE  FreshInv'
  <2>1. i <= started
    BY <1>2, <1>4
  <2> QED BY <2>1, <1>4, <1>1, <1>t DEF FreshInv, TypeOK, Instances
<1>5. ASSUME NEW i \in Instances, NEW k \in Keys, KeepAllocation(i, k) PROVE FreshInv'
  BY <1>5, <1>4, <1>t DEF KeepAllocation, AtPort, disk, TypeOK
<1>6. ASSUME NEW i \in Instances, NEW k \in Keys, NEW p \in Ports, Allocate(i, k, p) PROVE FreshInv'
  <2>1. /\ call[i] # NoCall /\ started' = started /\ cfg' = cfg /\ writer' = writer /\ online' = online
        /\ \A j \in Instances \ {i} : call'[j] = call[j]
    BY <1>6, <1>t DEF Allocate, AtPort, disk, TypeOK
  <2> QED BY <2>1, <1>4
<1>7. ASSUME NEW i \in Instances, NEW k \in Keys, BailExhausted(i, k) PROVE FreshInv'
  BY <1>7, <1>4, <1>t DEF BailExhausted, Exhausted, AtPort, disk, TypeOK
<1>8. ASSUME NEW i \in Instances, WriteBegins(i) PROVE FreshInv'
  BY <1>8, <1>4, <1>t DEF WriteBegins, IsWriting, TypeOK
<1>9. ASSUME NEW i \in Instances, WritePart(i) PROVE FreshInv'
  BY <1>9, <1>4, <1>t DEF WritePart, IsWriting, registries, TypeOK
<1>10. ASSUME NEW i \in Instances, WriteEnds(i) PROVE FreshInv'
  BY <1>10, <1>4, <1>t DEF WriteEnds, IsWriting, TypeOK
<1>11. ASSUME NEW i \in Instances, PersistFails(i) PROVE FreshInv'
  BY <1>11, <1>4, <1>t DEF PersistFails, TypeOK
<1>12. ASSUME NEW i \in Instances, RegisterCommit(i) PROVE FreshInv'
  BY <1>12, <1>4, <1>t DEF RegisterCommit, GoesOnline, disk, TypeOK
<1>13. ASSUME NEW i \in Instances, NEW u \in Users, NEW n \in Nonces, Unregister(i, u, n) PROVE FreshInv'
  <2>1. ASSUME NEW j \in Instances, NEW v \in Users
        PROVE  online'[j][v] = online[j][v] \/ online'[j][v] = Offline
    <3>1. online' = online \/ online' = [online EXCEPT ![i][u] = Offline]
      BY <1>13 DEF Unregister
    <3>2. online \in [Instances -> [Users -> Session]]
      BY <1>t DEF TypeOK
    <3>3. CASE online' = [online EXCEPT ![i][u] = Offline]
      <4>1. online'[j] = IF j = i THEN [online[i] EXCEPT ![u] = Offline] ELSE online[j]
        BY <3>2, <3>3
      <4>2. online[i] \in [Users -> Session]
        BY <3>2
      <4> QED BY <4>1, <4>2
    <3> QED BY <3>1, <3>3
  <2>2. started' = started /\ cfg' = cfg /\ writer' = writer /\ call' = call
    BY <1>13 DEF Unregister, disk
  <2> QED BY <2>1, <2>2, <1>t DEF FreshInv
<1>14. ASSUME NEW i \in Instances, NEW u \in Users, NEW n \in Nonces, NEW d \in SUBSET LocalPorts,
              SetDisabled(i, u, n, d)
       PROVE  FreshInv'
  <2>1. online[i][u] # Offline
    BY <1>14 DEF SetDisabled, Offline, Nonces
  <2>2. i <= started
    BY <2>1, <1>2
  <2>3. /\ started' = started /\ cfg' = cfg /\ writer' = writer /\ call' = call
        /\ \A j \in Instances : j # i => online'[j] = online[j]
    BY <1>14, <1>t DEF SetDisabled, disk, TypeOK
  <2> QED BY <2>2, <2>3, <1>1, <1>t DEF FreshInv, Instances, TypeOK
<1>15. CASE Crash
  BY <1>15 DEF Crash, FreshInv
<1>16. ASSUME NEW c \in Configs, Load(c) PROVE FreshInv'
  BY <1>16, <1>t DEF Load, FreshInv, TypeOK, Instances
<1>17. CASE UNCHANGED vars
  BY <1>17, <1>t DEF vars, registries, disk, FreshInv
<1> QED
  BY <1>3, <1>5, <1>6, <1>7, <1>8, <1>9, <1>10, <1>11, <1>12, <1>13, <1>14, <1>15, <1>16, <1>17 DEF Next

\* The invariant holds at start: no instance, an empty table.
LEMMA IndInvInit == Init => IndInv
<1> SUFFICES ASSUME Init PROVE IndInv
  OBVIOUS
<1> USE NonceAssumption, PortsAssumption
<1>1. EmptyTable # Torn
  BY EmptyType, NullAssumption
<1>2. TypeOK
  <2>1. /\ cfg \in [Instances -> Configs \cup {NoUsers}]
        /\ allocs \in [Instances -> Table]
        /\ online \in [Instances -> [Users -> Session]]
    BY EmptyType DEF Init
  <2>2. /\ dir \in [Instances -> SUBSET [user : Users, key : Keys, remote : Ports, online : BOOLEAN]]
        /\ call \in [Instances -> Call \cup {NoCall}]
        /\ open \in [Instances -> [Users -> SUBSET Nonces]]
        /\ latest \in [Instances -> [Users -> 0..MaxNonce]]
    BY DEF Init
  <2>3. /\ started \in 0..MaxInstances /\ writer \in 0..MaxInstances /\ issued \in 0..MaxNonce
        /\ file \in Table \cup {Torn} /\ saved \in Table
    BY EmptyType DEF Init
  <2> QED
    BY <2>1, <2>2, <2>3 DEF TypeOK
<1>3. TableInv
  BY EmptyDistinct DEF Init, TableInv
<1>4. FileInv /\ FreshInv
  BY DEF Init, FileInv, FreshInv
<1>5. ASSUME NEW i \in Instances PROVE CallInv(i) /\ OnlineInv(i) /\ PublishedInv(i)
  <2>1. allocs[i] = EmptyTable /\ dir[i] = {} /\ call[i] = NoCall
        /\ \A u \in Users : online[i][u] = Offline
    BY DEF Init
  <2>2. Directory(EmptyTable, online[i]) = {}
    BY DEF Directory, EmptyTable
  <2> QED BY <2>1, <2>2 DEF CallInv, OnlineInv, PublishedInv
<1>6. OnlineIffLatestOpen
  BY DEF Init, OnlineIffLatestOpen
<1> QED
  BY <1>2, <1>3, <1>4, <1>5, <1>6 DEF IndInv

\* Every reachable state of the registries satisfies the inductive invariant.
THEOREM Invariance == Spec => []IndInv
<1>1. IndInv /\ [Next]_vars => TypeOK'
  BY TypeOKStep DEF IndInv, CallInv
<1>2. IndInv /\ [Next]_vars => IndInv'
  BY <1>1, TableInvStep, FileInvStep, FreshStep, CallInvStep, OnlineInvStep, PublishedInvStep,
     LatestStep DEF IndInv
<1> QED
  BY <1>2, IndInvInit, PTL DEF Spec

-----------------------------------------------------------------------------
(* The results *)

\* The state of the registries is always well typed.
THEOREM TypeCorrect == Spec => []TypeOK
BY Invariance, PTL DEF IndInv

\* `register` never gives one user the same remote port twice.
THEOREM OwnPorts == Spec => []OwnPortsDistinct
<1>1. IndInv => OwnPortsDistinct
  BY DEF IndInv, TableInv, OwnPortsDistinct
<1> QED
  BY <1>1, Invariance, PTL

\* No two mappings that an instance lists online share a remote port, whatever
\* tables earlier instances left behind: the blocks of its config are disjoint and
\* an online user's ports all lie in its block.
THEOREM Exclusive == Spec => []OnlinePortsExclusive
<1>1. IndInv => OnlinePortsExclusive
  <2> SUFFICES ASSUME IndInv, NEW i \in Instances, NEW m \in dir[i], NEW n \in dir[i],
                      m.online, n.online, m.remote = n.remote
               PROVE  m = n
    BY DEF OnlinePortsExclusive
  <2>t. dir[i] = Directory(allocs[i], online[i]) /\ OnlineInv(i) /\ Distinct(allocs[i])
    BY DEF IndInv, PublishedInv, TableInv
  <2>v. \A u, v \in DOMAIN cfg[i] : u # v => Block(cfg[i][u]) \cap Block(cfg[i][v]) = {}
    BY ConfigsSound DEF IndInv, TypeOK, ValidUsers, NoUsers
  <2>2. ASSUME NEW x \in dir[i], x.online
        PROVE  \E u \in DOMAIN cfg[i], k \in Keys :
                  /\ u \in Users
                  /\ x = [user |-> u, key |-> k, remote |-> allocs[i][u][k],
                          online |-> MappingOnline(online[i], u, k)]
                  /\ allocs[i][u][k] # 0 /\ allocs[i][u][k] \in Block(cfg[i][u])
    <3>1. PICK u \in Users, k \in Keys :
             x = [user |-> u, key |-> k, remote |-> allocs[i][u][k],
                  online |-> MappingOnline(online[i], u, k)]
      BY <2>t DEF Directory
    <3>2. x.remote # 0
      BY <2>t DEF Directory
    <3>3. allocs[i][u][k] # 0
      BY <3>1, <3>2
    <3>4. MappingOnline(online[i], u, k)
      BY <2>2, <3>1
    <3>5. u \in DOMAIN cfg[i] /\ allocs[i][u][k] \in Block(cfg[i][u])
      BY <3>4, <2>t DEF MappingOnline, OnlineInv, Offline
    <3> QED
      BY <3>1, <3>3, <3>5
  <2>3. PICK u \in DOMAIN cfg[i], j \in Keys :
           /\ u \in Users
           /\ m = [user |-> u, key |-> j, remote |-> allocs[i][u][j],
                   online |-> MappingOnline(online[i], u, j)]
           /\ allocs[i][u][j] # 0 /\ allocs[i][u][j] \in Block(cfg[i][u])
    BY <2>2
  <2>4. PICK v \in DOMAIN cfg[i], k \in Keys :
           /\ v \in Users
           /\ n = [user |-> v, key |-> k, remote |-> allocs[i][v][k],
                   online |-> MappingOnline(online[i], v, k)]
           /\ allocs[i][v][k] # 0 /\ allocs[i][v][k] \in Block(cfg[i][v])
    BY <2>2
  <2>5. allocs[i][u][j] = allocs[i][v][k]
    BY <2>3, <2>4
  <2>6. u = v
    BY <2>3, <2>4, <2>5, <2>v
  <2>7. j = k
    BY <2>3, <2>4, <2>5, <2>6, <2>t DEF Distinct
  <2> QED
    BY <2>3, <2>4, <2>6, <2>7
<1> QED
  BY <1>1, Invariance, PTL

\* An online user has an entry in its block for each of its ports.
THEOREM FullyMapped == Spec => []OnlineFullyMapped
<1>1. IndInv => OnlineFullyMapped
  BY DEF IndInv, OnlineInv, OnlineFullyMapped
<1> QED
  BY <1>1, Invariance, PTL

\* The user table of every instance has disjoint blocks that hold their ports.
THEOREM ConfigAlwaysSound == Spec => []ConfigSound
<1>1. IndInv => ConfigSound
  <2>1. ValidUsers(NoUsers)
    BY DEF NoUsers, ValidUsers
  <2> QED
    BY <2>1, ConfigsSound DEF IndInv, TypeOK, ConfigSound
<1> QED
  BY <1>1, Invariance, PTL

\* A user is online exactly as long as its latest registration is open.
THEOREM LatestWins == Spec => []OnlineIffLatestOpen
BY Invariance, PTL DEF IndInv

\* What the instance that has the file lists online can be found in the file,
\* while no write is under way: also between the write of a table and the moment
\* the instance takes it over.
THEOREM Durable == Spec => []OnlineIsDurable
<1>1. IndInv => OnlineIsDurable
  <2> SUFFICES ASSUME IndInv, NEW i \in Instances, writer = i, ~SomeoneWrites,
                      NEW m \in dir[i], m.online
               PROVE  file # Torn /\ file[m.user][m.key] = m.remote
    BY DEF OnlineIsDurable
  <2>t. /\ dir[i] = Directory(allocs[i], online[i]) /\ OnlineInv(i) /\ CallInv(i)
        /\ FileInv /\ saved # Torn /\ writer # 0
    BY NullAssumption DEF IndInv, PublishedInv, TypeOK, Instances
  <2>1. PICK u \in Users, k \in Keys :
           m = [user |-> u, key |-> k, remote |-> allocs[i][u][k],
                online |-> MappingOnline(online[i], u, k)]
    BY <2>t DEF Directory
  <2>2. MappingOnline(online[i], u, k)
    BY <2>1
  <2>3. /\ u \in DOMAIN cfg[i] /\ k \in Wanted(cfg[i][u])
        /\ allocs[i][u][k] \in Block(cfg[i][u])
    BY <2>2, <2>t DEF MappingOnline, OnlineInv, Offline
  <2>4. cfg[i] # NoUsers
    BY <2>3 DEF NoUsers
  <2>5. file = saved /\ saved = Held(i)
    BY <2>4, <2>t DEF FileInv
  <2>6. Held(i)[u][k] = allocs[i][u][k]
    <3>1. CASE ~Written(i)
      BY <3>1 DEF Held
    <3>2. CASE Written(i)
      <4>1. Held(i) = call[i].work /\ call[i] # NoCall
        BY <3>2 DEF Held, Written
      <4>2. CASE u = call[i].user
        BY <4>1, <4>2, <2>3, <2>t DEF CallInv, Entry, BlockOf
      <4>3. CASE u # call[i].user
        BY <4>1, <4>3, <2>t DEF CallInv
      <4> QED BY <4>2, <4>3
    <3> QED BY <3>1, <3>2
  <2> QED
    BY <2>1, <2>5, <2>6, <2>t
<1> QED
  BY <1>1, Invariance, PTL

\* As long as the file stays with one instance, or passes to a successor that
\* loads it at rest, no step changes an allocation inside its user's block.
THEOREM Stable == Spec => AllocationsStable
<1> DEFINE A == FileHandedOn =>
                  \A u \in Users, k \in Keys :
                     saved[u][k] # 0 /\ (u \in DOMAIN cfg[writer] => saved[u][k] \in Block(cfg[writer][u]))
                         => saved'[u][k] = saved[u][k]
<1>1. IndInv /\ [Next]_vars => A
  <2> SUFFICES ASSUME IndInv, [Next]_vars, FileHandedOn PROVE A
    OBVIOUS
  <2>t. TypeOK /\ FileInv /\ FreshInv /\ \A i \in Instances : CallInv(i)
    BY DEF IndInv
  <2>1. CASE saved' = saved
    BY <2>1
  <2>2. ASSUME NEW i \in Instances, WriteEnds(i), saved' # saved PROVE A
    <3>1. saved' = call[i].work /\ writer' = i /\ started' = started /\ IsWriting(i)
      BY <2>2 DEF WriteEnds
    <3>2. writer = i /\ writer # 0
      BY <3>1 DEF FileHandedOn
    <3>3. /\ call[i] # NoCall /\ ~Written(i) /\ call[i].user \in DOMAIN cfg[i]
          /\ \A v \in Users \ {call[i].user} : call[i].work[v] = allocs[i][v]
          /\ \A k \in Keys : allocs[i][call[i].user][k] \in Block(cfg[i][call[i].user])
                               => call[i].work[call[i].user][k] = allocs[i][call[i].user][k]
      BY <3>1, <2>t DEF IsWriting, Written, CallInv, Entry, BlockOf
    <3>4. cfg[i] # NoUsers
      BY <3>3 DEF NoUsers
    <3>5. saved = allocs[i]
      BY <3>2, <3>3, <3>4, <2>t DEF FileInv, Held
    <3> QED
      BY <3>1, <3>2, <3>3, <3>5
  <2>3. ASSUME NEW c \in Configs, Load(c) PROVE A
    <3>1. saved' = file /\ writer' = started + 1 /\ started + 1 \in Instances
      BY <2>3, <2>t, NonceAssumption DEF Load, TypeOK, Instances
    <3>2. ~SomeoneWrites
      <4>1. ASSUME SomeoneWrites PROVE FALSE
        <5>1. writer = started + 1
          BY <4>1, <3>1 DEF FileHandedOn
        <5>2. started = 0
          BY <5>1, <2>t DEF FreshInv, TypeOK
        <5>3. \A i \in Instances : call[i] = NoCall
          BY <5>2, <2>t DEF FreshInv, Instances
        <5> QED BY <5>3, <4>1 DEF SomeoneWrites, IsWriting
      <4> QED BY <4>1
    <3>3. file = saved
      BY <3>2, <2>t DEF FileInv, FileHandedOn
    <3> QED BY <3>1, <3>3
  <2> HIDE DEF A
  <2> QED
    BY <2>1, <2>2, <2>3
       DEF Next, vars, registries, disk, RegisterBegin, KeepAllocation, Allocate, BailExhausted,
           WriteBegins, WritePart, PersistFails, RegisterCommit, GoesOnline, Unregister,
           SetDisabled, Crash
<1>2. IndInv /\ [Next]_vars => [A]_vars
  BY <1>1
<1> QED
  BY <1>2, Invariance, PTL DEF Spec, AllocationsStable
=============================================================================
