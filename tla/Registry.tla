------------------------------ MODULE Registry ------------------------------
(***************************************************************************)
(* The server's registry (src/src/registry.rs): the persisted table of     *)
(* remote-port allocations, which users are online, and the directory that *)
(* is published to every client.                                           *)
(*                                                                         *)
(* A process holds one registry per server instance.  A reload ends the    *)
(* instance and loads a new registry from the file, but the handshake      *)
(* tasks and sessions of the old instance keep theirs and may still        *)
(* register, and write the old table over the file (server.rs:191, 377).   *)
(*                                                                         *)
(* The operations of one registry run under its mutex.  `register` is the  *)
(* only long one: it is a state machine of its own here (begin, one step   *)
(* per iteration of its loop over the wanted ports, then persist and       *)
(* commit, or bail), so that a crash, or another registry's load or write, *)
(* can fall between any two of its steps.  The table is a total function   *)
(* with 0 for "no entry": port 0 is never configured (parse_port_range     *)
(* refuses it).                                                            *)
(***************************************************************************)
EXTENDS Integers, FiniteSets

CONSTANTS
    Users,        \* every user name that ever occurs in a config or the table
    MaxPort,      \* the largest port number (65535 in the program)
    LocalPorts,   \* the local port numbers that occur in configs
    Tables,       \* the user tables the operator may write into the config file
    MaxNonce,     \* bound on the number of sessions in a behaviour
    MaxInstances, \* bound on the number of server instances of one process
    Parts,        \* sets of (user, key): the entries that a write cut off may leave
    Torn,         \* the contents of a file that does not parse
    NoCall        \* no `register` call is running

Ports == 1..MaxPort
Protos == {"tcp", "udp"}
Keys == Protos \X LocalPorts          \* (proto, local_port)
UserConfig == [lo : Ports, hi : Ports, tcp : SUBSET LocalPorts, udp : SUBSET LocalPorts]

Block(uc) == uc.lo..uc.hi

-----------------------------------------------------------------------------
(* The user table of the config file: parse_port_range, expand_ports,      *)
(* validate_users.  A range "lo-hi" is a pair.                              *)

Ranges == (0..MaxPort) \X (0..MaxPort)
RawUser == [block : Ranges, tcp : SUBSET Ranges, udp : SUBSET Ranges]

ParsesRange(r) == r[1] # 0 /\ r[1] <= r[2]
ExpandPorts(specs) == UNION {r[1]..r[2] : r \in specs}

\* The fields that validate_users fills in.
Expanded(t) ==
    [u \in DOMAIN t |-> [lo |-> t[u].block[1], hi |-> t[u].block[2],
                         tcp |-> ExpandPorts(t[u].tcp), udp |-> ExpandPorts(t[u].udp)]]

\* Every range parses, and the block is large enough for the ports.
AcceptsUser(r, uc) ==
    /\ \A x \in {r.block} \cup r.tcp \cup r.udp : ParsesRange(x)
    /\ Cardinality(uc.tcp) + Cardinality(uc.udp) <= uc.hi - uc.lo + 1

\* sort_by_key(|u| u.block): users in the order of their blocks.
SortedUsers(c) ==
    {s \in [1..Cardinality(DOMAIN c) -> DOMAIN c] :
        /\ \A u \in DOMAIN c : \E i \in DOMAIN s : s[i] = u
        /\ \A i, j \in DOMAIN s : i < j =>
              \/ c[s[i]].lo < c[s[j]].lo
              \/ c[s[i]].lo = c[s[j]].lo /\ c[s[i]].hi <= c[s[j]].hi}

\* Mutant: `>` for `>=`: neighbours may share a port.
AcceptsTouching(c) ==
    \E s \in SortedUsers(c) : \A i \in DOMAIN s :
        i + 1 \in DOMAIN s => c[s[i]].hi <= c[s[i + 1]].lo

\* windows(2): a block ends before its successor begins.
AcceptsBlocks(c) ==
    \E s \in SortedUsers(c) : \A i \in DOMAIN s :
        i + 1 \in DOMAIN s => c[s[i]].hi < c[s[i + 1]].lo

\* The user tables a server instance is started with.
Configs ==
    {Expanded(t) : t \in {x \in Tables :
        /\ \A u \in DOMAIN x : AcceptsUser(x[u], Expanded(x)[u])
        /\ AcceptsBlocks(Expanded(x))}}

\* What the registry relies on: every block holds the user's ports and no two
\* blocks overlap.
ValidUsers(c) ==
    /\ \A u \in DOMAIN c :
          /\ c[u].lo <= c[u].hi
          /\ Cardinality(c[u].tcp) + Cardinality(c[u].udp) <= c[u].hi - c[u].lo + 1
    /\ \A u, v \in DOMAIN c : u # v => Block(c[u]) \cap Block(c[v]) = {}

ASSUME PortsAssumption == MaxPort \in Nat /\ LocalPorts \subseteq Ports
ASSUME UsersAssumption == IsFiniteSet(Users)
ASSUME NonceAssumption == MaxNonce \in Nat /\ MaxInstances \in Nat
ASSUME PartsAssumption == Parts \subseteq SUBSET (Users \X Keys)
ASSUME TablesAssumption ==
    \A t \in Tables : /\ DOMAIN t \subseteq Users
                      /\ t \in [DOMAIN t -> RawUser]
                      /\ \A u \in DOMAIN t : \A r \in t[u].tcp \cup t[u].udp :
                            ParsesRange(r) => r[1]..r[2] \subseteq LocalPorts

-----------------------------------------------------------------------------
Nonces == 1..MaxNonce
Instances == 1..MaxInstances
Table == [Users -> [Keys -> 0..MaxPort]]
EmptyTable == [u \in Users |-> [k \in Keys |-> 0]]
Offline == [nonce |-> 0, ports |-> {}, disabled |-> {}]
Session == [nonce : 0..MaxNonce, ports : SUBSET Keys, disabled : SUBSET LocalPorts]
Call == [user : Users, nonce : Nonces, todo : SUBSET Keys, work : Table, changed : BOOLEAN,
         stage : {"loop", "writing", "written"}, alone : BOOLEAN]
NoUsers == [u \in {} |-> 0]           \* the user table of an instance that does not exist

ASSUME NullAssumption == Torn \notin Table /\ NoCall \notin Call

VARIABLES
    started,  \* number of instances that the process has started
    cfg,      \* per instance: its user table
    allocs,   \* per instance: Registry.allocs
    online,   \* per instance: Registry.online; Offline stands for a missing entry
    dir,      \* per instance: the value in the watch channel dir_tx
    call,     \* per instance: the `register` call that holds the mutex, or NoCall
    open,     \* per instance and user: the registered sessions that have not ended yet
    latest,   \* per instance and user: the nonce of the last successful registration
    file,     \* contents of alloc_file
    saved,    \* history: the last contents that an instance wrote whole or loaded
    writer,   \* history: the instance that did so; 0 once a write was cut off
    issued    \* number of session nonces handed out so far

registries == <<cfg, allocs, online, dir, call, open, latest>>
disk == <<file, saved, writer>>
vars == <<started, registries, disk, issued>>

-----------------------------------------------------------------------------
(* Helpers *)

\* The configured (proto, port) pairs of a user.
Wanted(uc) == ({"tcp"} \X uc.tcp) \cup ({"udp"} \X uc.udp)

\* The order of `wanted`: ports inside the block first, then tcp before udp,
\* then by number.
Before(uc, j, k) ==
    LET rank(x) == IF x[2] \in Block(uc) THEN 0 ELSE 1
    IN  \/ rank(j) < rank(k)
        \/ rank(j) = rank(k) /\ j[1] = "tcp" /\ k[1] = "udp"
        \/ rank(j) = rank(k) /\ j[1] = k[1] /\ j[2] < k[2]

IsNext(uc, todo, k) == k \in todo /\ \A j \in todo \ {k} : Before(uc, k, j)

\* Mutant: ports in use looked up per protocol.
UsedPortsOfProto(work, u, k) == {work[u][j] : j \in {i \in Keys \ {k} : i[1] = k[1]}}

\* Remote ports of the user's other entries once a stale entry k is removed.
UsedPorts(work, u, k) == {work[u][j] : j \in Keys \ {k}}

FreePorts(uc, work, u, k) == Block(uc) \ UsedPorts(work, u, k)

\* The own number if it is in the block and unused, else the lowest free port.
IsChosen(uc, work, u, k, p) ==
    LET free == FreePorts(uc, work, u, k)
    IN  /\ p \in free
        /\ k[2] \in free => p = k[2]
        /\ k[2] \notin free => \A q \in free : p <= q

MappingOnline(on, u, k) == k \in on[u].ports /\ k[2] \notin on[u].disabled

Directory(table, on) ==
    {m \in {[user |-> u, key |-> k, remote |-> table[u][k], online |-> MappingOnline(on, u, k)] :
                u \in Users, k \in Keys} : m.remote # 0}

-----------------------------------------------------------------------------
(* register, by a handshake task of instance i: also one that outlived the *)
(* instance's accept loop, for it holds a clone of the registry's Arc      *)

RegisterBegin(i, u) ==
    /\ call[i] = NoCall
    /\ u \in DOMAIN cfg[i]
    /\ issued < MaxNonce
    /\ issued' = issued + 1
    /\ call' = [call EXCEPT ![i] =
                  [user |-> u, nonce |-> issued + 1, todo |-> Wanted(cfg[i][u]),
                   work |-> allocs[i], changed |-> FALSE, stage |-> "loop", alone |-> TRUE]]
    /\ UNCHANGED <<started, cfg, allocs, online, dir, open, latest, disk>>

\* The loop of i's `register` is at the wanted port k.
AtPort(i, k) == call[i] # NoCall /\ IsNext(cfg[i][call[i].user], call[i].todo, k)
BlockOf(i) == Block(cfg[i][call[i].user])
Entry(i, k) == call[i].work[call[i].user][k]

\* Mutant: an old entry is kept wherever the block is now.
KeepStaleAllocation(i, k) ==
    /\ AtPort(i, k)
    /\ Entry(i, k) # 0
    /\ call' = [call EXCEPT ![i].todo = @ \ {k}]
    /\ UNCHANGED <<started, cfg, allocs, online, dir, open, latest, disk, issued>>

\* The entry exists and lies in the block: `continue`.
KeepAllocation(i, k) ==
    /\ AtPort(i, k)
    /\ Entry(i, k) \in BlockOf(i)
    /\ call' = [call EXCEPT ![i].todo = @ \ {k}]
    /\ UNCHANGED <<started, cfg, allocs, online, dir, open, latest, disk, issued>>

\* No entry, or a stale one outside the block: (re)allocate.
Allocate(i, k, p) ==
    /\ AtPort(i, k)
    /\ Entry(i, k) \notin BlockOf(i)
    /\ IsChosen(cfg[i][call[i].user], call[i].work, call[i].user, k, p)
    /\ call' = [call EXCEPT ![i].todo = @ \ {k},
                            ![i].work[call[i].user][k] = p,
                            ![i].changed = TRUE]
    /\ UNCHANGED <<started, cfg, allocs, online, dir, open, latest, disk, issued>>

Exhausted(i, k) ==
    /\ AtPort(i, k)
    /\ Entry(i, k) \notin BlockOf(i)
    /\ FreePorts(cfg[i][call[i].user], call[i].work, call[i].user, k) = {}

\* Mutant: a port without a free remote port is skipped.
SkipExhausted(i, k) ==
    /\ Exhausted(i, k)
    /\ call' = [call EXCEPT ![i].todo = @ \ {k}]
    /\ UNCHANGED <<started, cfg, allocs, online, dir, open, latest, disk, issued>>

\* bail!: nothing but the working copy is lost.
BailExhausted(i, k) ==
    /\ Exhausted(i, k)
    /\ call' = [call EXCEPT ![i] = NoCall]
    /\ UNCHANGED <<started, cfg, allocs, online, dir, open, latest, disk, issued>>

-----------------------------------------------------------------------------
(* persist: std::fs::write truncates the file, then writes it.  Nothing    *)
(* keeps the instances of one process from writing at the same time.       *)

IsWriting(i) == call[i] # NoCall /\ call[i].stage = "writing"
SomeoneWrites == \E i \in Instances : IsWriting(i)

\* What the file may hold once a part of table t is written: text that does not
\* parse, or some of the entries.
Cuts(t) ==
    {Torn} \cup {[u \in Users |-> [k \in Keys |-> IF <<u, k>> \in S THEN t[u][k] ELSE 0]] :
                    S \in Parts}

\* The file is opened and truncated.  Writes that overlap cannot tell what they
\* leave together.
WriteBegins(i) ==
    /\ call[i] # NoCall /\ call[i].todo = {} /\ call[i].changed /\ call[i].stage = "loop"
    /\ call' = [j \in Instances |->
                  IF j = i THEN [call[i] EXCEPT !.stage = "writing", !.alone = ~SomeoneWrites]
                  ELSE IF IsWriting(j) THEN [call[j] EXCEPT !.alone = FALSE]
                  ELSE call[j]]
    /\ file' = EmptyTable
    /\ UNCHANGED <<started, cfg, allocs, online, dir, open, latest, saved, writer, issued>>

\* A part of the text is in the file.
WritePart(i) ==
    /\ IsWriting(i)
    /\ file' \in Cuts(call[i].work)
    /\ UNCHANGED <<started, registries, saved, writer, issued>>

\* The write ends.  After another write in between the file may be a mix of both.
WriteEnds(i) ==
    /\ IsWriting(i)
    /\ call' = [call EXCEPT ![i].stage = "written"]
    /\ \/ file' = call[i].work /\ saved' = file' /\ writer' = i
       \/ ~call[i].alone /\ file' = Torn /\ saved' = saved /\ writer' = 0
    /\ UNCHANGED <<started, cfg, allocs, online, dir, open, latest, issued>>

\* persist returns an error: at the opening, with the file as it was, or in the
\* middle.  The table in memory is untouched.
PersistFails(i) ==
    /\ call[i] # NoCall /\ call[i].todo = {} /\ call[i].changed /\ call[i].stage # "written"
    /\ call' = [call EXCEPT ![i] = NoCall]
    /\ writer' = IF IsWriting(i) THEN 0 ELSE writer
    /\ UNCHANGED <<started, cfg, allocs, online, dir, open, latest, file, saved, issued>>

-----------------------------------------------------------------------------
(* The end of register, unregister, set_disabled *)

\* The table changes in memory, the user goes online with nothing disabled, the
\* directory is published.
GoesOnline(i) ==
    /\ allocs' = [allocs EXCEPT ![i] = call[i].work]
    /\ online' = [online EXCEPT ![i][call[i].user] =
                    [nonce |-> call[i].nonce, ports |-> Wanted(cfg[i][call[i].user]),
                     disabled |-> {}]]
    /\ dir' = [dir EXCEPT ![i] = Directory(allocs'[i], online'[i])]
    /\ open' = [open EXCEPT ![i][call[i].user] = @ \cup {call[i].nonce}]
    /\ latest' = [latest EXCEPT ![i][call[i].user] = call[i].nonce]
    /\ call' = [call EXCEPT ![i] = NoCall]
    /\ UNCHANGED <<started, cfg, disk, issued>>

\* Mutant: the new table stays in memory.
CommitUnwritten(i) ==
    /\ call[i] # NoCall /\ call[i].todo = {}
    /\ GoesOnline(i)

\* The end of register: a table that changed is in the file.
RegisterCommit(i) ==
    /\ call[i] # NoCall /\ call[i].todo = {}
    /\ call[i].changed => call[i].stage = "written"
    /\ GoesOnline(i)

\* Mutant: any session of the user takes it offline.
UnregisterAny(i, u, n) ==
    /\ call[i] = NoCall
    /\ n \in open[i][u]
    /\ open' = [open EXCEPT ![i][u] = @ \ {n}]
    /\ online' = [online EXCEPT ![i][u] = Offline]
    /\ dir' = [dir EXCEPT ![i] = Directory(allocs[i], online'[i])]
    /\ UNCHANGED <<started, cfg, allocs, call, latest, disk, issued>>

\* A session ends.  Only the user's current session takes the user offline.
Unregister(i, u, n) ==
    /\ call[i] = NoCall
    /\ n \in open[i][u]
    /\ open' = [open EXCEPT ![i][u] = @ \ {n}]
    /\ \/ /\ online[i][u].nonce = n
          /\ online' = [online EXCEPT ![i][u] = Offline]
          /\ dir' = [dir EXCEPT ![i] = Directory(allocs[i], online'[i])]
       \/ /\ online[i][u].nonce # n
          /\ UNCHANGED <<online, dir>>
    /\ UNCHANGED <<started, cfg, allocs, call, latest, disk, issued>>

\* A client reports the local ports it turned off.
SetDisabled(i, u, n, disabled) ==
    /\ call[i] = NoCall
    /\ n \in open[i][u]
    /\ online[i][u].nonce = n
    /\ online' = [online EXCEPT ![i][u].disabled = disabled]
    /\ dir' = [dir EXCEPT ![i] = Directory(allocs[i], online'[i])]
    /\ UNCHANGED <<started, cfg, allocs, call, open, latest, disk, issued>>

-----------------------------------------------------------------------------
(* Server start, reload and crash *)

\* The process ends.  The file stays as it is, a write that had begun included.
Crash ==
    /\ started > 0
    /\ started' = 0
    /\ cfg' = [i \in Instances |-> NoUsers]
    /\ allocs' = [i \in Instances |-> EmptyTable]
    /\ online' = [i \in Instances |-> [u \in Users |-> Offline]]
    /\ dir' = [i \in Instances |-> {}]
    /\ call' = [i \in Instances |-> NoCall]
    /\ open' = [i \in Instances |-> [u \in Users |-> {}]]
    /\ latest' = [i \in Instances |-> [u \in Users |-> 0]]
    /\ writer' = IF SomeoneWrites THEN 0 ELSE writer
    /\ UNCHANGED <<file, saved, issued>>

\* Mutant: entries of users who are not in the config are left out.
LoadPruned(c) ==
    LET i == started + 1
        kept == [u \in Users |-> IF u \in DOMAIN c THEN file[u] ELSE EmptyTable[u]]
    IN  /\ started < MaxInstances /\ file # Torn
        /\ started' = i
        /\ cfg' = [cfg EXCEPT ![i] = c]
        /\ allocs' = [allocs EXCEPT ![i] = kept]
        /\ dir' = [dir EXCEPT ![i] = Directory(kept, online[i])]
        /\ saved' = kept /\ writer' = i
        /\ UNCHANGED <<online, call, open, latest, file, issued>>

\* Registry::load for the next instance, at the start of the process or after a
\* reload ended the last one; the tasks of that one keep its registry.  A file
\* that does not parse is an error: no instance.  What the file holds in the
\* middle of a write is loaded.
Load(c) ==
    LET i == started + 1
    IN  /\ started < MaxInstances /\ file # Torn
        /\ started' = i
        /\ cfg' = [cfg EXCEPT ![i] = c]
        /\ allocs' = [allocs EXCEPT ![i] = file]
        /\ dir' = [dir EXCEPT ![i] = Directory(file, online[i])]
        /\ saved' = file /\ writer' = i
        /\ UNCHANGED <<online, call, open, latest, file, issued>>

Init ==
    /\ started = 0
    /\ cfg = [i \in Instances |-> NoUsers]
    /\ allocs = [i \in Instances |-> EmptyTable]
    /\ online = [i \in Instances |-> [u \in Users |-> Offline]]
    /\ dir = [i \in Instances |-> {}]
    /\ call = [i \in Instances |-> NoCall]
    /\ open = [i \in Instances |-> [u \in Users |-> {}]]
    /\ latest = [i \in Instances |-> [u \in Users |-> 0]]
    /\ file = EmptyTable                  \* a missing file is an empty table
    /\ saved = EmptyTable
    /\ writer = 0
    /\ issued = 0

Next ==
    \/ \E i \in Instances, u \in Users : RegisterBegin(i, u)
    \/ \E i \in Instances, k \in Keys : KeepAllocation(i, k)
    \/ \E i \in Instances, k \in Keys, p \in Ports : Allocate(i, k, p)
    \/ \E i \in Instances, k \in Keys : BailExhausted(i, k)
    \/ \E i \in Instances : WriteBegins(i)
    \/ \E i \in Instances : WritePart(i)
    \/ \E i \in Instances : WriteEnds(i)
    \/ \E i \in Instances : PersistFails(i)
    \/ \E i \in Instances : RegisterCommit(i)
    \/ \E i \in Instances, u \in Users, n \in Nonces : Unregister(i, u, n)
    \/ \E i \in Instances, u \in Users, n \in Nonces, d \in SUBSET LocalPorts :
           SetDisabled(i, u, n, d)
    \/ Crash
    \/ \E c \in Configs : Load(c)

Spec == Init /\ [][Next]_vars

-----------------------------------------------------------------------------
(* Properties *)

\* Every variable of the registry stays in its type; the published directories
\* are sets of mapping records.
TypeOK ==
    /\ started \in 0..MaxInstances
    /\ cfg \in [Instances -> Configs \cup {NoUsers}]
    /\ allocs \in [Instances -> Table]
    /\ online \in [Instances -> [Users -> Session]]
    /\ dir \in [Instances -> SUBSET [user : Users, key : Keys, remote : Ports, online : BOOLEAN]]
    /\ call \in [Instances -> Call \cup {NoCall}]
    /\ open \in [Instances -> [Users -> SUBSET Nonces]]
    /\ latest \in [Instances -> [Users -> 0..MaxNonce]]
    /\ file \in Table \cup {Torn}
    /\ saved \in Table
    /\ writer \in 0..MaxInstances
    /\ issued \in 0..MaxNonce

\* No two entries of one user in table t have the same remote port.
Distinct(t) ==
    \A u \in Users : \A j, k \in Keys : j # k /\ t[u][j] # 0 => t[u][j] # t[u][k]

\* One user's entries never share a remote port: `register` skips the ports in
\* `used`, whatever mix of kept, stale and new entries the table holds.
OwnPortsDistinct == \A i \in Instances : Distinct(allocs[i])

\* Two mappings that an instance shows online never share a remote port, also
\* across users and after the operator moved the blocks around: nobody is listed
\* at a port where the server forwards to somebody else.
OnlinePortsExclusive ==
    \A i \in Instances : \A m, n \in dir[i] :
        m.online /\ n.online /\ m.remote = n.remote => m = n

\* A user who is online has an entry inside its current block for each of its
\* configured ports: an online user is never half allocated.
OnlineFullyMapped ==
    \A i \in Instances, u \in Users : online[i][u] # Offline =>
        /\ u \in DOMAIN cfg[i]
        /\ \A k \in Wanted(cfg[i][u]) : allocs[i][u][k] \in Block(cfg[i][u])

\* The user table of an instance is one the registry can work with: the blocks of
\* any two users are disjoint (validate_users compares neighbours in the order of
\* their first ports only) and hold the ports of their users.
ConfigSound == \A i \in Instances : ValidUsers(cfg[i])

\* A user is online exactly while its last successful registration has not
\* ended; a late `unregister` of a replaced session changes nothing.
OnlineIffLatestOpen ==
    \A i \in Instances, u \in Users :
        /\ online[i][u] # Offline <=> latest[i][u] \in open[i][u]
        /\ online[i][u] # Offline => online[i][u].nonce = latest[i][u]

\* A mapping that an instance lists online is in alloc_file ("Allocations are
\* persisted in `alloc_file`", README.md:106), whatever failed or crashed before,
\* as long as that instance is the last one that wrote or loaded the file and no
\* write is under way or was cut off.
OnlineIsDurable ==
    \A i \in Instances : writer = i /\ ~SomeoneWrites =>
        \A m \in dir[i] : m.online => file # Torn /\ file[m.user][m.key] = m.remote

\* The file has the same owner after the step, or passes to a successor that
\* loads it at rest.
FileHandedOn == writer # 0 /\ (writer' = writer \/ (started' # started /\ ~SomeoneWrites))

\* What happens to the file leaves the allocations alone that lie in their user's
\* current block: the writes of the instance that has the file, over
\* re-registrations, failures and crashes, and the load by its successor.  Only a
\* write that was cut off, or one of another instance, changes them.
AllocationsStable ==
    [][FileHandedOn =>
         \A u \in Users, k \in Keys :
            saved[u][k] # 0 /\ (u \in DOMAIN cfg[writer] => saved[u][k] \in Block(cfg[writer][u]))
                => saved'[u][k] = saved[u][k]]_vars

-----------------------------------------------------------------------------
(* The inductive invariant behind the proofs in RegistryProofs *)

\* Memory, file and the working copy agree as far as the code promises.
TableInv ==
    /\ \A i \in Instances : Distinct(allocs[i])
    /\ file # Torn => Distinct(file)

\* The table that an instance believes to be in the file: its own, or the one that
\* its `register` has written and is about to take over.
Written(i) == call[i] # NoCall /\ call[i].stage = "written"
Held(i) == IF Written(i) THEN call[i].work ELSE allocs[i]

\* At rest the file holds what was last written or loaded, and the instance that
\* did so agrees.
FileInv ==
    writer # 0 =>
        /\ ~SomeoneWrites => file = saved
        /\ cfg[writer] # NoUsers => saved = Held(writer)

\* What holds in the middle of `register`: the working copy differs from the
\* table only in entries of this user that were not in its block, and every
\* port already handled has an entry in the block.
CallInv(i) ==
    call[i] # NoCall =>
        /\ call[i].user \in DOMAIN cfg[i]
        /\ Distinct(call[i].work)
        /\ ~call[i].changed => call[i].work = allocs[i]
        /\ call[i].stage # "loop" => call[i].todo = {} /\ call[i].changed
        /\ \A v \in Users \ {call[i].user} : call[i].work[v] = allocs[i][v]
        /\ \A k \in Keys : allocs[i][call[i].user][k] \in BlockOf(i)
                             => Entry(i, k) = allocs[i][call[i].user][k]
        /\ \A k \in Wanted(cfg[i][call[i].user]) \ call[i].todo : Entry(i, k) \in BlockOf(i)

OnlineInv(i) ==
    \A u \in Users : online[i][u] # Offline =>
        /\ u \in DOMAIN cfg[i]
        /\ online[i][u].ports = Wanted(cfg[i][u])
        /\ \A k \in Wanted(cfg[i][u]) : allocs[i][u][k] \in Block(cfg[i][u])

PublishedInv(i) == dir[i] = Directory(allocs[i], online[i])

\* An instance that was not started yet has nothing.
FreshInv ==
    /\ started > 0 => writer <= started
    /\ \A i \in Instances : i > started =>
          /\ cfg[i] = NoUsers /\ call[i] = NoCall
          /\ \A u \in Users : online[i][u] = Offline

IndInv == /\ TypeOK
          /\ TableInv
          /\ FileInv
          /\ FreshInv
          /\ \A i \in Instances : CallInv(i) /\ OnlineInv(i) /\ PublishedInv(i)
          /\ OnlineIffLatestOpen

-----------------------------------------------------------------------------
(* What the documentation says and the code does not do *)

\* README.md:106: "A local port whose number lies inside the user's
\* `port_block` keeps its number".
KeepsOwnNumber ==
    \A i \in Instances : \A m \in dir[i] :
        m.online /\ m.key[2] \in Block(cfg[i][m.user]) => m.remote = m.key[2]

\* config.rs refuses a user who "exposes more ports than its port_block holds",
\* so a user who passed validation finds a port for each of them.
ValidatedBlockSuffices == \A i \in Instances, k \in Keys : ~Exhausted(i, k)
=============================================================================
