# A TLA+ verification project for rathole

rathole exposes services behind a NAT through a public server. This fork of it
gives every *user* a block of remote ports on the server, allocates the user's
local ports in it, publishes a directory of all mappings to every client, and
lets clients reach other users' mappings through local aliases. The modules in
this directory model the server, the client and the process around them. TLC
checks the modules on small instances; TLAPS proves the core of them for every
instance. All line numbers refer to files under `src/src/`, unless they name
another directory.

Contents: [inventory](#1-inventory),
[modules](#2-modules-and-how-they-correspond-to-the-code), [runs](#3-runs),
[fairness](#4-fairness), [proofs](#5-proofs), [known
deviations](#6-known-deviations-of-the-code-from-its-documentation), [what is left
out](#7-what-is-left-out), [plan](#8-plan).

## 1. Inventory

| Part | Source | State it keeps | Operations |
|---|---|---|---|
| Registry | `registry.rs` | table of allocations (in memory and in `alloc_file`), online sessions with their disabled ports, the published directory | `load`, `register`, `unregister`, `set_disabled`, `directory`/`publish`, `persist` |
| Server sessions | `server.rs` | map of control channels (user, nonce → handle), one handshake task per connection, one session task and a set of listeners per session | accept, handshake, install, push of directories, client commands, exit and clean-up, shutdown |
| Data channels | `server.rs`, `client.rs` | three queues per session (requests, channels, visitors), a pool task per session for TCP, one per UDP port | request, dial, hand over, retry, end |
| Client control channel | `client.rs` | process-wide `STATE` and `DISABLED`; per instance the last report and the retry loop | login, report, directory, probe, toggle, retry, shutdown |
| Client UDP forwarding | `client.rs` | port map under a fair `RwLock`, a queue and a task per visitor, a writer task | lookup, connect, send, answer, time-out, removal |
| Heartbeat | both | two timers inside `select!` | send, receive, time out |
| nginx map | `server.rs` | map file, what nginx loaded | write, `reload_cmd`, abort on reload |
| Hot reload | `config_watcher.rs`, `lib.rs`, `main.rs` | file, last configuration, queue, running instance | watch, parse, stop and join, restart, ctrl-c |
| Configuration | `config.rs` | none | parse port ranges and sections, validate users, choose the run mode |
| Aliases | `client.rs` | per session the tasks of local listeners for other users' mappings; what the probe of the own ports saw | `apply`, drop, `run_alias`, `probe_listening` |
| MultiMap | `multi_map.rs` | two hash maps over raw pointers to the same boxed items | `insert`, `remove1/2`, `get1/2`, drop |
| Wire protocol | `protocol.rs`, reader tasks in `server.rs` and `client.rs` | the message being read, the queue between reader and loop | write and read of frames and of UDP datagrams |
| Transports, helpers, CLI, desktop UI | `transport/`, `helper.rs`, `cli.rs`, `../desktop/` | sockets | I/O |

How the parts interact:

- A **connection** is accepted by `Server::run` and gets a task. The task of a
  control connection authenticates the user, calls `Registry::register` (under
  the registry's mutex), answers, and then installs a `ControlChannelHandle` in
  the session map (under the map's lock). Installing drops the handle of the
  user's previous session; dropping a handle is the session's shutdown signal.
- A **session task** holds only a weak reference to the map. It pushes the
  directory whenever the registry publishes, forwards data channel requests to
  the client and, at its end, removes itself from the map and unregisters, each
  time only if the entry is still its own (nonces are compared).
- **Listeners** ask the session task for a data channel per visitor; the client
  dials it as a new connection; its task looks the session up in the map and
  puts the channel into the session's queue, where the TCP pool and the UDP
  pools take channels in the order they arrive.
- The **client** retries its control channel for ever, reports which of its
  ports are unavailable (turned off by the user, or nobody listens locally) and
  keeps `STATE` for the CLI table and the UI.
- Both ends of a control connection read frames in a **task of their own**, because
  `read_frame` is not cancel-safe, and hand them to the loop through a queue of 8.
- Every session of the client has its own **aliases**; the tasks it aborts end some
  time later and share the machine's ports with the next session's aliases and
  with the user's services, which the client probes every 5 seconds.
- A **configuration change** stops the running instance and starts the next one
  in the same process. Tasks of the old instance outlive it: handshakes and sessions
  of the server keep its registry (and handshakes its session map), the client's
  control channel task is told to stop but nobody waits for it.

What is hard here, and so what the properties are about: two logins of one user that
overlap; peers that vanish between two steps of a handshake; clean-up of a session
that was replaced; shutdown while others hold references or wait in queues; locks held
across `await`; timers that every branch of a `select!` restarts; bounded queues and
pipes that wait for each other; messages half read when something else happens; ports
and pointers that two tasks or two indexes hold; state shared by two instances; files
read before they are watched, or written before the command that makes the write
effective. `PROJECT.json` lists each such point (`hazards`) at its line.

## 2. Modules and how they correspond to the code

`PROJECT.json` (`map`) gives the source lines of every definition. Each module
begins with a comment on its abstraction. Definitions commented `Mutant:` are
plausible mistakes in the definition that follows them; no specification uses
them, and `PROJECT.json` (`mutants`) says which property each one breaks.

**Registry.** `allocs`, `online`, `dir` are the fields of `Registry` (the
directory is the value in the watch channel), per server instance of the process;
`file` is `alloc_file`, which they share. A table is a total function from user and
`(proto, local_port)` to a port, 0 for no entry. Every operation of one registry runs
under its mutex, so each is one action, except `register`: it is `RegisterBegin`, then
one step per iteration of its loop over the wanted ports in order (`KeepAllocation`,
`Allocate`, or `BailExhausted`), then the write in three steps (`WriteBegins`
truncates, `WritePart`, `WriteEnds`), then `RegisterCommit`; `PersistFails` may end it
before or in the middle of the write. Steps of different instances interleave: `Load`
starts the next instance after a reload and leaves the old registry to its handshake
tasks and sessions, which go on to register, write and unregister. `Crash` ends the
process between any two steps and leaves the file as it is. `Cuts` says what a
write that is cut off leaves: text that does not parse, or some of the entries. `Load`
takes any user table of `Tables` that `validate_users` lets through: `ParsesRange`,
`ExpandPorts`, `AcceptsUser`, `SortedUsers` and `AcceptsBlocks` follow
`parse_port_range`, `expand_ports` and `validate_users`, with a range as a pair of
numbers. `ValidUsers` is what the registry relies on, stated without sorting;
`ConfigSound` says that the one gives the other. History variables: `open` and
`latest` (which sessions have registered and not ended, and the last one), `saved`
(the last contents that an instance wrote whole or loaded) and `writer` (that
instance, 0 once a write was cut off).

**ServerSessions.** `pc[c]` follows one connection through its handshake task
and then its session task; `map` is the session map, `dropped` are the handles
that were dropped (the shutdown signal), `lst` the listeners of each session.
The registry is reduced to `online` and `disabled` per user; `dirty` marks
sessions whose directory receiver has something unseen, `view` is what the
client has received. Errors of single awaits are actions of their own
(`WriteAckFails`, `FirstPushFails`), because what matters is what they skip.
`oversized` says that the directory, which lists users outside the instance too
(`OthersPublish`), does not fit into a frame: then a push fails although the peer lives.
`DropMap` happens when the last strong reference to the map is gone: the
server's, and one per handshake task.

**DataChannels.** One session: listeners with the visitor they hold (`lst`),
the queue of visitors (`vq`), the visitor in the hands of the TCP pool (`cur`),
requests (`req`), channels being dialed (`dialing`), queued channels (`chq`,
each ok or broken), the UDP pools (`udp`). `SessionEnds` drops the handle.
A session is assumed to have at least one TCP port: without one the TCP pool
ends at once and gives back no reserve.

**ClientControl.** Every instance of the client in the process runs the retry
loop (`pc[i]`); `st` is `STATE` and `disabled` is `DISABLED`, both shared. The
client exposes one TCP port. The server is reduced to the session it serves
(`sess`) and what it believes about the port (`srv`). The server replaces the session
(`Login`) before the client reads the `RegisterAck` and empties `STATE`
(`RewriteState`); an instance may read it when another one has been served meanwhile.

**ClientUdp.** `main` is the loop of `run_data_channel_for_udp`, `guards`,
`writing` and `lockq` are tokio's write-preferring, first-come `RwLock`;
`entry` is the port map, `fw` the forwarders, `q` their queues, `outq` the
queue of the writer task. A forwarder identity is used again after its removal;
one that returned early is not. `jammed` says that the server's UDP pool, one task for
both directions, waits in `write_slice` for this client to read.

**Heartbeat.** Discrete time, without latency. A due timer fires before time goes on.
`report` is a client's report that restarts the server's sleep without an answer.

**NginxMap.** The map task over server instances. A rendered map is a model
value. `ServerReload` may abort the task in the middle of a write that is on the
blocking pool; `late` is that write and `LateWrite` lets it land at any time
later. `command` says whether the instance has a `reload_cmd`; a failed write may
leave any contents, `Torn` ones too. `owed`, `unreloaded` and `stale` are history variables.

**Reload.** The watcher, the queue of configurations, the loop of `run`, and
the instance as seen from outside (starting, running, ended, failed). `WatchFails` is
the error of `watch_file`, which ends the watcher. `Valid`
is `Config::parse` over the sections of the file, `RunMode` is
`determine_run_mode` as the set of modes left to choose from.

**MultiMap**, **BiMap.** `heap` maps boxes (addresses) to items or `Free`; an index
is a set of entries, each with the pointer its `Key` holds and the pointer its
`RawItem` holds. Comparing keys goes through the key's pointer, so a lookup reads
the heap. A call is several steps (`op` says which comes next), so that the order
of removal, comparison and free is visible. BiMap is the abstract map: a set of
items found by either key, and the last call with its argument and result; a call of
MultiMap is a step of BiMap's at its first step, with `call` and `answer` as its
argument and result. Get and get_mut are one action.

**Framing**, **Fifo.** A control channel and a UDP channel, both directions, byte by
byte. `out` is what the current write has not put into `pipe`, `rd` the read in
progress (what it waits for and what it has), `queue` the messages handed to the
loop. A loop writes and handles in turn; the UDP pool of the server also reads in
its loop, the client's end of a UDP channel has a task for each direction. Fifo is
the abstract channel. `flight` is a history variable: the messages that are written
completely and not yet delivered. No action reads it; the refinement maps the queue,
`flight` and the message being written to the abstract channel, so a byte that goes
to the wrong message breaks the refinement when that message is delivered.

**Aliases.** The control channel tasks of a client, with one `Aliases` each; a hot
reload (`HotReload`) tells the running one to stop, and it may go on to register and
to handle directories while the next one does. `tasks` is `Aliases.tasks` of each
channel, `st` where each task of `run_alias` is, `aborted` those whose abort has not
taken effect yet, `service` the ports the user's services listen on, `got` a directory
between its probe and `apply`; `dir` and `listening` are in `STATE`, which the channels
share. `applied` (history) is the directory that a channel applied last. A port has
`Slots` task identities; visitors' connections are left out.

ServerSessions abstracts what Registry models in detail (one bit of each
registration) and uses the map that MultiMap implements (`BiMap` with one item per
user); DataChannels refines what ServerSessions takes as one listener; Framing is
the connection between ServerSessions and ClientControl; Aliases is the part of
ClientControl that handles directories; Reload abstracts what ServerSessions and
ClientControl do between start and stop. `MC*.tla` modules declare model values for
TLC. `*Proofs.tla` hold the proofs.

## 3. Runs

Eleven passing runs, one that shows a disagreement. States are distinct states.

| Run | Bounds | States | What it shows |
|---|---|---|---|
| `registry` | 2 users, 5 ports, 8 user tables (5 of them to be refused), 3 sessions, 2 instances alive at a time | 1 029 303 | ports of a user are distinct and online ports exclusive although blocks move; an online user is mapped completely, in its block and in the file; accepted tables are sound; a late `unregister` changes nothing; allocations are stable |
| `sessions` | 2 logins of a user, shutdown | 116 390 | the session map is exact; a stale session neither closes nor unregisters its successor; ghosts come from the two early returns only; dropped sessions end, the new session gets the ports, a shutdown frees them unless a peer stays silent, directories arrive |
| `channels` | 1 listener, 1 UDP port, 3 visitors, reserve 1, queue 1, 2 faults | 245 072 | conservation and bound of channels under way, visitors are served, everything ends |
| `client_control` | 2 instances, 4 events | 123 508 | reports settle, old instances end, the last one serves |
| `client_udp` | 2 visitors, 2 forwarders, queues of 1 | 48 176 | one forwarder per visitor, no fourth deadlock, forwarders end |
| `heartbeat` | interval 3, timeout 4, probe 5, 2 toggles | 632 | no false alarm, silence is found |
| `nginx` | 3 maps, 3 changes, 2 faults | 37 389 | nginx follows the directory |
| `reload` | 5 contents (1 that does not parse, 1 without and 1 with both sections), 3 edits | 10 939 | no restart without a change, no lost stop, ctrl-c ends, the last contents run |
| `multimap` | 2 × 2 keys, 2 values, 3 boxes | 8 334 | no dangling pointer, double free or leak; implements BiMap, results included |
| `framing` | 3 messages each way, pipes and queues of 1, frames and datagrams one beyond their limit | 437 216 | each direction implements Fifo; every frame is handled |
| `aliases` | 2 ports, 2 task identities each, 2 overlapping channels, 4 directories, 6 events | 496 170 | no task left behind, wanted aliases open in the end, aliases not taken for services |
| `heartbeat_probe` | 6, 8, 1 (the proportions of the defaults) | violated | see 6.1 |

Why the bounds are enough to be interesting: two logins overlap in every order of
their steps, so that each may be the stale one (the proofs of section 5 cover any
number of logins and users); three accepted user tables let a block move onto one that
was used before, a port be dropped, and a user leave and come back, and the others
have blocks that touch, nest and coincide; two instances are the old one and its
successor, and with three sessions the old one can register before and after the new
one does; the parts of a write (`MCParts`) are a first entry of a user and all entries
of the other; two faults against a reserve of one exceed it; three visitors are one
more than the TCP pool and a queue of one hold, so the listener has to wait; two
instances of the client are what one hot reload gives, for reports as for aliases;
three edits allow an edit away and back again while a restart is under way, with an
invalid or unstartable file in between; three boxes are one more than the keys allow
items, so a freed box is used again; with three frames each way and one place in every
buffer all buffers fill up; two task identities let an aborted alias hold its port
while its successor tries, and six events are enough for two sessions with a directory
each and two changes of a service.

Deadlock checking is off where behaviours are finite: a bound on events is used up,
all sessions have ended, the process exited, the map was dropped, `alloc_file` does
not parse and the server refuses to start, or one of ClientUdp's cycles has closed. It
is on in `heartbeat`, where time never stops.

Several properties name exceptions by history variables (`writer`, `overtaken`,
`unreloaded`, `owed`, `stale`, `missed`, `unwatched`, `raced`, `stolen`, `lost`), by a
state (`Jammed`, the cycles of ClientUdp, an emptied `STATE`: `~st.known`, one that
holds another channel's directory: `dir # applied[c]`) or by a premise (no peer stays
silent in its handshake). The behaviours behind them are in the runs; the property says
that nothing *else* goes wrong. The exceptions are the deviations of section 6.

The type invariants are part of the inductive invariants of section 5 where there is
one; elsewhere they document the state.

## 4. Fairness

- *Tasks are polled.* Weak fairness of each step of a task that can go on: tokio
  polls every woken task, `select!` chooses at random among ready branches.
- *Writes and commands end*, with success or an error: one weak fairness
  condition on the disjunction, so that neither outcome is promised.
- *Peers* in a handshake are under no fairness: the code has no timeout at server.rs:294
  and 355. That no peer stays silent for ever is a premise of `ReloadFreesPorts` itself
  (6.8). Reads from a peer that vanished fail.
- *Strong fairness* in ClientUdp for a forwarder's receive and answer: their
  readiness may come and go with the queue, but mpsc serves waiting senders in
  order and `select!` does not starve a branch. The client's writer goes on if the
  server's pool is again and again not `jammed`; when it is, the pipe towards the client
  holds something to read, and the client's loop reads it if it can. A write on a lost
  channel fails in the end.
- *The server is there* (ClientControl): failed logins are bounded events, after
  which a login succeeds; a client that waits for its `RegisterAck` gets it or loses
  the connection.
- *Heartbeat*: time goes on, and a due timer fires.
- *Framing*: sockets move bytes, and a reader, a loop or a writer that can go on does.
- *Aliases*: a task that was aborted ends, since `run_alias` awaits all the time; its
  sleeps end; the probe ticks; a control channel that was told to stop ends.

Nothing is assumed about visitors, edits, toggles, faults, lost sessions,
directories, services, hot reloads of Aliases, late writes, ctrl-c, crashes or shutdown:
they happen or not.

## 5. Proofs

Eight `*Proofs` modules are checked by TLAPS, for every value of the constants under
the assumptions named in the modules that declare them: sizes are natural numbers,
`Users`, ports and visitors are what their names say (`UsersAssumption`: finitely many
users), the written user tables are well-typed (`TablesAssumption`), messages are
sequences of bytes and a datagram has an address (`MessagesAssumption`), a buffer of
`UDP_BUFFER_SIZE` fits the u16 length (`SizesAssumption`), and model values that stand
for "none" are none of the others. That every table in use is sound is not assumed but
proved.

*Registry.* `IndInv` is the conjunction of `TypeOK`, `TableInv`, `FileInv`, `FreshInv`,
`OnlineIffLatestOpen` and, for every instance, `CallInv`, `OnlineInv` and
`PublishedInv`. It is needed because none
of the wanted invariants is inductive: what `register` commits is its working
copy, so the invariant must say what the loop has achieved so far (`CallInv`:
the copy differs from the table only in entries of this user that were outside
its block, its entries are distinct, and every port handled so far has an entry
in the block); that other users keep their ports while one registers follows
from the same part. `TableInv` says that no table, in memory or in the file, gives a
user a port twice. `FileInv` ties the file to the one instance whose table it is
(`writer`): at rest the file holds what that instance holds, or has written and is about
to take over; of the other instances' registries the code promises nothing.
From it: `TypeCorrect`, `OwnPorts`, `Exclusive` (entries of online users lie in
their blocks, blocks are disjoint, entries of a user are distinct),
`FullyMapped`, `LatestWins`, `Durable` (what an instance lists online is in the file
while it is the last that wrote or loaded it and no write is under way or cut off), and
the action property `Stable` (while the file stays with an instance, or a successor
loads it at rest, allocations in their user's block stay as they are).
`ConfigAlwaysSound` rests on `BlocksDisjoint`: in a sorted sequence of blocks each of
which ends before its neighbour begins no two blocks overlap, neighbours or not.

*ServerSessions.* `IndInv` adds to `TypeOK` that the map holds exactly the handles
that were created and not dropped (`MapInv`), that a registered session is its
user's own and has a task or ended in one of the early returns (`OnlineInv`), that
the registry knows what a registered client said (`ToldInv`), and that a session in
the map is registered or a later login of its user has registered and is not
installed yet (`LiveInv`): the gap between the two critical sections. From it:
`MapExact`, `NoOtherGhost`, `LiveRegistered` and the action property
`StaleExitHarmless`. Three more theorems are the safety halves of what TLC checks as
liveness, and a link to MultiMap: `NoUpdateLost` (a session without an unseen
directory has sent the current one; `DirectoryReachesClients` adds that it gets
there), `NothingOutlivesTheMap` (when the map goes, every handle ever created is
dropped; `ReloadFreesPorts` adds that the map goes) and `InsertAccepted` (the error of
`h.insert` that server.rs:423 ignores does not occur).

*MultiMap.* Both indexes hold the same entries between calls, but not within one, so
`CallInv` says for every step of a call how they differ; `EntryInv` says that entries
point to allocated boxes with distinct keys, `HeapInv` that an allocated box is
indexed or in the hands of the call. From it: `Safe`. `Implements` is the refinement:
the first step of a call is BiMap's call with the same key or item, the same effect and
the same result, and every later step changes nothing BiMap sees. So `get1(a)` returns
the value of the item whose first key is `a`, or that there is none, and an insert is
refused only when one of its keys is taken.

*Aliases.* `IndInv` is `TypeOK`, `HandlesInv` (a handle belongs to a running task that
was not aborted, and its channel is connected), `OneHolder` (no two channels hold one
task), `HeldInv` (a task that runs on is held) and `RunInv`. From it:
`NoTaskLeftBehind`: exactly one connected channel can abort a task that runs on.

*DataChannels.* `IndInv` is `TypeOK`, `RunningInv` (while the session lasts no
listener or pool has ended) and `ChannelsConserved`: requests, dials, queued and
lost channels add up to the reserve plus what visitors and UDP ports wait for.
It gives `Conserved`, `Bounded`, and `HandshakeNeverWaits`: if `CHAN_SIZE` is
larger than `TCP_POOL_SIZE` plus the number of ports of a user, `data_ch_tx.send`
(server.rs:443) never waits, so no task keeps the session map locked.

*Framing.* `ChannelsAreQueues` is the refinement: each direction of a channel
implements Fifo, for all messages, all sizes of pipes, queues and buffers, and any
number of messages. What a reader has consumed of its current message, followed by
the bytes in the pipe, is a piece of a longer text: the encodings of the messages in
flight laid end to end (`Layout`: message `i` begins after `p[i]` bytes) and, while
something is being written, the beginning of one more (`OnStream`, `StreamOK`). The
positions `p` are a witness that exists in every reachable state, so no recursive
function over the bytes is needed: a message that is completely written adds one
position at the end, a delivered one removes the first. The reader's state is fixed
by the bytes it consumed (`Carries`), so after the last byte of a message it holds
that message and is at the start of the next. `IndInv` says this of both directions;
one lemma per action shows that it is kept and that the step is a step of Fifo or
none (`Moves`): a write is a `Send`, a handled message a `Receive`, an end of either
loop or of the connection a `Break` that keeps a prefix, and every other step leaves
the abstract channel alone. This is where the limits matter: a frame above
`MAX_FRAME` is refused by the writer, so the reader's test never fails on what was
written, and a datagram is cut to `UDP_BUFFER_SIZE` first, so `len as u16` loses
nothing.

*ClientUdp.* `OneForwarderPerVisitor` is inductive with `EntryInv` (an entry belongs
to the forwarder that was spawned with it), `LookupInv` (what the lookup saw is still
true when the write guard comes, because only the main loop enters visitors),
`WaitInv` and `GuardsInv` (who waits for the lock is in its queue; which guards the
main loop holds where). From it: `OneForwarder` and `ToItsVisitor`.
`LockCycleIsForever` and `QueueCycleIsForever` prove that the two cycles of 6.3 and
6.4 are deadlocks and not delays: no step of any task ends one. `PipeCycleUntilCut`
says of the cycle of 6.19 that only the loss of the channel ends it.

*Heartbeat.* `QuietInv` relates the two timers: on a good link the client has waited
no longer than the server, unless a frame is still waiting, also when a report restarts
the server's sleep. `NeverFalse` follows for
all settings README.md:141 asks for (`SettingsAsDocumented`). `ProbeDefeatsTimeout`
proves 6.1 in general: if the probe interval is shorter than the timeout, the client
never gives up, whatever happens to the link (`ProbeInv`: its sleep is never older
than the last probe).

Only model-checked, because it is out of the prover's reach: all liveness
properties, and what needs `ENABLED`. ClientControl and NginxMap have only such
properties. Reload's invariant `NoIdleRestart` is model-checked only, too.

## 6. Known deviations of the code from its documentation

The first has a run. Each of the others is a property defined next to the code it
is about, or an exception named in one; putting it into the cfg of the named run in
place of the run's properties gives TLC's counterexample.

1. **Heartbeat timeout never fires** (`heartbeat_probe`, `SilenceDetected`). The
   sleep at client.rs:779 is restarted by the probe tick every 5 seconds; the
   default timeout is 40. README.md:141. `ProbeDefeatsTimeout` proves it for every
   timeout above the probe interval.
2. **Ghost users** (`sessions` with `NoGhostUser`). The `?` at server.rs:388 and 642
   return after `register` without `unregister`; the second also leaves the handle in
   the map. The peer need not have vanished: a directory beyond `MAX_FRAME`
   (protocol.rs:251) takes the `?` at 642 for every new session. README.md:111 "Only
   ports that are reachable are listed".
3. **Lock cycle in UDP forwarding** (`client_udp` with `NoLockCycle`). client.rs:320
   asks for a second read guard while the first (284) is held; a forwarder that
   asks for the write guard (373) in between blocks both, for ever
   (`LockCycleIsForever`). client.rs:295 "This is
   the only thread that will try to grab the writer lock".
4. **Queue cycle** (`client_udp` with `NoQueueCycle`). client.rs:322 waits for room
   with read guards held; the forwarder that would make room has left its loop
   and waits for the write guard, for ever (`QueueCycleIsForever`).
5. **Stale forwarder** (`client_udp` with `SendFindsForwarder`). The `?` at
   client.rs:345 and 363 skip the removal at 373; later packets of that visitor
   are dropped. client.rs:319 "Now there should be a udp forwarder that can
   receive the packet".
6. **Allocations lost from `alloc_file`** (`registry` with `OnlineIsDurable` for the
   instance started last instead of `writer`). registry.rs:194 rewrites the file in place, so a crash or an error
   leaves it empty, unparsable or with some of its entries. And after a reload a
   handshake of the old instance, which holds the old registry (server.rs:191, 377),
   may still register, with the old user table, and write the old allocations over
   those that the new instance has made (registry.rs:129, 194); or the new one loads a
   file that the old one is just writing. README.md:106 "Allocations are persisted in
   `alloc_file`".
7. **Overtaking logins** (`sessions` with `LiveSessionRegistered` for all `Conns`).
   register and install are two critical sections (server.rs:375 and 390): logins
   that pass each other leave a session in the map that the registry does not
   know, and the exit of the other one takes the user offline. registry.rs:244
   "Stale session cannot mark the user offline".
8. **Silent peers and reload** (`sessions`, `ReloadFreesPorts` without its premise). A
   handshake task without a timeout holds a strong reference to the session map
   (server.rs:294, 355); one silent peer keeps every port of the old instance bound.
   server.rs:590 "a strong reference would keep the map (and thus our own
   shutdown sender) alive after the Server is dropped on reload".
9. **Toggle while connecting** (`client_control`, `ReportSettles` without `raced`).
   client.rs:686 reads `DISABLED`, 711-712 mark it as seen: a toggle in between is
   lost. client.rs:710 "Tell the server which ports are unavailable, now and on
   every change".
10. **Two instances, one `STATE`** (`client_control`: `ReportSettles` without
    `stolen`, and `StateSettles`). The old instance can consume a change before the
    new one reports it, and it clears `connected` under the new one (client.rs:789).
    If it reads its `RegisterAck` late, it empties `STATE` (client.rs:679) after the
    new one got its directory: the new one's probe then has nothing to probe
    (`~st.known`) and never reports that the service stopped. client.rs:55
    "process-wide state, one client per process".
11. **`connected` after a failed first report** (`client_control` with
    `ConnectedIsCurrent`). The `?` at client.rs:714 skips line 789.
12. **nginx not reloaded** (`nginx`, `NginxFollows` without `unreloaded`, without
    `owed` or without `stale`). An abort between write and `reload_cmd`
    (server.rs:218), or a failed command, is not repaired: the next instance finds the
    file up to date. A failed write, which may have truncated the file, is repeated
    only at the next change. Without `reload_cmd` (server.rs:261) nginx is not told at
    all. The write of an aborted task (server.rs:257) may replace the file behind the
    next instance's back. server.rs:143 "Keep the nginx map in sync with the
    directory".
13. **Failed instance, early edit, no watch** (`reload`, `LastConfigRuns` without its
    exceptions). After an
    instance has failed the next configuration ends the process (lib.rs:90-91);
    an edit between config_watcher.rs:65 and 88 is not noticed; if `watch_file` fails
    (88) the watcher ends without a message, and the process with it, successfully.
    README.md:38
    "Services can be added or removed dynamically by hot-reloading the
    configuration file".
14. **Lost dials** (`channels`, `VisitorServed` without `lost > PoolSize`). A channel
    the client fails to dial (client.rs:744) is never requested again. The run
    shows that the reserve covers exactly `TCP_POOL_SIZE` such losses.
15. **UDP port turned on** (`channels` with `UdpForwarded`). A port that was off
    when its channel came (client.rs:209) is not served when it is turned on.
    client.rs:66 "Takes effect on the next directory push".
16. **Own number, exhausted block** (`registry` with `KeepsOwnNumber`,
    `ValidatedBlockSuffices`). Of a tcp and a udp port with one number only the
    first keeps it (README.md:106 "keeps its number"); entries of ports that are no
    longer configured count as used, so a user that passed validation
    (config.rs:320) can be refused.
17. **Both loops in a write** (`framing`, `EveryFrameHandled` without `Jammed`). Each
    loop awaits its write (server.rs:631, client.rs:755) before it takes the next
    frame. The reader tasks go on until the queue of 8 is full; if pipes and queues of
    both directions are full at once, neither end gets on. The server's frames alone
    do not lead there: the client must write as much as the buffers hold meanwhile.
18. **Alias taken for the own service** (`aliases`; why `ListeningSettles` says
    only that the belief settles). The own ports are probed before `apply`
    (client.rs:751-752), so an alias on a port that has become our own is still open
    and counts as a listening service until the next probe, 5 seconds later.
19. **Pipe cycle in UDP forwarding** (`client_udp` with `PacketHandled` without
    `PipeCycle`). The client's loop waits for room in a forwarder's queue
    (client.rs:322), the forwarder for room in the outbound queue (363), the writer for
    the pipe (268), and the server's pool, which would read it, waits in `write_slice`
    (server.rs:862) for the client's loop to read. Only the loss of the channel ends it
    (`PipeCycleUntilCut`).
20. **Directory of an old instance** (`aliases`, `ListeningSettles` without
    `dir = applied[c]`). The control channel of the previous instance may handle a
    directory after the new one (client.rs:750-753) and leave its own in `STATE`, with
    its own probe, until the next push.

## 7. What is left out

Not modelled, and why:

- Transports, socket options, proxies, the CLI and the desktop UI: I/O around
  libraries, without protocol state of their own. UI calls (`set_port_enabled`, edits
  of the file) are environment actions; a transport is a pipe that may break.
- Serde parsing, defaults, path resolution and the checks of transport options in
  `config.rs`: straight-line functions of one text.
- Bytes of forwarded connections, contents of packets, and the rendering of
  tables and maps (`render_directory`, `render_nginx_map`).
- The order of rows in the directory and in `alloc_file`, and the fixed lengths of hello,
  auth and ack.
- What a write of `alloc_file` that is cut off leaves is one of a few sets of entries
  (`Parts`) or text that does not parse. A cut inside the digits of the last
  `remote_port`, which leaves a smaller number, is not among them, nor a mix of two
  overlapping writes that happens to parse. Both are behind exceptions of the
  properties on the file anyway (`writer`), but `OwnPortsDistinct` and
  `OnlinePortsExclusive` do not cover a restart from such a file.
- Latency in Heartbeat (a frame arrives when it is sent), and the connections of an
  alias's visitors.
- Binding an alias beside a wildcard listener, which macOS allows (client.rs:555).

## 8. Plan

Done, in this order: Registry with its proofs, ServerSessions, DataChannels with
its proofs, ClientControl, ClientUdp, Heartbeat, NginxMap, Reload; then MultiMap with
the refinement of BiMap and its proof, user tables and run mode, Framing with the
refinement of Fifo, Aliases with its proofs, late writes in NginxMap, and the proofs
of ServerSessions; then the proofs of Heartbeat, ClientUdp and Framing; then several
instances of Registry and of Aliases at a time, arguments and results in BiMap, and the
third cycle of ClientUdp.

Next: the safety halves of the other liveness properties, as for ServerSessions
(DataChannels: who waits for whom when a session ends; Aliases: a wanted port without
an alias has a task that retries), the races of ClientControl over more than one port,
and an **abstract session specification** (at most
one session per user, served by its latest login) that ServerSessions implements
outside the deviations.
