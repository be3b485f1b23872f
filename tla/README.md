# A verification project for Penn-CIS505

The repository is a small cloud platform: a replicated key-value store with a
coordinator, frontend servers behind a load balancer that serve a web mail and
file storage application on top of the store, an SMTP server, and an admin
console. This directory holds TLA+ models of the parts that have a protocol of
their own, TLC runs on small instances, and TLAPS proofs for every value of the
constants. Paths below are relative to the repository's own `src/`.

## The system

| Component | Code | State | Operations | Modelled by |
|---|---|---|---|---|
| Storage coordinator | `kv_coordinator.{h,cc}`, `kv/storage_client_coordinator.{h,cc}` | per partition: `nodes[].alive`, `primary_idx` | one loop a second: health checks in parallel threads, election, PrimaryUpdate to every node; RPCs GetPartitionPrimary, GetNodeView; admin calls | `KVMaster` |
| Storage node: membership | `kv/KVClass.h`, `kv_server.cc` | `primary_idx` (`M_STATUS`, a peer, `UK_STATUS`), `status_serv` | HealthCheck, PrimaryUpdate, `recover_partition`, AdminShutdown/Startup, boot | `KVMaster` |
| Storage node: replicated writes | `kv/KVClass.h` | `tablet`, one mutex a row (`lk_r`) | Get, Put, Delete, CPut, PPut, PDelete, TabletSync | `KVReplication`, `RowOps`; `KVRow` is what it promises |
| Storage node: checkpoint and log | `kv/KVClass.h`, `common/common_util.h` | checkpoint file, log file, `logfd`, mutex `lglk` | `tbl_saving` every minute, `checkpt_log_p`, `del_log`, `tbl_lding`, `log_operation`, `start_initialize`, `close` | `KVPersist` |
| Storage client library | `kv/storage_client.{h,cc}` | a channel for each partition that goes round its nodes, made once | get, getdefault, put, cput, del with five tries each | `KVClient` |
| Load balancer | `loadbalancer/load_balancer.cc` | `frontend_ports` (clients counted), `frontend_status`, `mtx` | probe rounds, `get_next_frontend_port`, a thread a client | `LoadBalancer` |
| Mail server | `webmail/mailserver.cc` | `active_connections`, `conn_cnt`, `user_locks`, each session's envelope | accept, SMTP commands, delivery, `signal_handler` | `MailServer` |
| Mail helper | `webmail/mailhelper.{h,cc}` | one SMTP dialogue | `send_to_webmail` (`send_to_remote` is called from nowhere) | `WebMail` |
| Frontend server | `frontend_servers/frontend_server.*`, `util.*` | `serving`, `client_mutex`, sessions | accept loop, a thread a client, shutdown and restart | `WebTier` |
| Request handlers | `frontend_servers/req_handling.*` | none of their own | dispatch of GET, of POST, and of requests to a frontend that is shut down; mail and file handlers | `WebTier`: the dispatch, which lets no request reach the others |
| Admin console | `frontend_servers/admin_console_server.cc` | cached health | polls nodes and frontends, forwards shutdown, startup and restart | `Manage` of `WebTier`; `AdminShutdown`, `AdminStartup` of `KVMaster` |
| Logging, protos, web pages, build files | `common/common_util.cc`, `protos/`, `webpages/`, ... | none | - | not modelled: output, generated code, static content |

How they interact. A browser is redirected by the load balancer to a frontend.
The load balancer finds out which frontends live by connecting to each of them,
so its probes pass through the same accept loop as browsers and console
operations. A frontend's handlers call the storage client library, which sends
gRPC calls to a node of the partition a row hashes to. A node that is not the
primary forwards a write to the node it takes for the primary; the primary
holds the mutex of the row while one thread per peer sends PPut or PDelete,
then logs, applies and answers. The coordinator checks each node once a second
and announces a new primary when the old one does not answer. To send a mail a
frontend plays an SMTP client towards the mail server, whose worker threads
share mailbox files with nobody else.

Where it is hard, and what has to hold:

- *Coordinator and membership.* Health checks, elections, PrimaryUpdates and
  answers to GetPartitionPrimary overlap, with 100 ms deadlines, and
  `primary_idx` is read and written without a lock. One primary at a time;
  forwarding ends at it; a dead primary is replaced.
- *Replicated writes.* Two writers of a row meet at the primary and at every
  peer; a multicast has no deadline and holds a row lock; a node may die in the
  middle of it. All replicas the same when no write is under way; a refused
  request leaves no trace; a CPut loses no update; every request is answered.
- *Checkpoint and log.* `tbl_saving` runs while handlers are between their log
  entry and the tablet, truncates the log at its end, rewrites the checkpoint
  in place, and system calls may fail without anybody looking. What was answered
  is on disk but for exceptions that can be named; a node can be started again.
- *Load balancer.* The prober and the clients share two maps and a mutex. A
  choice is made from one complete round; counts stay even.
- *Mail server and helper.* Workers share the table of connections, the
  descriptors the kernel reuses, and the mailboxes; the order of SMTP commands
  is the client's, and the helper is a client that is one answer behind; the
  results of `accept` and `pthread_create` are not, or not rightly, looked at.
  Every connection that is served has its slot; one writer per mailbox; a mail goes to those it names; a
  delivery ends, and so does a call of the helper.
- *Client library.* Retries of what was already done. A call that returns has
  written once; every call ends.
- *Frontend and console.* A shutdown is noticed by a thread that sits in
  `accept`; one thread at a time is served, and it waits for its browser. A
  shutdown takes effect; console operations end.

`PROJECT.json` lists each hazard with its line and the properties aimed at it.

## Modules

| Module | What it is |
|---|---|
| `KVMaster` | coordinator loop and the membership of one partition: `MemberSpec`, the abstract view the next module implements |
| `RowOps` | one row and what a request does to it |
| `KVReplication` | EXTENDS `KVMaster` and `RowOps`: clients, handlers, multicasts and restarts for one row. Every step of it is a step of `MemberSpec` or leaves the membership alone (theorem `ImplementsMember`) |
| `KVRow` | what the nodes of a partition promise clients about a row, without nodes, locks and messages; INSTANCE `KVAtomic`: what that is to those who write (`AtomicWrites`) |
| `KVAtomic` | a row that every write changes in one step between its request and its answer |
| `KVRefinement` | EXTENDS `KVReplication`, INSTANCE `KVRow`: the refinement mapping, and `ImplementsRow` |
| `KVClient` | EXTENDS `KVRow`: the retry loops of the client library over that promise |
| `KVPersist` | checkpoint thread, handlers and files of one node |
| `LoadBalancer` | prober and client threads of the load balancer |
| `WebTier` | EXTENDS `LoadBalancer`: frontends, browsers and console operations around it (theorem `ImplementsBalancer`) |
| `MailServer` | connections, sessions and deliveries of the mail server |
| `WebMail` | EXTENDS `MailServer`: the mail helper among its clients (theorem `ImplementsMailServer`) |
| `MCKVReplication`, `MCKVClient`, `MCKVPersist`, `MCLoadBalancer`, `MCWebTier`, `MCMailServer`, `MCWebMail` | workloads and model values for TLC (`KVMaster` needs none) |
| `KVMasterProofs`, `KVReplicationProofs`, `KVRefinementProofs`, `KVRowProofs`, `KVClientProofs`, `KVPersistProofs`, `WebTierProofs` (with the load balancer's), `MailServerProofs` | invariants and proofs |

Some modules also define an altered form of one of their actions just before
the action (`ElectAnyway` before `ElectPrimary`, `NoMutex` before `LockUser`,
...), named by a comment. They belong to no specification: each is a plausible
mistake, and `PROJECT.json` says which property notices it.

### KVMaster

Nodes are `1..N` in configuration order; `NoNode` stands for the code's -1, ""
and `UK_STATUS`; a node's own number in its `primary_idx` stands for
`M_STATUS`. The loop has two phases, "check" and "update", each with a set
`todo` of threads not yet joined, because the code joins all health-check
threads before it elects and all update threads before it sleeps. An RPC and
its handler are one step (`CheckNode`, `UpdateNode`), except where they come
apart: a missed deadline lets the coordinator go on and leaves the handler to
run later (`UpdateTimeout`, `LateUpdate`), and GetPartitionPrimary reads the
primary in one step (`AskMaster`) and is applied in another (`RenewPrimary`).
Crashes are unlimited. Everything else the environment may do wrong (a missed
deadline, a restart, an unreachable coordinator, an admin shutdown) counts in
`faults`, so that a property can say which faults it tolerates: `SinglePrimary`
and `NoStrayForward` tolerate crashes only, because with a restart or a missed
deadline the code does keep two primaries.

### KVReplication

A request is a client RPC with its handler; a write that is forwarded keeps its
identity, `path` being the nodes whose handlers wait for it. `pc` follows the
handler: status check and argument check (`Refuse`, `RefuseKey`, `Enter`), the
four reads of `primary_idx` (`RecoverKnown`/`RecoverAsk`, `Recheck`, `Route`,
`Forward`), the critical section under the row lock (`CPutRefuse`, `Multicast`,
`PeerAdmit`, `PeerApply`, `Commit`). A client's retry is a request of its own.

- Rows are independent but for the protobuf map they share, which the code
  accesses without a common lock; one row is modelled and the map is taken to
  be atomic. The race on the map is listed as a hazard.
- `multic_p` and `multic_d` hand each thread the address of a loop-local status
  and response. Since nothing ever reads them in a way that matters,
  the model has no status: the primary answers OK whatever the peers said.
- Between `Route` and `Forward` `primary_idx` may become -1 or -5, and
  `peers[primary_idx]` is then out of bounds. `WildForward` takes that to kill
  the process.
- CPut reads a missing column with `Map::at`, which throws; gRPC answers
  UNKNOWN.
- TabletSync copies one row in one step. GetPartitionPrimary can fail only in
  `AskFails` and `Boot`.
- GetPartitionPrimary reads the coordinator's `primary_idx` twice (the test for
  -1 and the index) with the election in another thread; the model reads it
  once.
- PPut and PDelete apply in one step; their log entries are KVPersist's.

### KVRow and KVRefinement

`KVRow` is the contract of a partition for one row while processes only crash
and stay down. Its state is the *set* of versions of the row that live nodes
hold. A write begins when no other is under way (a CPut also compares), may
spread to some nodes at any time, and when it is answered it has replaced every
version, unless a process has died before. A CPut is compared, and refused, only
between writes, as under the row lock of the primary. A Get is answered from any version:
the code reads the node it is sent to without asking the primary, so two reads
during one write can see the new value and then the old one. `Break` is the
crash of a node: the versions it alone held are lost, requests it was serving
are answered UNAVAILABLE although they may have been applied, and PPuts of a
dead primary that are on their way (`late`) still arrive.

`KVRefinement` maps `KVReplication` to it: versions are the rows of running
nodes, a request is `writing` in its multicast and `late` when its primary is
dead and some PPut is not. `MaxFaults = 0` is necessary: with a restart or a
missed deadline there may be two primaries, and then two writes at a time.

`KVAtomic` is the contract that remains for writers until the first crash: one
row, which a write changes in one step (`Perform`) after its request (`Submit`)
and before its answer (`Confirm`); a refused write never changes it, and a CPut
is told what the row holds at that moment (`Refuse`). `AtomicWrites` of `KVRow`
is the refinement: the atomic row is the *settled* one, the row as it will be
when the write under way has reached every node (`Settles`), so a write takes
effect when its multicast begins. Gets are not part of it, since they do see the
row before a write that has begun. After a crash nothing of the kind holds: a
write may be at some nodes only and its client told UNAVAILABLE.

### KVClient

A call is a loop of at most `Tries` (the code's five) requests of `KVRow`; the
next one is sent after any answer but OK, whatever became of the one before.
`Missing` is the only answer `get` tells from the others; `getdefault` turns it
into a result. The loop of `cput` tests a `Status` nobody assigned, so it has
no action of its own: a mismatch ends in `GiveUp` like any failure (see
Findings). `Bound` says for each workload how many of its calls are made and how
many crashes (`Break`) there are. The channel of a partition is made once, before any call, and calls never change it, so it is no state here.

### KVPersist

A key is a cell in a row of its own. Log entries of different keys commute when
they are replayed, so the log is one newest readable entry a key; a partial
entry makes the rest unreadable (`torn`). The checkpoint is the set of its
entries (`saved`, `scrap` for a partial last one). The three `write` calls of an
entry are one step; when it fails, or the process dies in it, a partial entry
may be left or not. The
iteration of `tbl_saving` meets the keys in any order while handlers go on.
`fds` counts the descriptors `tbl_saving` opens and never closes. `OnDisk` says
what a *correct* reader would find; the code's own reader finds nothing (see
Findings).

The files do not always cover the tablet, and `CheckpointCovers` names every
exception, key by key: a handler is between the key's log entry and the tablet
(`InWindow`); the newest write of the key has no readable log entry (`stale`:
its append failed and nobody looked, it came after a partial entry, or the log
is of an earlier process and was skipped at the start); or the log has no entry
of the key and the checkpoint in the file has not got it, because the last
`tbl_saving` that opened the file has not met the key, being under way or having
failed (`todo`), or because a handler was logged and not applied when it began
(`raced`). The last one is the interleaving the code is exposed to without any
failure. What is left is a claim about failures, too: a checkpoint that breaks
off loses no write that the log has, a failing append harms other keys only by a
partial entry, a failing `ftruncate` harms none, and a process out of
descriptors keeps its log.

### LoadBalancer

`StartRound`, one `Probe` per port and `EndRound` make a round under `mtx`,
which the prober keeps while it sleeps for five seconds. `PickPort` is
`get_next_frontend_port` in its critical section. Frontends come and go at any
moment (`Toggle`). Parsing and socket set-up are left out; that `socket` fails in
a probe and a live frontend is taken for a dead one looks the same to the load
balancer as one that has gone and come back.

### WebTier

A frontend is a main thread (`main`: the test of `serving`, `accept`, or on its
way out), a queue of connections the kernel has made and `accept` has not
returned, and a thread a connection that holds `client_mutex` from before `recv`
until it has answered. A probe of the load balancer is a connection, too, which
is closed at once: it wakes `accept`. `Toggle` of `LoadBalancer`, the frontend
that comes and goes, becomes the crash, exit and start of a process here.

A request is "page", "status", "shutdown" or "restart". That is all, because
`handlePostRequests` tests `url.find("/shutdown")` for truth, which every URL
that does not *begin* with "/shutdown" passes: every other POST is answered
503, nobody can log in, and a page is all a GET without session can ask for.
`FallOff` is `handle_shutdown_requests` for a request it does not know: it ends
without `return`, which is undefined; the model lets the process die or the
browser get something that is no answer. `late` is a history variable.

### MailServer

One worker per connection. `Admit` is its first critical section: a slot and a
greeting, or 421. Nobody looks at what `accept` returns: when it fails
(`AcceptFails`) a thread starts for the descriptor -1, which is also the mark of
an empty slot (`NoFd`). If it is admitted it counts itself in `conn_cnt`, its
slot stays empty, and it is in `recv` for ever. `SlotsMatch` therefore counts
such workers apart. `pthread_create` reports a failure by a positive number,
which the code takes for success (`NoThread`): the connection stays open and
nobody serves it ("lost"), and `pthread_detach` of a handle that was never set may
end the process. The kernel hands out the lowest free descriptor,
which matters because QUIT closes its socket before it gives its slot back and
because `flock(fd, LOCK_UN)` comes after `fclose(fd)`: in both windows the
number may already belong to somebody else. Commands refused for their syntax
and NOOP change nothing and are left out; `fprintf` and `fclose` are one step;
`signal_handler` is one step, after which the process is gone.

### WebMail

`Helper` names the connections that calls of `send_to_webmail` make. `hpc`
follows a call: it sends HELO, MAIL, RCPT, DATA, the text and the final dot and
calls `recv` after each of them but the text. The first `recv` gets the
greeting, so that every later one gets the answer to the command before; what
arrives is not looked at. `Take` is the worker: HELO is accepted; MAIL and RCPT
carry a blank after the colon, which the server's patterns do not allow, DATA
comes without recipients, and the lines of the text are no commands, so
everything else is refused. The helper closes without QUIT. `reset` says that
the worker has answered a closed socket; the next answer is a SIGPIPE
(`BrokenPipe`) and the end of the mail server. A worker whose client closed
without QUIT spins in `recv` and keeps its slot; that is `ClientGone` of
`MailServer`. A failing `accept` leaves the helper's connection in the backlog,
to be accepted later; one without a thread (`NoThread`) keeps the helper waiting
for ever, which is the exception `HelperReturns` makes.

## Runs

| Run | Instance | What it shows |
|---|---|---|
| `membership` | `KVMaster`, 3 nodes, 2 asking threads, 1 fault | `SinglePrimary`, `NoStrayForward` while nodes only crash; `FailoverCompletes` also after a fault |
| `replicas` | 2 nodes, a Put and two competing CPuts, crashes | `WriteMutex`, `ReplicasAgree`, `NoLostUpdate` |
| `faults` | 2 nodes, a Put against a Delete, or a CPut against a Put without a column, crashes and one other fault | `RowLockHeld`, `OnlyAccepted` whatever fails |
| `answers` | 2 nodes, a Put against a Get, a Put or a CPut, crashes | `AllAnswered` under fairness; `ImplementsRow`, the refinement of `KVRow` |
| `client` | `KVClient`, 2 tries a call: a put and two competing cputs, or any two of put, cput and del, or of put, a cput that does not match and get, with 1 crash | `ExactlyOnce`, `OneVersion`, `NoLostCPut`, `CallsEnd`; `AtomicWrites`, the refinement of `KVAtomic` |
| `client_mismatch` | `KVClient`, a put and a cput of 2 tries, no crash | a `cput` that finds another value does not say so (finding) |
| `persistence` | 2 keys, 3 writes, 3 descriptors, one failing system call | `CheckpointCovers`, `CleanStop` |
| `restart` | the same without failing calls | a node cannot be restarted on its checkpoint (finding) |
| `balance` | 3 frontends, 3 clients | `Balanced`, `PicksFromOneRound` |
| `web` | `WebTier`, 1 frontend, 1 browser, 2 console operations, crashes and starts | `OneMoreClient`, `ShutdownTakesEffect`, `ConsoleEnds` |
| `webmail` | `WebMail`, 2 connections and the helper, 2 slots | `SlotsMatch`, `HelperReturns` |
| `mail_delivery` | `MailServer`, 2 connections, 2 mails each, 1 mailbox | `OneWriter`, `LocksInOrder`, `DeliveredAsNamed`, `DeliveryEnds` |

Why the bounds are enough. Three nodes are the smallest partition with a
primary, a successor and somebody with an outdated view of both; the load
balancer's source names exactly three ports. Two writers give every race for a
row lock; `NoLostUpdate` needs a third one to write the value the two CPuts
fight for. The runs of `KVReplication` have two nodes, where a multicast has one
peer; what three or more add, peers that are ahead of one another, is covered by
the proofs of `WriteMutex`, `ReplicasAgree` and `ImplementsRow` for every number
of nodes. One fault already reaches every state that makes two primaries (a
late PrimaryUpdate, a restart between elections); the crash bound is the number
of nodes. Two tries are a first one and a last one, and a retry beside the calls
of others is all that is asked about; two cputs meet over one value with the put
that writes it, hence three calls, and a single crash beside any two calls is
enough for a try that was applied and not answered. Two writes
of one key and one of another give a key overtaken by a checkpoint next to one
that is not; three descriptors allow two complete checkpoints and one more that
is cut short before they run out. Frontends share nothing but the prober, which
visits them one by one, so one of them shows what a shutdown meets; two console
operations allow a restart or a second shutdown while the first is pending, and
the browser is somebody who may keep `client_mutex` waiting. Two slots and three
connections fill the table and reuse both slots and descriptors; in `webmail`
the table is all that is asked about, so clients there name no sender and
deliver nothing, and each of the three connections may be one that `accept` or
`pthread_create` failed for. In `mail_delivery` there is a slot for each connection, and nobody is
turned away (`Admit`). `MaxRcpt = 1` and `MaxMail = 2` allow a second mail on the
envelope of the first one; one mailbox is where workers meet.

`CHECK_DEADLOCK FALSE` appears where requests, calls, connections or the process
may all have ended: the replication, client, persistence and mail runs.
`KVMaster`, `LoadBalancer` and `WebTier` must always have a next step, and TLC
checks that.

No symmetry is used: node and port numbers are ordered by the code (the first
live node, the lowest port), and the liveness runs exclude it anyway.

### Fairness

- `FairMemberSpec`: the coordinator's loop thread runs for ever
  (`healthcheck_each_second`) and every RPC it waits for ends, because it has a
  100 ms deadline. Nothing is assumed of nodes, admin or network.
- `FairSpec` of `KVReplication`: each gRPC handler keeps its thread, so a
  handler or peer whose next step stays possible takes it, and the coordinator
  as above. Clients need not send. A mutex is only assumed to be taken when it
  stays free; since the requests are finitely many nobody can be overtaken for
  ever.
- `FairSpec` of `KVClient`: the nodes answer, which is what `AllAnswered` shows
  of them, and a thread in the loop of a call goes on. Calls need not be made.
- `FairSpec` of `MailServer`: a worker that delivers goes on while the process
  runs. Nothing is assumed of clients. Mails are bounded, so weak fairness is
  enough for the locks here as well.
- `FairWebSpec` of `WebMail`: the threads of helper calls and of their workers
  run, and `accept` does not fail for ever with the helper in the backlog. Nothing
  is assumed of other clients, nor that the server stays up.
- `FairWebSpec` of `WebTier`: the prober, the main threads and the handlers run
  while their process does. Main's `accept` is strongly fair, since it may fail
  but not every time with a connection waiting. A console operation sends its
  request once it has connected. Browsers need not send anything, so a browser
  may keep `client_mutex` for ever; `ConsoleEnds` names that case. The mutex is
  only assumed to be taken when it stays free, and connections are finitely
  many.
- `LoadBalancer` alone has none: the prober releases `mtx` and takes it again at
  once, nothing makes the mutex fair, and a client may in fact wait for ever.

## Proofs

All hold for every number of nodes, threads, columns, values, keys and every
workload, from the assumptions the modules name (`NAssumption`: at least one
node; distinct marker values; workloads and bounds of the right type).

`KVMasterProofs`. `TypeInv` adds to the types that the coordinator is in its
update phase only with a primary. `SinglePrimary` is not inductive: a node
could be told something stale that has not arrived yet. `CrashStopInv` closes
it, while `faults = 0`: nothing is late and nobody is booting or shut down
(`CrashStop`); a running node that has been checked in this round is known to
be alive (`Known`); and
what a node believes, or is about to learn from a GetPartitionPrimary answer,
is nobody, the elected primary, or a node that is dead (`Beliefs`). An election
happens only when the old primary is dead, which turns every belief in it into
a belief in a dead node.

`KVReplicationProofs`. `NodeInv` (types and: a handler in progress runs on a
running node) is inductive; from it each step refines a membership step, and so
`MemberSpec` and its invariants carry over (`ImplementsMember`).
`RowLockHeld` is inductive with it. `WriteMutex` follows from `AtPrimary`: a
request that is waiting for or inside the critical section is at the elected
primary, kept because a primary is replaced only when it is dead and its
handlers with it; two multicasts are then at one node and hold one lock.
`OnlyAccepted` needs that a multicast begins only after the checks (`Checks`)
and is remembered after its end. `ReplicasAgree` needs to know what replicas
hold in the middle of a write: a peer where the multicast is done is exactly
one write ahead of the primary, every other node is where the primary is
(`InStep`, with `SelfInv`: the multicast runs at every node but the primary).

`KVPersistProofs`. `CheckpointCovers` needs what holds *during* a checkpoint:
`SaveInv` (no handler enters the window between log and tablet, so those inside
are counted in `raced`, and every other key the iteration has met is saved as
it is in the tablet) and `WindowInv` (one handler of a key at a time in that
window; its entry is in the log, or its append has failed and the key is in
`stale`, or a checkpoint that had to leave it out has emptied the log). `CleanStop` adds that what the save of `close` has
met stays as it is (`CloseInv`): the checkpoint thread has been joined and no
handler is left.

`KVRefinementProofs`. `RowRefinement` takes the conjunction `Sound` of the
invariants above (with `Entered`: only a Get reads, and a request that has not
been sent is at no node) and maps each action to an action of `KVRow` or to a
stutter. A PPut that is applied is `Spread`; a commit is `Finish`, where
`InStep` shows that every version has been replaced when no process has died,
and where `WriteMutex` shows that it is the only write; crashes of nodes are
`Break`. `RowUntilFault` states the same for any number of faults, up to the
first that is not a crash. What is proved of `KVRow` is then carried over through
`RowP`, an instance of `KVRowProofs` under the refinement mapping: `NoLostUpdate`
follows from `RowBalance`, and `AtomicUntilFault`, that the nodes implement
`KVAtomic` as well, from `AtomicStep`.

`KVRowProofs`. Until the first crash one write is under way at most (`OneWrite`)
and there is a settled row: the versions, once the write under way is applied to
them, are all the same (`Settles`; doing a write twice is doing it once,
`ConductTwice`). Beginning a write moves the settled row on, spreading and
finishing it do not. `OneVersion` is then immediate. For lost updates the order in
which values were written need not be remembered; it is enough to count
(`Balance`): for every column and value, the writes that have begun and take the
value out, plus one if the settled row holds it, are at most those that put it
in. A CPut can only take out what the settled row holds, since it compares when no
write is under way, and that is one. `AtomicStep` maps `Begin` to `Perform`,
`Finish` to `Confirm`, refusals to `Refuse` and the rest to stuttering; the settled
row is unique (`SettledUnique`), so the mapping is a function of the state.

`KVClientProofs`. `ImplementsRowSpec` lets everything proved of `KVRow` hold of
the row that the client library uses: `OneVersionCorrect`,
`AtomicWritesCorrect`. `ExactlyOnce` needs to know what the state of a try says about
its answer: until the first crash, a try that has begun to write is writing, or
answered OK; a call sends its next try only after a refusal, so at most the
last try has begun. That part of the invariant lasts while `whole`, the rest (a
call that returned OK has begun to write) for ever. `NoLostCPut` counts calls, not
tries: by `ExactlyOnce` tries that have begun and calls that own one are in
bijection (`CPutTries`), and the tries are counted by `RowBalance`.

`WebTierProofs`, the load balancer. A nonempty set of ports has a least element
(`LeastElement`, from the well-foundedness of the natural numbers: the set may
be infinite). `RoundInv` says what the prober leaves behind when it gives up
`mtx`; `PicksFromOneRound` follows from it, and `Balanced` needs it to know that
a choice was made among all ports until a probe fails.

`WebTierProofs`, the frontends. `ImplementsBalancer` maps crashes, exits and starts of frontends
to `Toggle` and everything else to the balancer's own steps or to stuttering,
and with it the balancer's invariant carries over. `OneMoreClient` follows from
`LateInv`: nothing has been accepted too late while `serving` holds or main has
come back to the flag. `Alone` is `client_mutex`.

`MailServerProofs`. `TableInv` counts: for every descriptor as many slots hold it
as registered connections own it, and `conn_cnt` is the number of slots taken and
of the workers on a failed `accept` (`Phantom`) together. From this follows
`AdmittedFindsSlot`: a worker that passes the test of `conn_cnt` finds an empty
slot, so the code's search for one does not come back empty-handed. Per
descriptor is necessary because after QUIT's `close` a second connection gets
the same number, and releasing either slot is then as good as releasing the
other. `Envelope` relates the recipients to the names given since the last RSET,
`LockInv` the stretch in a mailbox to the owner of its mutex. `LocksInOrder` is
its counterpart: whoever owns flock or the mutex of a user is in that stretch,
so that flock waits for the mutex, and the mutex for nobody; it is kept because a
worker leaves the stretch only by giving both back (`HoldersStay`,
`ChainStep`). `WebMail` is shown
to implement `MailServer` (`ImplementsMailServer`), so all of this holds with
helpers as well; `HelpersKeepSlots` states it for `SlotsMatch`.

Only model-checked: liveness (`FailoverCompletes`, `AllAnswered`, `CallsEnd`,
`ShutdownTakesEffect`, `ConsoleEnds`, `HelperReturns`, `DeliveryEnds`), since
liveness under fairness and ENABLED are out of the prover's reach. Every
invariant and every other action property that a passing run checks is also the
conclusion of a theorem. Nothing here needs induction over data or recursive
operators, which the prover could not handle either.

## Findings

- *A node does not start again on its own checkpoint* (run `restart`).
  `get_token` (`common/common_util.h:15-28`) assigns its result only under a
  debugging flag that is false and returns "" for every line; `tbl_lding`
  compares that with "DATA" and exits, and `log_operation` skips every entry.
- *A mismatch of `cput` is reported as a failure* (run `client_mismatch`).
  `cput` (`kv/storage_client.h:251`) looks at a status variable it never
  assigns, so `KVNoMatch` is never thrown; callers count on it
  (`frontend_servers/req_handling.cc:650`).

Met on the way, without a run of their own:

- Storage: `README.md` swaps the names of the two storage binaries; the loop in
  `kv/storage_client.cc:20` never gives clients the last node of a partition;
  no descriptor of a checkpoint is ever closed; multicast results are never
  collected.
- Load balancer: a selected port need not be alive, against the comment at
  `loadbalancer/load_balancer.cc:81`: all ports count as alive until the first
  round has ended, and a status may be five seconds old.
- Frontend: `req_handling.cc` declares `debugging` twice in one scope and does
  not compile as it stands; `if (url.find("/shutdown"))` (line 169) answers
  nearly every POST with 503, so that no session is ever created;
  `handle_shutdown_requests` may end without `return`. The console takes an
  answer other than "200 OK" for a failure, but `/shutdown` and an effective
  `/restart` answer 503, so what worked is reported as failed. Its health check
  of the frontends may report what an earlier poll had found.
- Mail: the comment on `initial_state` (`webmail/mailserver.cc:57`) is wrong:
  the end of the data keeps sender and recipients. The mail helper's MAIL and
  RCPT are refused for the blank after their colon and nothing is delivered,
  while `handle_post_webmail` answers "Successfully sent!"
  (`req_handling.cc:468`). A worker whose client closes without QUIT, as the
  helper does, spins and keeps its slot; an answer to a closed socket can end
  the server by SIGPIPE; `signal_handler` takes a mutex the interrupted thread
  may hold. A failing `accept` uses up one of the
  `MAX_CONNECTIONS` for ever (`webmail/mailserver.cc:419`), and a failing
  `pthread_create` is taken for a success (line 426).

## Not modelled

- *Request handlers behind POST or a session* (mail lists, files in chunks,
  accounts). No request reaches them in this code (see Findings), so a state in
  which they run is not one the program can be in. They would also find no
  storage column to work on: it is to be created by a `cput` of "" on a missing
  column, which the nodes answer UNKNOWN. What such a handler could do to
  another one is bounded by `ExactlyOnce` and `ImplementsRow`, on which its
  read, change and cput loop rests.
- *`send_to_remote` of the mail helper*: called from nowhere.
- *Restart as a whole.* `KVReplication` restarts a node with a copy from a peer
  (TabletSync) and `KVPersist` with its files; the two are not composed. By the
  first finding no node comes back with a checkpoint of its own, which leaves
  TabletSync, and that is modelled.
- *The tablet as a map.* Handlers of different rows use one protobuf map without
  a common lock. The race is undefined behaviour and is listed as a hazard; a
  model could only say that anything may happen.
- *Starvation of clients by the prober* (`load_balancer.cc:123`): no fairness of
  the mutex is promised, so neither that they are served nor that they are not
  could be shown.
- *The thread a signal interrupts* in the mail server: `signal_handler` is one
  step that ends the process; its deadlock on `conn_lock` is a hazard only.
- *The row as writers see it after a crash.* `KVRow` says what remains; that some
  sequence of writes explains it is not claimed, since a write whose client was
  told UNAVAILABLE may reach the row later, or some of its nodes only.

HTTP, JSON and MIME text, logging, sockets and DNS, the console's pages, the
generated gRPC code, web pages and build files are left out for good: none of
them keeps state that another part depends on.
