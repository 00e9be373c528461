# TLA+ models of save

save is an S3-compatible object store: an HTTP API (`save-api`), object files
with two-phase replication (`save-storage`), and metadata, buckets and locks in
RocksDB replicated by Raft (`save-metadata`, on openraft). This directory holds
TLA+ models of its core, the TLC configurations that check them, and TLAPS
proofs. `PROJECT.json` lists components, runs, hazards, findings and theorems
and maps every definition to the source lines it models.

    tlc -workers 2 -config MCObjectStore.cfg MCObjectStore
    tlapm DistributedLockProofs.tla

## Inventory

| Component | State | Operations | Interacts with | What is hard |
|---|---|---|---|---|
| Distributed lock (`save-metadata/src/lock.rs`) | lock table in every replica; `lock_counter`; guards | acquire (local check, Raft write, second local check), drop guard, release task | Raft log, object handlers | decisions from an old replica, timeouts with a command under way, failed releases, restarts |
| Replication coordinator (`save-storage/src/replication/coordinator.rs`, `replicated_backend.rs`, `client.rs`) | `request_counter`, clients, the put under way | put: temp file, prepares, quorum, local rename, commits or aborts; delete; read | service of the other nodes | late, lost and repeated calls, cancelled handlers |
| Replication service (`replication/service.rs`) | `pending_prepares`, temp and final files | prepare, commit, abort, delete, stale cleanup | coordinator, local storage | one temp path per object, handles that delete by path |
| Local storage (`lib.rs`, `layout.rs`) | temp and object directories | write temp, rename, unlink | all of the above | crash and fsync error around the rename |
| GC worker (`save-api/src/gc.rs`) | none | list old temp files, remove them | temp directory, multipart metadata | list and removal are apart |
| Object handlers (`handlers/objects`) | none of their own | put, delete, get, head, list | lock, storage, Raft | file and metadata change in two steps |
| Bucket handlers and cache (`handlers/bucket`, `state.rs`) | `bucket_cache` | create, delete, head, list | Raft, put | check and command are apart; cache ttl |
| Metadata state machine, log store, snapshots (`raft/storage.rs`, `log_store.rs`, `snapshot.rs`, `state_machine.rs`) | log, vote, `last_applied`, data | append, truncate, purge, apply, build and install snapshot | openraft | crash between apply and `last_applied`; keys that snapshots miss |
| Raft node and RPC (`raft/node.rs`, `rpc.rs`) | openraft handle | write with retry, membership, elect | everything that writes metadata | errors after which a command may still commit |
| Multipart uploads (`handlers/multipart`, `multipart.rs`) | upload and part records, part files | initiate, upload part, complete, abort | storage, GC, lock | only complete takes the lock |
| Membership and scaling (`scaling.rs`, `handlers/cluster`, `main.rs`) | Raft membership | initialize, join, promote, remove, leave, shutdown | Raft, coordinator's clients | a leader that leaves; retries across leader changes |
| Cluster manager (`save-storage/src/cluster`), built by its own tests only (`save-api/src/lib.rs:41`); the coordinator's sync worker (`main.rs`) runs | node states with addresses, failure counts | heartbeats, status changes, `can_remove_node`; client sync | coordinator | missed and late heartbeats, events sent after the lock is given back, two addresses of a peer |
| Forwarding, request tracking, routes, drain (`middleware.rs`, `forward.rs`, `routes/`, `internal_api/service.rs`) | in-flight counter | forward writes to the leader, drain a node | all handlers | timeouts of forwarded writes, wrong ideas about the leader, dropped requests |
| Authentication (`auth.rs`) | none | check a signature | forwarding | what a signature covers and what forwarding drops |
| Validation, configuration, formats, metrics, CLI | none | pure functions | | not for a model checker |

What makes them correct: guards are exclusive and come back; an acknowledged
put is durable and what is read; a failed one leaves no damage; file and
metadata agree; every request ends; temp files and prepares do not accumulate;
a replica is what its log makes of it, however often it crashed; a completed
upload has the parts that were uploaded; who has left is out of the cluster and
who is ready is in it; a refused request changed nothing; the quorum a node
reports is the one its peers' health gives.

## Modules

**RWLock** is the abstract read/write lock: guards that coexist on an object
are all read guards.

**DistributedLock** models `lock.rs` with one variable per piece of state: the
requests (`op`, `phase`, `id`), the commands with Raft (`cmds`), the tables the
committed commands produced (`history`, of which a replica has reached
`applied[n]`), and `lock_counter` (`counter`). `acquire_lock`, `release_lock`,
`can_acquire` and `is_held_by` have the source's names. `Propose` and `Verify`
are the two halves of `try_acquire_lock` around its await. Raft is external:
`Commit` puts a submitted command at the end of the one sequence that every
replica applies. A command that `write_with_retry` submits twice is one command
there: the second copy of an acquire finds its holder in the table.

**ObjectRegister** is the abstract register: operations one at a time; a
successful one has taken effect before its reply, a failed one may have.

**Replication2PC** models puts and deletes of one object. `phase`, `prepared`
and `waiting` are the coordinator's local variables in
`replicate_write_streaming`, `complete_2pc_write` and `replicate_delete`; `net`
holds the calls of spawned tasks, which outlive the operation; `temp`, `final`
and `pending` are a node's two paths for the object and its
`pending_prepares`. A dropped `TempObject` deletes the file at the temp path,
whoever wrote it, as in the code. A prepare and a rename are one step each. A
handler that is cancelled may have renamed or unlinked its local file already,
because blocking threads go on when the future is dropped; an unlink that waits
in the thread pool beyond that is taken to be done at the cancellation.
Operations do not overlap, because the handler has the object's write lock.

**ObjectStore** models the handlers `put_object`, `delete_object`,
`get_object`, `head_object`, `create_bucket` and `delete_bucket` on the leader for one object,
one action between any two awaits. Commands go through `log` in submission
order. The file is the register that Replication2PC provides (a commit may fail
with or without effect); the lock is the object's entry in the lock table.
`stale` are the holders that a crashed process left; a new request may be given
one of their ids. A `CreateBucket` that cannot be applied sets `stopped`,
because openraft ends on a storage error. `Applied` records which commands took
effect, for the refinement only.

**RaftLog** models the log store and the vote on disk (`raft/storage.rs`,
`raft/log_store.rs`) with the messages that carry them (`raft/rpc.rs`). The
storage commands that openraft issues wait in `io` and are executed one RocksDB
write at a time; a server may die between any two, and a restarted one believes
what `get_log_state` and the entries tell it. Elections, the consistency check
and the commit rule are openraft's and external, modelled by what they ask of
the storage. The conversions drop what the code drops.

**MetadataReplica** takes the committed log as one sequence and models what a
replica does with it: batches and their `last_applied_log_id`, the snapshot
builder that runs beside them, purging, sending a snapshot and its installation
write by write, crash, restart, and `clear_raft_state`. `data` is one bucket,
one object and the holders of one lock, which is what the commands tell apart.
Handlers check a replica before they await the write, so a bucket's delete and a
lock's release have seen it there, while creates and acquires may pass that
check together and be in the log twice. `states` (what each prefix of the log
makes), `top` (the last command the data has seen), `of` (the index the builder
of an image had read), `torn`, and `regranted` (replicas that granted a lock on
replay which had been refused) are history. openraft asks for a snapshot only past the last one, which is the
builder's guard.

**Multipart** models one upload: the four handlers between awaits, the `mpu:`
records, the part files, the guards of `handlers/multipart/mod.rs`, and the
garbage collector beside them. A part's content is the number of the request
that wrote it, so a file written by two of them shows. Where storage may fail,
every removal of a part or of the assembled file may, and the error is dropped
or logged as in the code; a `complete` that is dropped after it disarmed its
guard leaves the assembled file to the collector.

**Membership** models the auto-join worker, `graceful_leave`, the handlers
under `/cluster`, and start and shutdown of a process. A configuration is a log
entry that counts when it is appended, is committed by a majority of each of its
voter sets, and changes its voters through a joint one (openraft, external).
Every node answers from the newest configuration in its own log. A promotion
that a deposed leader answers with an error ends the worker; one whose leader
died is a failed attempt. `cluster_initialize` can time out waiting for its
leader. The drain and the awaits of other workers before a process exits change
nothing here and are left out; Gateway has the drain.

**Gateway** models the way of a request through `app()`: tracking, forwarding,
the initialization check, the signature, the routes, and
`write_with_retry`; and `drain_node`. A request is a record of the shapes the
code distinguishes (method, path, parameters, headers, authorization), and a
signature is the set of headers it covers.

**ClusterManager** models the heartbeat, `add_node`, `remove_node`,
`discover_peers`, the quorum and partition status and the events of one node,
and the coordinator's client map, which the sync worker of `main.rs` changes
too. A step is what runs under one lock. A client has the address it was made
for: `discover_peers` passes `http_addr` (`manager.rs:160`), the sync worker
`replication_addr`, and only the replication port answers a health check. The
program does not construct a ClusterManager yet (a TODO at
`save-api/src/lib.rs:41`; its tests do), so what is shown of it is about the
component, with the coordinator and the sync worker that do run.

How they fit together. DistributedLock's guards are the lock of ObjectStore and
of `complete` in Multipart; Replication2PC's register is ObjectStore's file;
RaftLog's agreement is the one log of MetadataReplica, and MetadataReplica's
stop on a command that cannot be applied is `stopped` in ObjectStore;
Membership decides who is in the cluster that Gateway forwards in and that
ClusterManager's sync worker follows. ObjectRegister is implemented twice, by
Replication2PC and by ObjectStore; RWLock by DistributedLock.

The `MC*` modules add symmetry sets and the scenarios. Definitions commented
"Faulty variant" are not part of any specification: each is a plausible defect
of the definition that follows it, and the run of the property listed with it
under "mutants" fails when it takes that definition's place.

## Runs

| Passing run | Instance | Shows |
|---|---|---|
| lock_faults | 2 nodes, 3 requests, all faults, 1 restart, 4 commands | guards exclude, are in the newest table, leave it only by their owner's release, and refine RWLock, all until a LockHolder is used twice |
| lock_progress | 2 nodes, 2 requests, fair | every contender is granted; no lock is left behind; a dropped guard leaves every replica |
| replication_safety | 3 nodes that all coordinate, 2 operations, 1 retry, 1 crash, 4 environments | acknowledged puts are on a quorum and read there, failed ones nowhere, nothing is left over, one coordinator's copy is a register |
| replication_progress | coordinator and replica, 3 operations, timeouts, late calls, 1 crash, fair | operations and prepares end; temp files without a handle are removed |
| objects | 3 requests of all kinds, 1 crash, 4 environments, fair | metadata is a register and never without a file; file and metadata belong together; every request ends, with a stopped Raft node too |
| raft_log | 3 servers, 3 terms, indexes 0 to 2, 1 crash | one leader per term; committed entries on a majority of disks and in later leaders |
| metadata_replica | leader and follower, 3 commands, 3 lock holders, 1 crash, 2 snapshots, 8 scenarios, fair | data is what the applied commands make; replicas stop only at a second create; log or snapshot always reaches the follower |
| multipart | 2 parts, 4 requests, 2 at a time, 7 environments, fair | recorded parts stay, completed objects are whole, the gauge counts, leftovers are collected |
| membership | 3 nodes, 10 scenarios, fair | who left is out, who is ready is in, joins and shutdowns end |
| gateway | 2 nodes, 2 requests of 6 kinds, 4 scenarios, fair | refusals change nothing, successes are committed, drains waited, everything is answered |
| cluster_manager | 3 peers, 7 scenarios, fair | quorum and events follow health, peers recover as far as their address lets them, clients follow membership |

One run ends in a violation: **lock_holder_reuse** shows that a restart gives
lock ids out again and breaks exclusion (`findings` quotes the document).

### What the properties exclude

Most modules start by fixing `faults`, the failures that may happen in a
behaviour. Properties that hold under all of them are stated plainly; the others
name the failures they survive, and those names are the limits of what the code
guarantees. What lies outside the limit is a weakness of the code that the model
reaches:

* DistributedLock. `NoOrphan` and `GuardDropReleases` need that no acquire times
  out and no release fails: an acquire that times out while its command is with
  Raft leaves a lock that nobody releases (`lock.rs:251`), where
  `docs/adrs/003-per-object-locking.md:47` says "Automatic cleanup on
  errors/panics via RAII".
* Replication2PC. `ImplementsRegister` (one coordinator) holds in every
  environment. `AckedTakesEffect` and `NothingLeft` hold if it is `Reliable`:
  nodes may be unhealthy, prepares, the local rename and its fsync may fail, and
  answers may be lost, but no commit fails, no call times out or comes late, no
  handler is cancelled and nothing crashes. A late abort deletes the next put's
  prepared file, which has the same path; a failed commit is only logged; a node
  that missed a put keeps and serves the old file. `FailedInvisible` needs that
  no fsync fails after its rename.
* ObjectStore. `NoPhantom` holds always unless a crash leaves read locks of
  several gets behind; `ImplementsRegister` without crashes. `FailuresKeepMatch`
  and `GetConsistent` need that only locks, storage commits and unlinks fail
  (`Harmless`): an overwrite whose metadata command fails leaves new bytes under
  the old metadata, where `docs/adrs/004-commit-ordering.md:24` expects an
  orphaned file. `GetConsistent` is about strong reads. Two creates of a bucket
  stop the Raft node (`state_machine.rs:13`); `RequestsEnd` covers that.
* RaftLog. After `delete_conflict_logs_since` the recorded `last_log_id` has the
  deleted entry's term and the index before it (`storage.rs:111`). A server that
  dies before the next append comes back with an id it has no entry for (`torn`);
  only then can a committed entry be lost.
* MetadataReplica. A batch that is cut short is applied again; puts and deletes
  bear that, a `CreateBucket` stops the replica (`StopsOnlyOnSecondCreate`), and
  so does the log after `clear_raft_state`, which keeps the data. Without any
  crash, two creates that both passed the handler's check (`create.rs:22`) stop
  every replica. An acquire that was refused is granted when it is applied again
  after its opponent's release: [h2 asks and is refused, h1 releases], cut short
  and repeated, leaves the lock with h2 on that replica alone (`regranted`,
  `lock.rs:97`). Lock keys are in no snapshot.
  An installation that is cut short and not repeated leaves a mixture (`torn`);
  so does one of a snapshot whose builder died after storing the metadata
  (`snapshot.rs:113`), which then stand with the image of the snapshot before.
  A snapshot of several chunks cannot be installed, because the client sends
  every chunk without offset and done (`rpc.rs:387`).
* Multipart. Part files are rewritten in place and only `complete` takes a lock,
  so a part that is uploaded again while another request uses it, from opening
  the file to recording it or to the end of a complete, is mixed (`shared`).
  Two requests that end one upload both decrement the gauge. A failed or
  dropped `complete` deletes the parts of an upload that is still
  recorded. The collector takes the parts of an upload whose key contains
  ":part:" for orphans, and of all uploads after a snapshot was installed.
  `CompletedIntact` is about behaviours without storage errors, dropped requests
  and crashes, which may cut the completion short.
* Membership. A node that gets SIGTERM stops its Raft server before it leaves;
  of two voters the other one then has no quorum, so `LeaveSucceeds` is about
  three (`docs/DESIGN_NOTES.md:97`). A worker that outlives the wait for it can
  join again (`abandoned`). A refusal that contains "already" counts as joined,
  also when it is about another change under way (`refused`).
* Gateway. A leader that loses its place submits the command again although the
  first may still commit (`lost`). 500 and 502 promise nothing. A signature that
  covers a header which forwarding drops fails at the leader.
* ClusterManager. `has_quorum` is current if `failure_threshold` is above 1. An
  event can be overtaken by a later one (`crossed`). A peer that answers
  "unhealthy" is degraded and counts as available. A discovered peer has a client
  for its HTTP port: its health checks fail, and it stays degraded however well
  it is (`manager.rs:160`; reconnections renew the client for the same address),
  unless the sync worker takes the client away and makes it anew; it does not
  replace the client of a peer that has one. `ClientsFollowMembership` needs the
  certificates to appear.

### Bounds

One key (one object) is enough where components keep state per object and never
across objects. Three requests give a holder, a waiter and a third party whose
release or retry could interfere; two replicas give one that is behind. Three
nodes with `replication_factor` 3 are the default deployment, with a quorum of
two and one replica that can miss a put. Two operations are what a late call
needs, the one that sent it and the one it meets; any two of the three nodes may
coordinate them. Four lock commands are three acquires and a release. For
progress one replica is enough, because coordinators wait for each call
separately.

RaftLog has a third term for the leader that must find what the first committed
and the second overwrote, and two entries for a suffix that conflicts.
MetadataReplica has three commands, so a batch of two can be cut after its first
and met by a snapshot of the third; one replica is enough to be behind, and two
snapshots for metadata that meet older data. Its scenarios take the commands of
buckets and objects, of locks, and of the membership apart, because they do not
meet in the state machine; the proofs have them all at once. A writer that
releases and a reader are what a refused acquire needs. Multipart has four requests:
initiate, an upload, and two that end or disturb it; two parts tell a whole
object from a half. Membership has the smallest clusters in which a leader, a
follower and a newcomer act, one failure at a time. In Gateway one forwarding
node and one leader exchange their roles; a third node would only add a second
forwarder. In ClusterManager three peers have a quorum that one or two may
break. `MaxLog`, `MaxRetries`, `MaxCrashes` and the other `Max` constants bound
what repeats. Deadlock is not checked: requests and operations are finite and a
finished system stops.

Symmetry is used in runs of invariants and step properties only, over requests,
which have no order, and over nodes that have the same role.

### Fairness

The tokio runtime polls every ready future, so steps of handlers, release tasks,
coordinators, workers and heartbeats are weakly fair; so are the periodic
workers (stale cleanup, GC, sync), calls under way (executed or given up at the
rpc timeout) and Raft with a leader (commits, applies, replicates, elects).
Strong fairness is used twice, for time: in Multipart a leftover file grows old
whatever the collector does, and in Membership the deadline of a leave comes
although what it limits goes on. Faults are never fair. In `EventuallyGranted`
no more is needed because requests are finitely many; the lock itself has no
queue and does not prevent starvation by an endless stream of others.

## Proofs

Checked by TLAPS for every value of the constants. Each proof module extends
its component's module; the inductive invariants were model-checked first, on
the instances of the runs; that of MetadataReplica also with two crashes.

**DistributedLockProofs.** The inductive invariant is `LockInv`. Exclusion of
guards does not follow from the table alone: a guard was given out on the word
of an old replica. So the invariant says that a holder, once in a table, is in
all later ones until its owner has dropped the guard (`StaysInTable`), that
guards are in the newest table (`HeldInNewest`), that entries have their
holders' type (`EntryHasType`), and that tables are exclusive
(`TableExclusive`). The three middle parts need distinct holders, which a
restart can take away; they are stated under `UniqueHolders`, and without it
only the rest is kept. A collision of holders is for ever (`UniqueBackwards`),
so a step to distinct holders starts from distinct holders. From it, for any
number of restarts: `TypeCorrect`, `TablesExclusive`,
`ExclusionFromUniqueness`, `GuardsInTable`, `OnlyOwnerReleases`, and the
refinement of RWLock, whose mapping `Guards` is empty once holders collide.
`GuardsExclusive` adds that without restarts holders are distinct, because ids
stay below the counter (`IdsBelowCounter`), and guards therefore exclusive
without a condition. `NothingOrphaned` is `NoOrphan` where nothing fails, which
are the environments of its run; it needs that every acquire with Raft is still
awaited (`AcquiresAwaited`).

**Replication2PCProofs.** `TypeCorrect`; `TempsOwned` for any coordinators and
faults until a crash; and `CoordinatorIsRegister`, the refinement of
ObjectRegister in behaviours whose operations have one coordinator, under every
fault and any number of crashes. Its invariant `RegisterInv` says that
operations do not overlap, that a coordinator calls other nodes only, and that
therefore nothing but the GC worker touches the temp file of the put under way
if the coordinator is always the same. With two coordinators the register
property is false, because a node that missed a put keeps the old file: the
mapping then leaves the register unused.

`AckedIsEffective`, `FailedNeverVisible` and `NothingIsLeft` are about the
quorum, with any nodes as coordinators, in a `Reliable` environment. Their
invariant `QuietInv` says that whatever is under way belongs to the operation
that started last: each call is the only one to its node and of the type the
phase implies (`CallsOf`), a node has the put's temp file together with its
handle or nothing, and a replica that still has them will be called
(`FilesOf`), and a prepared replica with nothing left has the put in its final
file (`EffectOf`). That last part is where a repeated commit could do harm: it
finds no handle and must not rename what the next put wrote.

**ObjectStoreProofs.** `StoreInv` ties the lock table, the commands in the log
and the steps of the handlers together: who has a guard is in the table, every
acquire, change and release in the log belongs to a handler at that step, a
release follows its owner's change (`LockInv`); and while only writers can be
left in the table by a crash, the writer is alone, its file is there before its
metadata and goes after them (`PhantomInv`). From it `NeverPhantom`, over
crashes too. `MatchInv` adds that a file without its metadata belongs to a put
that holds the lock and will change them, and that a get with the lock has read
the current metadata: `HarmlessFailures` and `StrongGets`. `MetadataIsRegister`
is the refinement of ObjectRegister; besides `StoreInv` it needs that a command
is applied once (`AppliedOnce`).

**MultipartProofs.** `BaseInv` (types, the requests' control, what is there
before the upload is opened and gone with its record) carries three invariants.
`PartsInv`, for `PartsKept`: the collector that has not seen the upload does not
run while it is recorded. `ContentInv`, for `CompletesIntact`: while no file is
`shared`, a file has the bytes of the one request that uses it, a recorded part
those of its recorder, and what complete has read is what was recorded.
`CountInv`, for `GaugeIsExact`: the gauge is one less each ended request, and
the record is gone exactly when one has ended or is about to. The proof of
`CompletesIntact` found that `shared` had been too narrow: when the collector
unlinks the file of an upload that is still writing, a second upload of the part
met no open file and did not count, and the first one's record then described
the other's bytes. `shared` now counts an upload from opening until its record.

**RaftLogProofs.** `OneLeaderPerTerm` and `LeadersDiffer`, for any crashes and
any finite set of servers. `VoteInv`: a term that has a leader was reached by
the saved votes of a quorum (`TermHeld`), and only winners' votes are committed.
Quorums intersect, and saved terms never go back. `LogTypeCorrect` is `TypeOK`.

`CommitsOnQuorum` and `LeadersComplete` are the safety of the log itself, for
any number of servers, terms, entries and crashes, as long as nobody died where
`last_log_id` names no stored entry (`torn`). They rest on `LogInv`
(`LogInductive`), which speaks of every log a server has or can come back with
(`LogsOf`: the one in memory, and the one on disk when no entry is missing from
it). Its parts:

* `LogShape`. Any two logs match (`LogsMatch`): equal entries have equal
  prefixes, the entries of a term have no gap, and terms never decrease. An entry's term has a leader (`Written`), servers
  have voted in the terms they have entries of (`BelowVote`), and a leader has
  every entry of its term (`LeaderHasOwn`).
* `IoInv`. The writes left are the rest of an append (`Appending`) or of a
  truncation and the append behind it (`Cutting`), and say what is on disk in
  between; only the last of them carries an acknowledgement, and it is true of
  the disk when it is sent (`AckOK`). A server without writes has on disk what it
  has in memory (`Saved`). This is where the order of the batches in
  `append_to_log` and `delete_conflict_logs_since` matters.
* `MatchInv`. A leader's `matched` can be out of date: a follower that has voted
  later may have cut what it acknowledged. So it is only said that what was
  acknowledged is kept, and fixed for later leaders (`Fixed`), while the leader
  could still find a quorum for it (`MayCommit`).
* `CommitInv`. A committed entry comes with an entry of the term that committed
  it, at the same index or behind it, which a quorum has and which is `Fixed`.
  The committed entry alone would not do: a leader commits entries of earlier
  terms, and those are safe only because of the later one.

A step either shortens logs or hands a part of a leader's log to a follower
(`Shrinks`), or is a leader's append to its own (`Extends`); what `LogShape` and
`Fixed` say is proved once for each kind, and each action is shown to be of one.

**GatewayProofs.** `GatewayInv`: a forwarded call carries the marker and goes no
further (`Hops`), the in-flight counter of a node is the number of its tracked
calls that are not answered (`Counted`), what a drain began with is answered or
counted (`BeganTracked`), a command is with Raft only behind all layers that
could refuse it (`SubmittedLate`, `RefusedAlike`), and is there once unless its
leader lost its place (`SubmittedOnce`). From it `RefusalsChangeNothing`,
`CommitsOnce` and `DrainComplete`, for any number of nodes, requests, retries
and hops.

**ClusterManagerProofs.** `QuorumIsCurrent`, with `QuorumInv`: outside discovery
`has_quorum` is that of the peers (`QuorumOfPeers`), although the heartbeat
skips the update when it reconnects, because a peer with failures counts as
unreachable (`FailedUnreachable`) and reconnects below the threshold change
nothing; and what subscribers do not know yet is in an event to come
(`SeenOrSent`), unless two changes crossed.

**MetadataReplicaProofs.** `ReplicaTypes`, `ReplicasAgree`, `StopsOnSecondCreate` and
`AlwaysReachable`, for any number of replicas, crashes and snapshots and logs of
any length. A part of the data (bucket, object, membership) cannot be compared
with `last_applied_log_id` while a batch is applied again. `ReplicaInv` therefore
says that its value is what some index from `last_applied_log_id` to `top` makes
of it, and what the last command of the batch makes of it once the batch has set
it (`PartIs`); the two coincide where nothing is left to replay. Locks are not
set but taken and given back by their holders, so they need a statement of their
own: each holder has the lock, or has it not, as at some index from the last
command of the batch to `top` (`LockIs`). It is kept where no snapshot left the
keys out and until a replay grants a refused lock (`LockSafe`). A repeated
acquire can also be refused where it was granted: it then meets a holder from a
later state, and since two holders of one state are readers (`Exclusive`), that
state does not have the acquiring one either, as `LockIs` wants. A snapshot is consistent
in the same sense (`Matches`) if its image is not older than its metadata; what
the leader has stored and what its builder has copied is (`Stored`), and it
covers what is purged. That the log of a replica has no gap is `WindowInv`. The
fold over the log is not needed: `History` says how the states of the log follow
from one another. The attempt found that `torn` had been too narrow. It counted
an installed image that had not seen all its metadata claimed, but an older one
copied beside a batch may have, and it then held the membership and the bucket
of different snapshots.

The assumptions are those of the modules: fault sets and scenarios name known
kinds, bounds are natural numbers, there is at least one operation and one hop,
`Nodes`, `Server`, `Part` and `Peer` are finite, there is a `Server`,
coordinators are nodes, node 1 initializes the cluster of Gateway, `Leader` is a
replica, parts are numbered from 1, `failure_threshold` is at least 1, and
`NoObject` and the other names for nothing are not among the things they stand
for.

Model-checked only: everything about liveness (fairness and ENABLED are outside
TLAPS), and the module Membership. That `LeftMeansRemoved` and `ReadyMeansMember`
hold for any cluster depends on how openraft carries a configuration from one
leader to the next. openraft is external and the module keeps only the newest
configuration of each log; the argument for fixed voters is that of RaftLogProofs.

## Plan

All components with a protocol of their own have a module. The project stays at
a dozen runs. Every safety property of the runs is proved but for those of
Membership, which need an invariant over joint configurations like `LogInv`.

## Not modelled

Raft's own algorithm (openraft) is external, and so are connections and their
pools. Validation, configuration, S3 formats, metrics and the CLI are pure
computation or output; hashes and signatures are not computed. Listing handlers
read only. `replicate_write`, `prepare_object`, `write_object` and
`commit_object_metadata` are used by tests and benches only. Objects have no
size: that a replica refuses the prepare of an empty one (`service.rs:147`), that
`read_object` passes a prefix off as the whole after a read error, and chunks of
two prepares that mix are outside the models. `sync_nodes` and the Raft network
keep the address of a node they know; addresses do not change in the models.
Directory entries lost by a crash without fsync are outside too: what was
renamed stays renamed.
