# A TLA+ verification project for Monaka

Monaka (`crates/`) is an in-memory filesystem for WebAssembly components that can
share its files with other instances through an S3 bucket. This directory holds TLA+
models of the parts of it that are hard to test, TLC configurations that check them on
small instances, and TLAPS proofs for instances of any size. The contract the models are
held against is `docs/sync-semantics.md` and the comments of the code; every definition is
taken from the code.

## The system

| Component | State | Operations | Interacts with |
|---|---|---|---|
| Object store client (`vfs-sync-core`: `object_store.rs`, `s3_client.rs`, `types.rs`) | none of its own; S3 holds the objects; one flag: conditional deletes supported | list, head, get, put and delete with a precondition | S3; called by leases and sync manager |
| Lease protocol (`lease.rs`) | lock objects in S3, lease table in memory | `acquire`, `renew`, `release`, `verify_lease_landed` | object store; called by sync manager |
| Sync manager (`sync_manager.rs`, `file_metadata.rs`, `config.rs`) | metadata cache (last seen ETags), lease table, outbound queue, timers | `on_open_write`, `on_close`, `on_fsync`, `enqueue_upload/delete`, `sync_file_now`, `refresh_*`, `maybe_sync` (renew, flush, poll), `populate_from_s3`, directory markers, shutdown | leases, object store, filesystem through `FsBackend` |
| In-memory filesystem (`fs-core`) | inode table, descriptor table, blocks | POSIX-like operations, snapshots | used by everything |
| Static adapter (`vfs-adapter`) | one guest's descriptors and streams, dirty marks | `wasi:filesystem`; hooks run when a descriptor or stream is dropped, and on fsync | filesystem, sync manager |
| Native host (`vfs-host`) | per clone: descriptors and streams; shared: filesystem, sync manager, background thread | `wasi:filesystem`; hooks before or after each call; shutdown when a clone is dropped | filesystem, sync manager |
| RPC server (`vfs-rpc-server`, `-core`) | connections, sessions, descriptors of each session | poll loop, one request at a time; closes what a disconnected session left | filesystem, sync manager |
| RPC protocol and adapter (`vfs-rpc-protocol`, `rpc-adapter`) | one connection, descriptor table, stream buffers, pending closes | `wasi:filesystem` as sequences of requests; retry of `Busy` opens | RPC server |
| Transports, command line tool | - | S3 client set-up, embedding of snapshots | - |

What is hard:

- *Interleaving.* Every `await` of the sync layer is a point where other instances act,
  and in the native host also other threads of the same instance (each hook runs on a
  thread of its own, next to the background thread). No mutex is held across an await. In
  the thread-safe build of `fs-core` every call is several critical sections.
- *Unreliable requests.* A request may be served late, after its sender crashed, twice
  (SDK retry), or be served with its response lost.
- *Time.* Leases run out; takeovers race with late renewals, writes and releases.
- *Partial failure.* A hook succeeds and the local open fails; a push fails and the
  release goes on.
- *Deferred work.* A write is only a mark, a buffer or a dirty lease until a drop, fsync or
  close sends it; descriptors, streams and leases end in any order.
- *Liveness.* Opens must be decided; copies must converge; renames must not deadlock; a
  broken connection must be noticed.

What makes the components correct: one unexpired lease per file, and the lock object to
show for it; no stored update is ever overwritten unseen; what fsync acknowledges is
stored; every local change is sent; copies converge; blocks behave as bytes; the tree stays
a tree of single links; nothing outlives its session.

## Modules

| Module | Models | State and actions |
|---|---|---|
| `ObjectStore` | S3 as `ObjectStore` / `S3Storage` use it | `store`: key to object; `req`, `resp`: one request per task and its answer; `Serve`, `TransportError` (lost request or response), `ServeTwice` (SDK retry), `HeadCheck` (emulated conditional delete) |
| `Lease` | `lease.rs`, await by await | `call`: the activation of `acquire`, `renew`, `release` of a task; `now` |
| `LeaseHolder` | instances that acquire, renew, release and crash | `held`: the `WriteLease` entry; `Open`, `Opened`, `Renew`, `Close`, `Crash`, `Tick` ... |
| `LeaseSpec` | what a lease promises: terms that do not overlap | `term`; `Grant`, `Drop`, `Tick` |
| `LeaseProofs` | theorems about `LeaseHolder` | - |
| `SyncManager` | `sync_manager.rs` and the hooks around it, for one file, on top of `Lease` | per instance `local`, `cache`, `leases`, `queue`, `fds`; per task the operation in progress; one action per step between two awaits |
| `SyncProofs` | theorems about `SyncManager` | - |
| `BlockStorage` | `storage.rs` and the file part of `snapshot.rs` | operators: read, write, truncate, save, restore; the same on a plain sequence of bytes as the reference |
| `OpenFiles` | descriptors and data of one file in `fs.rs` | `file`, `handles`, `task`; a call is: look up the handle, work under the inode's lock, store the position |
| `InodeTree` | the directory tree in `fs.rs` | `inodes`, `locked`, `task`; a call is one step for each directory it looks at |
| `OpenFilesProofs`, `InodeTreeProofs` | theorems about the two | - |
| `SyncedFiles` | filesystem and sync manager as their callers see them, with several paths | `nodes`, `tree`, `fds`, `leases`, `queue`, `store`, `known`; operators, one for each call the frontends make |
| `RpcServer` | the RPC server | `conn`, `accepted`, `sessions`, `sessionFds`, `refreshed`; `Accept`, one action per group of requests, `Disconnected`, `CloseSession`, `ForceFlush`, `Leave`, `Tick`, `Break` |
| `RpcAdapter` | the RPC adapter, composed with the server | `link`, `descs`, `streams`, `call`; the calls of the application and `Connect`, `Send`, `Receive`, `IoError`, `FsyncNext`, `StreamClosed` |
| `SyncedFilesProofs`, `RpcServerProofs` | lemmas: what the operators of `SyncedFiles` keep, whoever calls them, and what each step of the server keeps, whatever its clients are | - |
| `RpcProofs` | theorems about `RpcAdapter` | - |
| `WasiFiles` | what static adapter and native host share | `descs`, `streams`, `todo`: a call is its first step and then one step for each hook it runs |
| `StaticAdapter`, `NativeHost` | the first step of each call; the host's background thread and shutdown | - |
| `WasiSystem` | guests of both at work | - |
| `WasiProofs` | a theorem about `WasiSystem` | - |
| `MC*` | constants for TLC | - |

`Lease` extends `ObjectStore`; `LeaseHolder` and `SyncManager` extend `Lease`;
`LeaseHolder` instantiates `LeaseSpec`. `OpenFiles` extends `BlockStorage`. `RpcAdapter`
extends `RpcServer`, which extends `SyncedFiles`; `WasiSystem` extends `StaticAdapter` and
`NativeHost`, which extend `WasiFiles` and, through it, `SyncedFiles`. A proof module extends
the module it is about; `RpcProofs` also `RpcServerProofs`, which extends `SyncedFilesProofs`,
as `WasiProofs` does. `PROJECT.json` maps definitions to source lines.

There are two levels of detail for the sync manager and two for the filesystem, because
their races are of different kinds. `SyncManager` and `Lease` take one file apart await by
await and request by request, with other instances. `OpenFiles` and `InodeTree` take a
filesystem call apart lock by lock. `SyncedFiles` makes each of these calls one step, and
the frontends on top of it take a WASI call or a request apart into the calls it makes: what
is at stake there is the order of local changes, hooks, drops, disconnects and shutdown.

Abstractions:

- The ETag of an object is its content (a collision-free digest). A multipart upload is
  one request: its condition is evaluated by `CompleteMultipartUpload`.
- The content of the file is the set of numbered updates it contains, so "overwritten" and
  "lost" are visible as a missing number.
- A lock record is instance, epoch, expiry; an unparsable record is one that has expired
  and has epoch 0, which is how `acquire` treats it.
- One clock. Clock skew is left out; `MaxLag` bounds how late a renewal may be, and a value
  above the lease time allows any delay.
- A crashed process never comes back under its instance id (`generate_instance_id`); the
  request it had in flight may still be served.
- The timers of `maybe_sync` are left out: renewal, flush and poll may run whenever the
  task is free.
- Frontends differ in what the constants say: `FsyncMarks` (static adapter and native host
  register a write before `on_fsync`, the RPC server does not), `InstanceOf` (one thread, or
  several for the native host), `LockTimeout` (0 for the RPC server), `Inbound`, `Realtime`,
  `FileLocks` (the choices for `VFS_S3_FILE_LOCK`), `ConditionalDelete`.
- `OpenFiles`: a block of two bytes instead of 4096 has the same boundaries. Its history
  variable `bytes` is the reference content.
- `SyncedFiles`: a file is the set of its writes, each with its offset; an object in S3
  likewise, with a mark that tells an empty object from none. Other instances only hold leases (`foreign`); they do not write. A hook's requests
  to S3 all get through, or one of a bounded number of faults makes the hook fail.
- `RpcAdapter`, `WasiFiles`: a write is one numbered unit; `wrote` and `synced` are history.
- `ForeignRelease` and `Break` are the environment. A client that speaks the protocol itself
  (`DirectCall`) is one of any other programs that use the server: it may connect before or
  after it makes other requests, or again, and with `config.any` it names any descriptor
  number. A request is one message whose answer it waits for, and the seeks it makes go to
  the start of the file. `strays` is history: the descriptors that belong to no session.
- The server closes the descriptors of a session one by one, each with its own answers from
  S3. A read moves the position to itself or behind any write it may have read; how much a
  client asks for is left out.

A definition whose comment begins with "Mutant:" is a plausible bug in the definition
after it, used to show that a property can fail. No specification uses it.

## Runs

All runs are `tlc -config X.cfg M`. `CHECK_DEADLOCK FALSE` is set because applications,
bounded clocks and bounded numbers of calls stop; where everyone waiting on everyone is a
hazard, a liveness property looks for it.

Passing:

| Run (cfg) | Setting | Shows |
|---|---|---|
| `lease` (`MCLeaseHolder`) | 1 fault, lease 2, clock 4, any lag, crashes | `TypeOK`; `HolderOwnsLock`; `MutualExclusion`; `TakeoverRaisesEpoch`; `ImplementsLeaseSpec` |
| `lease_live` (`MCLeaseHolderLive`) | no fault, lease 2, renewals answered before the lease ends, crashes, fairness | `LiveHolderKeepsLease`; `OpenDecided`: every acquire ends |
| `sync_batch` (`MCSyncBatch`) | batch mode, leases that run out, a crash | `NoLostUpdate`, `SyncedIsStored`, `CleanCopyIsBase`, `NothingUnsent`, `LeaseHasDescriptors`, `LeaseOwnsLock`, `TypeOK` |
| `sync_realtime` (`MCSyncRealtime`) | realtime mode, read-through and metadata checks, no conditional deletes | `NoLostUpdate`, `SyncedIsStored`, `NothingUnsent`, even though locks can be lost |
| `sync_unlink` (`MCSyncUnlink`) | file locks on and off, an unlink, fairness | `NothingUnsent`, `Convergence` |
| `sync_faults` (`MCSyncFaults`) | a fault anywhere, an unlink, writes to the unlinked file | `LeaseOwnsLock`, `LeaseHasDescriptors` |
| `sync_host` (`MCSyncHost`) | two threads in one instance, opens that fail and opens that create or truncate | `LockIsRespected` |
| `fs_data` (`MCOpenFiles`) | two threads, shared descriptors, all calls, snapshot and restore | `ContentIsBytes`: blocks, holes, truncates and snapshots agree with a sequence of bytes; `ReadsHoldNoSurprise`; `LateStoreIsHarmless`: a late position goes to its own open; `AppendsKeepTheFile` |
| `fs_tree` (`MCInodeTree`) | two threads, an empty tree and one with two directories, fairness | `OneLink`; `RemovesWhatItChecked`; `EveryCallReturns`: no deadlock of renames |
| `rpc` (`MCRpc`) | an adapter and a direct client; seven configurations: a fault with read-through, two streams, a connection that breaks in realtime mode, a stranger that reconnects and closes or moves any descriptor (with a break), the same before it has connected, locks disabled with metadata checks at opens, an old server | `DescriptorsHaveSession`; `LeaseCoversWriters`; `BufferHasDescriptor`; `WritesLandWhereMeant`; `FsyncIsDurable`; `EveryCallReturns`; `DisconnectReleases` |
| `wasi` (`MCWasi`) | one guest of the static adapter or two of the host; eight configurations: faults with sync, read-through, realtime, paths without locks, exit of a clone | `LeaseCoversWriters`; `NothingForgotten`: every write is stored or still accounted for, and what was dirty or queued when the host was shut down is stored or still to be sent; `WritesLandWhereMeant`; `FsyncIsDurable` |

One run exhibits a disagreement between the code and a statement of the repository
(`PROJECT.json`, `findings`, quotes both sides): `realtime_recreate` (`MCRealtimeClose`)
violates `CloseOnlyReleases`. In realtime mode a guest holds a file open for write, unlinks it
(the delete is pending under the lease), makes it again and writes; the write is pushed at
once, which clears `dirty` and not `pending_delete`, and the last close deletes the object.

The model shows more of them, which have no run of their own. Each is reproduced by changing
a configuration as listed and checking the one property:

| Property | Change | What happens |
|---|---|---|
| `NothingUnsent` | `MCSyncHost`: `OpenModes = {"create"}`, `MaxTime = 0`, `MaxWrites = 2` | a write during another thread's PUT loses its dirty mark and is never pushed (`sync_manager.rs:276`; `docs/sync-semantics.md:19`) |
| `OneWriter` | `MCSyncHost`: `OpenModes = {"create"}`, `MaxTime = 0`, `MaxOpens = 3` | one of two concurrent opens gives back the lock object the other uses (`sync_manager.rs:504`; `docs/sync-semantics.md:68`) |
| `PollSparesLeased` | `MCSyncHost`: `OpenModes = {"create"}`, `MaxTime = 0`, `MaxWrites = 2`, `Inbound = {"poll"}` | the host opens the file for write between a poll's check and its download (`sync_manager.rs:1006`; `docs/sync-semantics.md:48`) |
| `NoLostUpdate` | `MCSyncBatch`: `MaxFaults = 1`, `MaxWrites = 3`, `MaxTime = 1`, `MaxCrashes = 0`, `Inbound = {}` | another instance's write is taken for our lost response, and then overwritten (`sync_manager.rs:301`; `docs/sync-semantics.md:66`) |
| `LiveHolderKeepsLease` | `MCLeaseHolderLive`: `MaxFaults = 1` | a renewal is served, its response lost, the retry answered 412: the holder takes its own lease for lost (`lease.rs:348`; `docs/sync-semantics.md:46`) |
| `LeaseHasDescriptors` | `MCSyncBatch`: `OpenModes = {"existing"}` | the local open fails after the hook took the lease, and nothing gives it back (`vfs-rpc-server-core/src/lib.rs:221`; `docs/sync-semantics.md:46`) |
| `NothingUnsent` | `MCSyncBatch`: `OpenModes = {"truncate"}` | a truncating open without a write is not pushed (`sync_manager.rs:623`; `docs/sync-semantics.md:19`) |
| `NothingUnsent` | `MCSyncBatch`: `OrphanWrites = TRUE`, `MaxUnlinks = 1` | a write after unlink cancels the delete (`sync_manager.rs:125`; `lease.rs:92`) |
| `DeletesAreFenced` | `MCSyncBatch`: `MaxUnlinks = 1` | a delete without a known ETag is unconditional (`sync_manager.rs:916`; `docs/sync-semantics.md:31`) |
| `CleanCopyIsBase` | `MCSyncBatch`: `MaxUnlinks = 1` | the stale copy survives an open of a file that was deleted elsewhere (`sync_manager.rs:415`; `docs/sync-semantics.md:42`) |
| `SyncedIsStored` | `MCSyncBatch`: `MaxFaults = 1` | after a close whose push failed in transport, fsync of the reopened file reports success (`sync_manager.rs:653`; `docs/sync-semantics.md:21`) |
| `ReadsReachTheEnd` | `MCOpenFiles` | a read after an extending truncate breaks off at the end of the block vector (`storage.rs:31`, against `storage.rs:48`) |
| `ExclusiveCreates` | `MCInodeTree` | `O_CREAT` with `O_EXCL` opens a file that exists (`fs.rs:538`; `types.rs:12`) |
| `NothingLost` | `MCInodeTree` | a file created between rmdir's check and its removal is lost (`fs.rs:1144`) |
| `NoCycle` | `MCInodeTree` with `Rename(<<"a">>, <<"a", "b">>)` in `MCCalls` | a directory is moved below itself (`fs.rs:1266`) |
| `ClosedOnDisconnect` | `MCRpc` | `write_message` tries for ever on a closed stream and the server hangs (`vfs-rpc-server/src/lib.rs:196`; `docs/sync-semantics.md:149`) |
| `NoStrays` | `MCRpc` | a client opens before it connects, or connects twice: its disconnect does not close what it opened (`vfs-rpc-server-core/src/lib.rs:92`, `vfs-rpc-server/src/lib.rs:335`; `docs/sync-semantics.md:149`) |
| `BufferHasDescriptor`, `WritesLandWhereMeant` | `MCRpc`, the property without `~config.any` (the second with writes in `Strangers`) | a client closes or moves the descriptor under another's stream, since `close_fd` and the other requests take any number (`vfs-rpc-server-core/src/lib.rs:136`) |
| `FsyncIsDurable` | `MCRpc`: in `Faults`, `realtime` instead of `readS3` | the push of a write fails and is only logged, and fsync finds a clean lease (`sync_manager.rs:653`; `docs/sync-semantics.md:83`) |
| `FsyncIsDurable` | `MCRpc`: in `Faults`, also `!.lock = FALSE` | a read-through refresh replaces a queued write; fsync pushes what was fetched (`sync_manager.rs:384`) |
| `FsyncIsDurable` | `MCWasi`: in `HostSync`, also `!.realtime = TRUE` | the host's write hook swallows the failure before `on_fsync` (`filesystem_types.rs:281`; `docs/sync-semantics.md:83`) |
| `ExitForgetsNothing` | `MCWasi` | a host clone shuts the sync manager down and then drops its streams, which enqueue uploads that nobody sends any more (`vfs-host/src/lib.rs:323`, `filesystem_types.rs:391`) |
| `NothingForgotten` | `MCWasi`: `Call("unlink", f)` for `HostSync` | between a guest's unlink and its hook another guest makes and writes the file again; the delete then replaces the upload (`filesystem_types.rs:956`) |

The passing runs leave out exactly the ingredient of each of these where the property
concerned is checked: `NothingUnsent` is checked without faults, truncating opens, orphan
writes or a second thread, and so on. The tables say what a property does not survive. Three
more behaviours of the code are visible in what properties exclude: a write through a
descriptor of the host has no hook (`filesystem_types.rs:426`, excluded in
`NothingForgotten`); two appending streams of the static adapter overwrite each other, since
each takes the end of the file once (`WritesLandWhereMeant` asks it of the host only); and
`rename_at` of the host ignores the descriptor of the new path (`HostRename`).

### Bounds

Two instances are enough for every conflict between a holder and another; the proofs cover
any number. `LeaseTime` 1 with a clock of 2 lets a lease run out, be taken over and the
takeover run out as well. `MaxOpens` 2 allows two instances to hold the file in turn, or one
to share a lease between two descriptors. Two writes are needed for one to be lost. One
fault suffices for every single lost or doubled request. `MaxUnlinks`, `MaxCrashes` are 0 or
1. `lease` uses the symmetry of the instances, `fs_data` that of the threads; the liveness
runs use none. In `lease_live` `LeaseTime` is 2 and `MaxLag` 0: the unit of time is half a
lease, and a renewal that is due is answered within it.

`fs_data`: two blocks of two bytes and four calls reach every boundary (inside, at and over
the end of a block, a hole between blocks, a block that was cut and grows again), and an open,
a close and an open around a call in flight. `fs_tree`: two directories with a file each and
four calls let two renames cross between the directories, with two more calls before or
between them. `rpc`: one open, one or two streams and writes for the adapter, up to two
requests for the other client, one retry of `Busy`, one broken connection or one fault;
the other client opens files at the paths there are (`OpensBelow`). Two requests are an open
and a `Connect` in either order, or an open and the close or seek of a descriptor, its own or
the adapter's; a second `Connect` alone leaves to no session what was opened before. The run
has 250,076 distinct states and takes about three minutes, the longest of all.
`wasi`: two descriptors, two streams, two writes; each configuration has what one group of
hazards needs and leaves out the rest.

### Fairness

`LeaseHolder!Fairness` and `SyncManager!Fairness` assume that the clock advances, that the
store answers (no fault is ever forced), that a started operation resumes when its answer
is there (the executor polls it), and, in `SyncManager`, that an instance boots and that the
background tick gets its turn: flush and poll are strongly fair, because a task that is
busy with one of them is free again infinitely often and `maybe_sync` then runs both when
their intervals have passed. Nothing is assumed of applications: opening, writing, closing,
crashing are never forced.

`InodeTree!FairSpec`: a thread inside a call goes on when the lock it needs is free. Since a
lock is only held across steps by a rename, weak fairness is enough. `RpcAdapter!FairSpec`: a
client inside a call goes on, and the server serves a client that has a request or has gone
(its poll loop visits every ready connection in each round). Neither a tick, nor the release
of another instance's lease, nor a break is forced.

## Proofs

TLC checks small instances; the theorems here hold for every value of the constants that the
named assumptions allow. Each rests on an inductive invariant which TLC has checked on the
configuration of the run, and whose preservation is proved action by action.

### Leases

`LeaseProofs` proves, for any number of instances and crashes, any lease and timeout and, but
for the last theorem, any number of faults and any delay:

| Theorem | Statement | Hypotheses |
|---|---|---|
| `TypeCorrect` | `Spec => []TypeOK` | none |
| `HolderOwns` | `Spec => []HolderOwnsLock` | `ConditionalDelete` |
| `OneHolder` | `Spec => []MutualExclusion` | `ConditionalDelete` |
| `EpochsRise` | `Spec => TakeoverRaisesEpoch` | `ConditionalDelete` |
| `Refinement` | `Spec => ImplementsLeaseSpec` | `ConditionalDelete` |
| `LiveHolderKeeps` | `Spec => []LiveHolderKeepsLease` | `ConditionalDelete`, `MaxFaults = 0`, `Prompt` |

With a backend that needs HEAD then DELETE a late release can remove the lock object of a new
holder (`SyncProofs` and `sync_realtime` show what survives). The other assumptions are on constants: the lock key exists, instance ids are
distinct (`HolderAssumption`), times are natural numbers, `Absent` is no record.

`HolderOwnsLock` is not inductive: whether a holder keeps the lock object depends on what
other tasks have in flight, and on what a task was told but has not consumed. The inductive
invariant `LeaseInv` adds, for each task:

- `RequestOK`: what its request in flight can do, also after its sender crashed: write its
  own record over nothing, over an expired record with the next epoch, or over its own
  record of the same epoch; or delete its own record;
- `ControlOK`: which request belongs to which await and to which stage of the lease;
- `MemoryOK`: the records in its call and its entry are its own and end within a lease time;
- `BackedOK`: a grant that was answered, consumed or not, is backed by the lock object until
  it runs out; and the lock object names a task in `acquire` only if it is what its GET
  returned or what its PUT wrote. The last part is why comparing instance and epoch is
  enough in `verify_lease_landed`, and it is what fails with two threads of one instance.

The proof follows the steps: `StoreStepEffect` reduces the four store actions, retries
included, to one of three effects on the lock object; `MoverKeeps` shows that the task that
moves keeps its part of the invariant, one lemma per action; `OthersKeep` that it does not
disturb another task's, because an effect either leaves the lock object alone, or replaces
an expired record, or a record of the mover's own. Mutual exclusion follows because two
instances cannot own one object; the refinement because a grant is backed by ownership.

`LiveHolderKeeps` needs more than ownership: a renewal is conditional on the ETag in the entry,
so its holder must own exactly that version of the lock object. `KeptInv` says so, and that what
was granted has not run out. `Prompt` is `MaxLag < LeaseTime \div 2`: a renewal that is due with
half of the lease left is answered before the rest is over. The bound is sharp: with
`MaxLag = LeaseTime \div 2` TLC finds a holder whose lease runs out. With a fault the property
fails as listed under the runs.

### Sync manager

`SyncProofs` proves, for any number of instances, opens, writes and crashes and any timing:

| Theorem | Statement | Hypotheses |
|---|---|---|
| `TypeCorrect` | `Spec => []TypeOK` | none |
| `LockIsRespectedHolds` | `Spec => LockIsRespected` | `ConditionalDelete` |
| `LeaseOwnsLockHolds` | `Spec => []LeaseOwnsLock` | one thread, `ConditionalDelete` |
| `OneWriterHolds` | `Spec => []OneWriter` | one thread, `ConditionalDelete` |
| `LeaseHasDescriptorsHolds` | `Spec => []LeaseHasDescriptors` | one thread, no `"existing"` opens |
| `NoLostUpdateHolds` | `Spec => NoLostUpdate` | *data*, file locks |
| `SyncedIsStoredHolds` | `Spec => []SyncedIsStored` | *data*, file locks |
| `CleanCopyIsBaseHolds` | `Spec => []CleanCopyIsBase` | *data*, no unlinks |
| `NothingUnsentHolds` | `Spec => []NothingUnsent` | *data*, no unlinks |

*One thread* is `SingleThreaded`: one task for each instance, as in the static adapter and the
RPC server. *Data* is: one thread, no transport faults, no truncating opens. The hypotheses are
not idle; the table of violations under the runs has a counterexample for most of them:

- Two threads of one instance: one gives back the lock object that the other uses, or clears its
  dirty mark. `LockIsRespected`, which only speaks of what leaves an instance, survives.
- `"existing"` opens can fail locally after the hook took the lease.
- With a fault, `verify_upload_landed` can take another writer's version for its own.
- A truncating open discards updates on purpose, and is not pushed without a write.
- Without file locks the last writer wins.
- With unlinks, an object that was deleted elsewhere leaves the copy as it was. `NoLostUpdate`
  and `SyncedIsStored` need no such hypothesis, as they only speak of the time before the first
  unlink.

None of the data theorems needs `ConditionalDelete`, nor do leases have to last: updates are not
lost even when a lease runs out, or its lock object is removed by a late release, and its holder
goes on. The conditional PUT is what protects the data, and the lease only keeps two writers from
refusing each other.

The invariant comes in layers, each proved on top of the ones before:

- `BaseInv`, for any number of threads: types, which request belongs to which await of which
  operation, that a request for the lock object only writes or deletes a record of its own
  instance (enough for `LockIsRespected`), and that a queue has at most one delete (on which
  `RetainDelete` rests). `CountInv` adds that references and opens under way together do not
  exceed the opens there have been; without it the bound on reference counts in `TypeOK` is not
  inductive.
- `LeaseInv`: `StageOK` and `AskOK` (the lease entry, the lease call and its request are at the
  same stage), and, for a store with conditional deletes, `EpochOK`, `MemoryOK` and `BackedOK` as
  in `LeaseProofs`, here through all operations that acquire, renew and release.
- `RefsInv`: a lease entry that is not being released counts exactly the write descriptors, and
  an instance without such an entry has none, if leases are enabled.
- `RunningInv` and `DataInv`: the copy of an instance contains the version in its cache, which
  was stored once (`CopyOK`); a PUT in flight is conditional on a version whose updates it
  contains, whether or not its sender is alive (`PushOK`); a task in an upload pushes the current
  copy over the version in the cache, and every other difference between copy and cache is marked
  as dirty or queued (`FlowOK`). The hard part is the push of a
  queued upload: it has left the queue before its PUT is answered, so that meanwhile only the task
  knows of the difference, and a PUT that is refused has to end with a copy that was refreshed.

As in `LeaseProofs`, a step is first reduced to what it does to the task's operation, call and
request and to its instance, and then the mover and the others are treated separately.

### File data

`OpenFilesProofs` proves for any block size, any number of threads, calls and descriptors:

| Theorem | Statement |
|---|---|
| `ContentIsBytesHolds` | `Spec => []ContentIsBytes` |
| `ReadsHoldNoSurpriseHolds` | `Spec => []ReadsHoldNoSurprise` |
| `LateStoreIsHarmlessHolds` | `Spec => []LateStoreIsHarmless` |
| `AppendsKeepTheFileHolds` | `Spec => AppendsKeepTheFile` |

Assumed are `BlockAssumption` (a block has at least one byte, and a missing block is no block)
and `OpenFilesAssumption` (calls and flags are calls and flags). The first part of the module
is about the operators of `BlockStorage` alone: a write, a truncate, a read, a snapshot and a
restore agree with those on a sequence of bytes. `ContentIsBytes` is too weak for that: bytes
behind the end of the file would come back when it grows. `Agree` adds that there are none,
which is why `truncate` has to clear the rest of the last block. The inductive invariant is
`FileInv` (the file agrees with the bytes, and the inode knows its size), `HandlesInv` (a
descriptor number is the number of its open, and below the next one) and `TasksInv` (a call in
flight holds a descriptor number that was its own; what it read is the beginning of what it
should have read, and only zeros are missing). `LateStoreIsHarmless` follows from the numbers,
whatever has been closed, opened or restored since the call looked its descriptor up.

### The directory tree

`InodeTreeProofs` proves for any number of threads, names and calls, from any well-formed tree
(`TreeAssumption`):

| Theorem | Statement |
|---|---|
| `OneLinkHolds` | `Spec => []OneLink` |
| `RemovesWhatItCheckedHolds` | `Spec => RemovesWhatItChecked` |

`TreeInv` says that entries lead to inodes and that no two are the same one. A rename keeps
this only if the entry it moves still leads to the inode it has checked, or the tree has
changed in a way it finds out; `TasksInv` therefore says, step by step of each call, what the
call knows of the tree: the inodes it holds exist, and everything it has checked is still so as
long as `changes` has not moved on. `CreateTree`, `RemoveTree` and `MoveTree` are the three
things a step does to the tree, and each has one lemma that it keeps `TreeInv`.

### RPC

`RpcProofs` proves for any number of clients, adapters and others, any calls, faults and broken
connections:

| Theorem | Statement |
|---|---|
| `DescriptorsHaveSessionHolds` | `Spec => []DescriptorsHaveSession` |
| `LeaseCoversWritersHolds` | `Spec => []LeaseCoversWriters` |
| `BufferHasDescriptorHolds` | `Spec => []BufferHasDescriptor` |
| `WritesLandWhereMeantHolds` | `Spec => []WritesLandWhereMeant` |

The assumptions are those on the constants: `FilesAssumption`, `ServerAssumption`,
`AdapterAssumption` (what adapters open and what clients send are requests of the protocol, and
paths they open are in `Paths`). Nothing is assumed of when clients connect, how often, or, unless
`~config.any`, of whose descriptors they name; the last two properties say nothing when clients
use descriptors of others, where the code does not keep them (table above). One invariant proves
all four (`InvHolds`), because each needs the others:

- `ServerTypes`, `ClientTypes`: types, also of requests and answers in flight;
- `Disk`: the tree and the descriptors lead to inodes, files and objects hold writes that
  somebody made, and leases cover write descriptors;
- `LoopInv`, `SessionsInv`: how far a connection has got; that no two connections have one
  session and no two sessions one descriptor, and that an open descriptor which is not a stray
  is in the table of a session the server still has;
- `OwnInv`: who was given a descriptor. `KnownInv`: each number was given to one client, and
  there it is at one place, be it in a table or in an answer under way; `ApartInv`: an adapter's
  is no stray and in no session but its own; `HeldInv`, unless clients name descriptors of
  others: while its connection is up, the server has every descriptor the adapter needs;
- `CallInv`: what is left of each client's call. A `Write` that is still to be sent comes right
  after the `Seek` to the place it is meant for, or follows one that was answered; a request in
  flight belongs to the call; a stream's buffer lies behind what the stream has sent. Of the
  other clients it only says what requests they can make (`DirectOK`).

`WritesLandWhereMeant` needs all of `OwnInv`: seek and write are two requests on a position the
server keeps, which reads move as well, so a client whose descriptor another one names would
write anywhere. That is why the positions are only tracked unless `config.any` (`Steady`).
`DescriptorsHaveSession` and `LeaseCoversWriters` need neither: whoever closes a descriptor, it
leaves every table at once, and `on_close` runs once for it. `RpcServerProofs` has the server's
half, for clients of which it only assumes that they open paths in `Paths` and write what they
have recorded. The proof attempt found that `AdapterAssumption` did not say what it was meant to
(an implication took in the conjunct before it); it does now.

### Static adapter and native host

`WasiProofs` proves `LeaseCoversWritersHolds`: `Spec => []LeaseCoversWriters`, for any guests,
opens, streams, calls and configurations, and from no assumption. Here the property is not
inductive because of the order of the steps: an open has its reference before it has its
descriptor, and a drop loses the descriptor before `on_close` gives the reference back; in
between come other guests. `Claims` is the reference a call under way has a claim to: one for
an `on_close` that is left to do, one for a write open whose hook succeeded. The invariant says
that references cover descriptors and claims together (`Covered`), that what is left of a call
is an open, or hooks with at most one `on_close` (`Shape`), and that only a host that is being
shut down releases leases from outside. Each action then does one of five things with the three
counts: nothing (`Quiet`), a descriptor becomes a claim (`DropStep`), a reference and a claim
more (`OnOpenStep`), a claim becomes a descriptor (`OpenStep`), a reference and a claim less
(`OnCloseStep`). The inequality is as sharp as the code allows: an open that fails after its
hook leaves a reference without a claim. The proof attempt found that the model let "." be
opened again for writing, without a hook; the code opens it read-only
(`vfs-adapter/src/lib.rs:766`), and now so does the model.

### Model-checked only

- Liveness (`OpenDecided`, `Convergence`, `EveryCallReturns`, `DisconnectReleases`), which is
  out of the prover's reach.
- `FsyncIsDurable` of `RpcAdapter` and `WasiSystem`, `NothingForgotten` and
  `WritesLandWhereMeant` of `WasiSystem`: outside the configurations faults, renames and
  downloads break them (tables above), so they are not theorems of the specification.

## Not modelled

- Directory markers in S3 (`on_mkdir`, `on_rmdir`, marker keys in polls): in the frontends
  `mkdir` and `rmdir` are local.
- Clock skew. Several files in `SyncManager` (the sync layer treats each file on its own,
  except for the batch size of a flush and the renewal of several leases in one tick).
- Inbound polls in `SyncedFiles`: other instances do not write there; they do in `SyncManager`.
- WASI calls that only report (stat, flags, metadata hashes, directory streams), preopens,
  times; path parsing.
- RPC: messages in parts, `O_TRUNC`, the read-ahead of input streams, the encoding.
- Snapshots beyond a file's content: the tree of a snapshot is an initial state of `InodeTree`.
- HTTP transport and command line tool: no state of interest.

Two simplifications of what is modelled: in `SyncManager` a hook and the local open or close it
belongs to are one step (`NativeHost` has them as separate steps), and `ConditionalDelete` is fixed
for a run (the client finds out at its first rejected conditional delete and emulates it from
then on).

## Plan

1. `ObjectStore`, `Lease`, `LeaseHolder`, `LeaseSpec`, `SyncManager`, `LeaseProofs` (done).
2. `BlockStorage`, `OpenFiles`, `InodeTree`; `SyncedFiles` with `RpcServer`, `RpcAdapter`,
   `StaticAdapter`, `NativeHost` (done).
3. Proofs about file data, the tree, the RPC server and adapter, the static adapter and the
   host (done).
4. Proofs about `SyncManager`, and that a live holder keeps its lease (done).
5. Directory markers, as a module of their own on top of `ObjectStore`.
