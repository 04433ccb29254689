---------------------------- MODULE SyncManager ----------------------------
(***************************************************************************)
(* The sync manager (vfs-sync-core/src/sync_manager.rs) of several         *)
(* instances that share one file through the object store: open for write  *)
(* under a lease, writes, fsync, close, unlink, and the background tick    *)
(* (lease renewal, outbound flush, inbound poll), with lease.rs as it is   *)
(* in module Lease.                                                        *)
(*                                                                         *)
(* A task is a thread of an instance.  The RPC server and the statically   *)
(* composed adapter run the sync layer on one thread: one task for each    *)
(* instance.  The native host runs every hook on a thread of its own next  *)
(* to a background thread: several tasks for an instance.  A mutex is      *)
(* never held across an await, so every step between two awaits is one     *)
(* action and tasks interleave at the awaits.                              *)
(*                                                                         *)
(* The content of the file is the set of updates (numbered writes) that it *)
(* contains: a write adds its number to what the local copy contains.      *)
(***************************************************************************)
EXTENDS Lease, Sequences

CONSTANTS
    FileLocks,   \* the settings of VFS_S3_FILE_LOCK: whether leases are enabled
    Realtime,    \* VFS_SYNC_MODE=realtime: every write is pushed at once
    Inbound,     \* the inbound mechanisms in use: "poll", "read", "check"
    OpenModes,   \* how the file is opened: "existing", "create", "truncate"
    FsyncMarks,  \* the frontend registers a write before it calls on_fsync (static
                 \* adapter, native host), or does not (RPC server)
    OrphanWrites,\* applications write through descriptors of an unlinked file
    MaxOpens,    \* bounds on what the applications do
    MaxWrites,
    MaxUnlinks,
    MaxCrashes

ASSUME ManagerAssumption ==
    /\ "file" \in Keys
    /\ FileLocks \union {Realtime, FsyncMarks, OrphanWrites} \subseteq BOOLEAN
    /\ Inbound \subseteq {"poll", "read", "check"}
    /\ OpenModes \subseteq {"existing", "create", "truncate"}
    /\ {MaxOpens, MaxWrites, MaxUnlinks, MaxCrashes} \subseteq Nat

\* What the file key and the lock key hold.
Files == [updates : SUBSET (1 .. MaxWrites)]
Contents == Files \union {Absent}
Records == [instance : Instances \union {NoInstance}, epoch : Nat, expires : Nat]
LockETags == Records \union {Absent}

ASSUME AbsentAssumption == Absent \notin Files /\ Absent \notin Records

VARIABLES
    fileLock, \* the setting of VFS_S3_FILE_LOCK, which does not change
    local,    \* instance -> content of its copy, or Absent
    cache,    \* instance -> ETag in its metadata cache, or Absent
    leases,   \* instance -> the WriteLease entry of the file, or NoLease
    queue,    \* instance -> outbound_queue
    fds,      \* instance -> write descriptors open on the file at the path,
              \* and on a file unlinked from it
    status,   \* instance -> "new", "up" or "dead"
    task,     \* task -> the operation it is executing
    used,     \* how many opens, writes, unlinks and crashes there have been
    synced    \* history: the updates that an fsync has reported as stored

localVars == <<local, cache, leases, queue, fds, status>>
vars == <<fileLock, leaseVars, localVars, task, used, synced>>

object == store["file"]

\* The content of a file that holds the given updates.
File(updates) == [updates |-> updates]
EmptyFile == File({})

NoLease == [held |-> FALSE, base |-> Absent, etag |-> Absent, epoch |-> 0,
            expires |-> 0, refcount |-> 0, dirty |-> FALSE,
            pendingDelete |-> FALSE, lost |-> FALSE, releasing |-> FALSE]

\* SyncOperation
Upload == [kind |-> "upload", etag |-> Absent]
Delete(etag) == [kind |-> "delete", etag |-> etag]

\* op: the operation; pc: the await it is suspended at; mode: of an open;
\* content, base, force: of the upload in progress (force: Precondition::None);
\* snap: the lock ETag in on_close's snapshot of the lease.
Idle == [op |-> "none", pc |-> "idle", mode |-> "none", content |-> EmptyFile,
         base |-> Absent, force |-> FALSE, snap |-> Absent]

Ops == {"none", "open", "close", "fsync", "write", "flush", "renew", "poll",
        "read", "check", "boot"}
Pcs == {"idle", "acquire", "giveback", "head", "get", "upload", "recreate",
        "uploadHead", "verify", "refresh", "leaseDelete", "release",
        "queueDelete", "renew", "list"}

I(t) == InstanceOf[t]

Init ==
    /\ fileLock \in FileLocks
    /\ \E o \in {Absent, EmptyFile} :
          StoreInit([k \in Keys |-> IF k = "file" THEN o ELSE Absent])
    /\ LeaseInit
    /\ local = [i \in Instances |-> Absent]
    /\ cache = [i \in Instances |-> Absent]
    /\ leases = [i \in Instances |-> NoLease]
    /\ queue = [i \in Instances |-> <<>>]
    /\ fds = [i \in Instances |-> [linked |-> 0, orphan |-> 0]]
    /\ status = [i \in Instances |-> "new"]
    /\ task = [t \in Tasks |-> Idle]
    /\ used = [open |-> 0, write |-> 0, unlink |-> 0, crash |-> 0]
    /\ synced = {}

-----------------------------------------------------------------------------
(***************************************************************************)
(* Steps shared by the operations.                                         *)
(***************************************************************************)

Ready(t) == status[I(t)] = "up" /\ task[t].pc = "idle"

\* t is suspended at pc and its response has arrived.
Resumes(t, pc) == task[t].pc = pc /\ Answered(t)

\* t sends a request and suspends at pc.
Await(t, pc, r) ==
    /\ task' = [task EXCEPT ![t].pc = pc]
    /\ Send(t, r)

\* The operation of t ends.
Finish(t) ==
    /\ task' = [task EXCEPT ![t] = Idle]
    /\ Send(t, NoRequest)

\* The local open after the hook: "existing" fails when there is no file.
LocalOpen(i, mode) ==
    IF mode = "existing" /\ local[i] = Absent
    THEN UNCHANGED <<local, fds>>
    ELSE /\ fds' = [fds EXCEPT ![i].linked = @ + 1]
         /\ local' = [local EXCEPT ![i] = IF mode = "truncate" \/ @ = Absent THEN EmptyFile ELSE @]

\* The file is unlinked locally; descriptors keep the file they have open.
LocalUnlink(i) ==
    /\ local' = [local EXCEPT ![i] = Absent]
    /\ fds' = [fds EXCEPT ![i] = [linked |-> 0, orphan |-> @.linked + @.orphan]]

\* After a PUT or a download: the held lease is clean and based on etag.
Rebase(i, etag) ==
    leases' = [leases EXCEPT ![i] =
        IF @.held THEN [@ EXCEPT !.base = etag, !.dirty = FALSE] ELSE @]

\* Local copy and cache take over a downloaded object.
Download(i, content) ==
    /\ local' = [local EXCEPT ![i] = content]
    /\ cache' = [cache EXCEPT ![i] = content]

\* Mutant: the write is not registered.
ForgetUpload(i) ==
    UNCHANGED <<leases, queue>>

\* enqueue_upload
EnqueueUpload(i) ==
    IF leases[i].held
    THEN /\ leases' = [leases EXCEPT ![i].dirty = TRUE, ![i].pendingDelete = FALSE]
         /\ UNCHANGED queue
    ELSE /\ queue' = [queue EXCEPT ![i] = <<Upload>>]
         /\ UNCHANGED leases

\* Mutant: a leased unlink drops the upload and forgets the delete.
ForgetDelete(i) ==
    IF leases[i].held
    THEN /\ leases' = [leases EXCEPT ![i].dirty = FALSE]
         /\ UNCHANGED <<queue, cache>>
    ELSE /\ queue' = [queue EXCEPT ![i] = <<Delete(cache[i])>>]
         /\ cache' = [cache EXCEPT ![i] = Absent]
         /\ UNCHANGED leases

\* enqueue_delete
EnqueueDelete(i) ==
    IF leases[i].held
    THEN /\ leases' = [leases EXCEPT ![i].pendingDelete = TRUE, ![i].dirty = FALSE]
         /\ UNCHANGED <<queue, cache>>
    ELSE /\ queue' = [queue EXCEPT ![i] = <<Delete(cache[i])>>]
         /\ cache' = [cache EXCEPT ![i] = Absent]
         /\ UNCHANGED leases

\* What on_open_write retains of the queue when it takes the uploads out: the
\* delete.  There is at most one (enqueue_delete drops what was queued before).
RetainDelete(q) ==
    LET deletes == {n \in 1 .. Len(q) : q[n] # Upload} IN
    IF deletes = {} THEN <<>> ELSE <<q[CHOOSE n \in deletes : TRUE]>>

\* cond_for_upload: the lease base if held, else the cached ETag.
CondForUpload(i) == IF leases[i].held THEN leases[i].base ELSE cache[i]

\* Mutant: the content is pushed without a condition.
StartUploadBlind(t, op, content, base, snap) ==
    /\ task' = [task EXCEPT ![t].op = op, ![t].pc = "upload", ![t].content = content,
                            ![t].base = base, ![t].force = FALSE, ![t].snap = snap]
    /\ Send(t, PutAlways("file", content))

\* upload_with_cond up to its first await: operation op of t pushes content.
\* (The S3 metadata mode's existence probes have no effect and are left out.)
StartUpload(t, op, content, base, snap) ==
    /\ task' = [task EXCEPT ![t].op = op, ![t].pc = "upload", ![t].content = content,
                            ![t].base = base, ![t].force = FALSE, ![t].snap = snap]
    /\ Send(t, PutIf("file", base, content))

\* lease::release of etag; what follows depends on the operation.
StartRelease(t, op, etag) ==
    /\ task' = [task EXCEPT ![t].op = op, ![t].pc = "release"]
    /\ CallRelease(t, etag)

\* on_open_write gives the lock back and fails.
OpenAbort(t) == StartRelease(t, "open", call[t].etag)

\* on_open_write inserts the lease entry, and the file is opened locally.
OpenInsert(t, base) ==
    LET i == I(t) IN
    /\ leases' = [leases EXCEPT ![i] =
          [NoLease EXCEPT !.held = TRUE, !.base = base, !.refcount = 1,
                          !.etag = call[t].etag, !.epoch = call[t].body.epoch,
                          !.expires = call[t].body.expires]]
    /\ call' = [call EXCEPT ![t] = NoCall]
    /\ Finish(t)

\* The push of a change is over, with or without success.
Proceed(t) ==
    CASE task[t].op = "open"  -> OpenAbort(t)
      [] task[t].op = "close" -> StartRelease(t, "close", task[t].snap)
      [] OTHER                -> Finish(t) /\ UNCHANGED call

-----------------------------------------------------------------------------
(***************************************************************************)
(* upload_with_cond, the conflict handling around it, and                  *)
(* refresh_local_from_remote.                                              *)
(***************************************************************************)

\* The PUT counts as done and the object's ETag as etag.
UploadOk(t, etag) ==
    LET i == I(t) IN
    /\ cache' = [cache EXCEPT ![i] = etag]
    /\ IF task[t].op = "open"
       THEN OpenInsert(t, etag) /\ LocalOpen(i, task[t].mode)
       ELSE Rebase(i, etag) /\ Proceed(t) /\ UNCHANGED <<local, fds>>
    /\ synced' = IF task[t].op = "fsync" THEN synced \union task[t].content.updates ELSE synced
    /\ UNCHANGED queue

\* Not stored.  A queued upload is queued again.
UploadError(t) ==
    /\ Proceed(t)
    /\ queue' = IF task[t].op = "flush"
                THEN [queue EXCEPT ![I(t)] = Append(@, Upload)] ELSE queue
    /\ UNCHANGED <<local, cache, leases, fds, synced>>

\* Mutant: a rejected PUT counts as done.
ConflictIgnored(t) ==
    UploadOk(t, task[t].content) /\ UNCHANGED status

\* Rejected with 412.  Without leases the last writer wins: push again without
\* a condition.  With leases the stored version wins.
UploadConflict(t) ==
    LET content == local[I(t)] IN
    IF fileLock
    THEN /\ Await(t, "refresh", Get("file"))
         /\ UNCHANGED <<localVars, call, synced>>
    ELSE \/ /\ content # Absent
            /\ task' = [task EXCEPT ![t].pc = "upload", ![t].content = content,
                                    ![t].force = TRUE]
            /\ Send(t, PutAlways("file", content))
            /\ UNCHANGED <<localVars, call, synced>>
         \/ content = Absent /\ UploadError(t) /\ UNCHANGED status

\* The PUT was answered.
UploadPut(t) ==
    LET st == resp[t].status
        create == ~task[t].force /\ task[t].base = Absent
        update == ~task[t].force /\ task[t].base # Absent IN
    /\ Resumes(t, "upload")
    /\ \/ st = "ok" /\ UploadOk(t, resp[t].val) /\ UNCHANGED status
       \/ \* deleted concurrently: the local write is newer, create it again
          /\ st = "notFound" /\ update
          /\ Await(t, "recreate", PutIf("file", Absent, task[t].content))
          /\ UNCHANGED <<localVars, call, synced>>
       \/ \* a 412 on a create may be spurious
          /\ st = "precondition" /\ create
          /\ Await(t, "uploadHead", Get("file"))
          /\ UNCHANGED <<localVars, call, synced>>
       \/ st = "precondition" /\ update /\ UploadConflict(t)
       \/ \* a transport error may hide a PUT that landed
          /\ st = "error"
          /\ Await(t, "verify", Get("file"))
          /\ UNCHANGED <<localVars, call, synced>>
    /\ UNCHANGED <<store, faults, now, used>>

\* HEAD after the 412: a real conflict, or create again.
UploadHead(t) ==
    /\ Resumes(t, "uploadHead")
    /\ \/ /\ resp[t].status = "ok" /\ resp[t].val = Absent
          /\ Await(t, "recreate", PutIf("file", Absent, task[t].content))
          /\ UNCHANGED <<localVars, call, synced>>
       \/ resp[t].status = "ok" /\ resp[t].val # Absent /\ UploadConflict(t)
       \/ resp[t].status = "error" /\ UploadError(t) /\ UNCHANGED status
    /\ UNCHANGED <<store, faults, now, used>>

\* The second PUT, a create, was answered.
UploadRecreate(t) ==
    /\ Resumes(t, "recreate")
    /\ \/ resp[t].status = "ok" /\ UploadOk(t, resp[t].val) /\ UNCHANGED status
       \/ resp[t].status = "precondition" /\ UploadConflict(t)
       \/ resp[t].status = "error" /\ UploadError(t) /\ UNCHANGED status
    /\ UNCHANGED <<store, faults, now, used>>

\* verify_upload_landed: a create landed if there is an object now, an update
\* if the object is not the base any more.
UploadLanded(t) ==
    /\ resp[t].status = "ok" /\ resp[t].val # Absent
    /\ ~task[t].force
    /\ resp[t].val # task[t].base

UploadVerified(t) ==
    /\ Resumes(t, "verify")
    /\ \/ UploadLanded(t) /\ UploadOk(t, resp[t].val)
       \/ ~UploadLanded(t) /\ UploadError(t)
    /\ UNCHANGED <<store, faults, now, used, status>>

\* Mutant: the stored version goes to the cache but not to the local copy.
RefreshedCacheOnly(t) ==
    LET i == I(t) IN
    /\ Resumes(t, "refresh")
    /\ cache' = [cache EXCEPT ![i] = resp[t].val]
    /\ Rebase(i, resp[t].val)
    /\ Proceed(t)
    /\ UNCHANGED <<store, faults, now, local, queue, fds, status, used, synced>>

\* refresh_local_from_remote
Refreshed(t) ==
    LET i == I(t)
        val == resp[t].val IN
    /\ Resumes(t, "refresh")
    /\ \/ resp[t].status = "ok" /\ val # Absent /\ Download(i, val) /\ Rebase(i, val)
       \/ /\ resp[t].status = "ok" /\ val = Absent
          /\ cache' = [cache EXCEPT ![i] = Absent]
          /\ leases' = [leases EXCEPT ![i].base = Absent]
          /\ UNCHANGED local
       \/ resp[t].status = "error" /\ UNCHANGED <<local, cache, leases>>
    /\ Proceed(t)
    /\ UNCHANGED <<store, faults, now, queue, fds, status, used, synced>>

-----------------------------------------------------------------------------
(***************************************************************************)
(* on_open_write and the local open.                                       *)
(***************************************************************************)

\* Mutant: joining the held lease does not count the descriptor.
OpenWriteUncounted(t) ==
    LET i == I(t) IN
    /\ Ready(t) /\ used.open < MaxOpens
    /\ used' = [used EXCEPT !.open = @ + 1]
    /\ \E mode \in OpenModes :
          \/ /\ leases[i].held /\ ~leases[i].releasing
             /\ LocalOpen(i, mode)
             /\ UNCHANGED <<leases, task, call, req, resp>>
          \/ /\ ~leases[i].held
             /\ task' = [task EXCEPT ![t] = [Idle EXCEPT !.op = "open", !.pc = "acquire",
                                                         !.mode = mode]]
             /\ CallAcquire(t)
             /\ UNCHANGED <<leases, local, fds>>
    /\ UNCHANGED <<store, faults, now, cache, queue, status, synced>>

\* Join the lease this instance already holds (an entry that is being released
\* is waited for), or acquire one; without leases just open.
OpenWrite(t) ==
    LET i == I(t) IN
    /\ Ready(t) /\ used.open < MaxOpens
    /\ used' = [used EXCEPT !.open = @ + 1]
    /\ \E mode \in OpenModes :
          \/ /\ ~fileLock
             /\ LocalOpen(i, mode)
             /\ UNCHANGED <<leases, task, call, req, resp>>
          \/ /\ fileLock /\ leases[i].held /\ ~leases[i].releasing
             /\ leases' = [leases EXCEPT ![i].refcount = @ + 1]
             /\ LocalOpen(i, mode)
             /\ UNCHANGED <<task, call, req, resp>>
          \/ /\ fileLock /\ ~leases[i].held
             /\ task' = [task EXCEPT ![t] = [Idle EXCEPT !.op = "open", !.pc = "acquire",
                                                         !.mode = mode]]
             /\ CallAcquire(t)
             /\ UNCHANGED <<leases, local, fds>>
    /\ UNCHANGED <<store, faults, now, cache, queue, status, synced>>

\* acquire failed: Busy, or an error.
OpenFailed(t) ==
    /\ task[t].pc = "acquire" /\ Pc(t) \in {"busy", "failed"}
    /\ call' = [call EXCEPT ![t] = NoCall]
    /\ Finish(t)
    /\ UNCHANGED <<store, faults, now, localVars, used, synced>>

\* acquire succeeded.  Another thread may have inserted an entry meanwhile:
\* join it and give the lock back.  A queued upload is pushed first.  Else
\* compare ETags.
OpenAcquired(t) ==
    LET i == I(t)
        pending == \E n \in 1 .. Len(queue[i]) : queue[i][n] = Upload IN
    /\ task[t].pc = "acquire" /\ Pc(t) = "acquired"
    /\ \/ /\ leases[i].held
          /\ leases' = [leases EXCEPT ![i].refcount = @ + 1]
          /\ task' = [task EXCEPT ![t].pc = "giveback"]
          /\ CallRelease(t, call[t].etag)
          /\ UNCHANGED queue
       \/ /\ ~leases[i].held /\ pending
          /\ queue' = [queue EXCEPT ![i] = RetainDelete(@)]
          /\ IF local[i] = Absent THEN OpenAbort(t)
             ELSE StartUpload(t, "open", local[i], cache[i], Absent) /\ UNCHANGED call
          /\ UNCHANGED leases
       \/ /\ ~leases[i].held /\ ~pending
          /\ Await(t, "head", Get("file"))
          /\ UNCHANGED <<leases, queue, call>>
    /\ UNCHANGED <<store, faults, now, local, cache, fds, status, used, synced>>

\* The end of head_and_refresh: of an open, with base as the object's ETag, or
\* of a metadata check.
HeadDone(t, base) ==
    IF task[t].op = "open" THEN OpenInsert(t, base)
    ELSE Finish(t) /\ UNCHANGED <<leases, call>>

\* Mutant: the ETag of the HEAD is pinned and the object not fetched.
HeadPinned(t) ==
    LET i == I(t) IN
    /\ Resumes(t, "head") /\ resp[t].status = "ok"
    /\ HeadDone(t, resp[t].val)
    /\ IF task[t].op = "open" THEN LocalOpen(i, task[t].mode) ELSE UNCHANGED <<local, fds>>
    /\ UNCHANGED <<store, faults, now, cache, queue, status, used, synced>>

\* head_and_refresh: the HEAD was answered; GET the object unless it is the
\* one in the cache, or gone.
HeadAnswered(t) ==
    LET i == I(t)
        val == resp[t].val IN
    /\ Resumes(t, "head")
    /\ \/ /\ resp[t].status = "ok" /\ val \in {Absent, cache[i]}
          /\ HeadDone(t, val)
          /\ IF task[t].op = "open" THEN LocalOpen(i, task[t].mode)
             ELSE UNCHANGED <<local, fds>>
       \/ /\ resp[t].status = "ok" /\ val \notin {Absent, cache[i]}
          /\ Await(t, "get", Get("file"))
          /\ UNCHANGED <<leases, call, local, fds>>
       \/ /\ resp[t].status = "error"
          /\ Proceed(t)
          /\ UNCHANGED <<leases, local, fds>>
    /\ UNCHANGED <<store, faults, now, cache, queue, status, used, synced>>

\* ... and its GET: the copy is replaced, then (op "open") opened, which
\* empties it in mode "truncate".
HeadGot(t) ==
    LET i == I(t)
        val == resp[t].val
        opens == task[t].op = "open" IN
    /\ Resumes(t, "get") /\ task[t].op \in {"open", "check"}
    /\ \/ /\ resp[t].status = "ok" /\ val # Absent
          /\ HeadDone(t, val)
          /\ cache' = [cache EXCEPT ![i] = val]
          /\ local' = [local EXCEPT ![i] = IF opens /\ task[t].mode = "truncate"
                                           THEN EmptyFile ELSE val]
          /\ fds' = [fds EXCEPT ![i].linked = IF opens THEN @ + 1 ELSE @]
       \/ /\ resp[t].status = "ok" /\ val = Absent
          /\ HeadDone(t, Absent)
          /\ IF opens THEN LocalOpen(i, task[t].mode) ELSE UNCHANGED <<local, fds>>
          /\ UNCHANGED cache
       \/ /\ resp[t].status = "error"
          /\ Proceed(t)
          /\ UNCHANGED <<leases, local, cache, fds>>
    /\ UNCHANGED <<store, faults, now, queue, status, used, synced>>

\* release returned.
Released(t) ==
    LET i == I(t) IN
    /\ task[t].pc \in {"release", "giveback"} /\ Pc(t) = "released"
    /\ call' = [call EXCEPT ![t] = NoCall]
    /\ Finish(t)
    /\ leases' = IF task[t].op = "close" THEN [leases EXCEPT ![i] = NoLease] ELSE leases
    /\ IF task[t].pc = "giveback" THEN LocalOpen(i, task[t].mode)
       ELSE UNCHANGED <<local, fds>>
    /\ UNCHANGED <<store, faults, now, cache, queue, status, used, synced>>

-----------------------------------------------------------------------------
(***************************************************************************)
(* Writes, unlink, fsync and close.                                        *)
(***************************************************************************)

\* A write through a descriptor of the file, or of a file unlinked from the
\* path (the path's copy is then untouched), and the write hook.
Write(t) ==
    LET i == I(t)
        update == used.write + 1 IN
    /\ Ready(t) /\ used.write < MaxWrites
    /\ used' = [used EXCEPT !.write = update]
    /\ \E content \in
            (IF fds[i].linked > 0 THEN {File(local[i].updates \union {update})} ELSE {})
            \union (IF fds[i].orphan > 0 /\ OrphanWrites THEN {local[i]} ELSE {}) :
          /\ local' = [local EXCEPT ![i] = content]
          /\ IF ~Realtime
             THEN EnqueueUpload(i) /\ UNCHANGED <<task, req, resp>>
             ELSE /\ IF content = Absent THEN UNCHANGED <<task, req, resp>>
                     ELSE StartUpload(t, "write", content, CondForUpload(i), Absent)
                  /\ UNCHANGED <<leases, queue>>
    /\ UNCHANGED <<store, faults, now, call, cache, fds, status, synced>>

\* Unlink, and the delete hook.
Unlink(t) ==
    LET i == I(t) IN
    /\ Ready(t) /\ used.unlink < MaxUnlinks /\ local[i] # Absent
    /\ used' = [used EXCEPT !.unlink = @ + 1]
    /\ LocalUnlink(i)
    /\ EnqueueDelete(i)
    /\ UNCHANGED <<store, faults, now, req, resp, call, status, task, synced>>

\* flush_lease on the snapshot l of the lease, by op ("close" or "fsync").
FlushLease(t, op, l) ==
    LET i == I(t)
        afterwards == IF op = "close" THEN StartRelease(t, op, l.etag)
                      ELSE Finish(t) /\ UNCHANGED call IN
    CASE l.pendingDelete /\ l.base # Absent ->
            /\ task' = [task EXCEPT ![t].op = op, ![t].pc = "leaseDelete", ![t].snap = l.etag]
            /\ Send(t, DeleteIf("file", l.base))
            /\ UNCHANGED <<call, cache>>
      [] l.pendingDelete /\ l.base = Absent ->
            afterwards /\ cache' = [cache EXCEPT ![i] = Absent]
      [] ~l.pendingDelete /\ l.dirty /\ local[i] # Absent ->
            StartUpload(t, op, local[i], l.base, l.etag) /\ UNCHANGED <<call, cache>>
      [] OTHER -> afterwards /\ UNCHANGED cache

\* on_fsync, after the frontend's enqueue_upload if it makes one.
Fsync(t) ==
    LET i == I(t)
        l == IF FsyncMarks /\ leases[i].held
             THEN [leases[i] EXCEPT !.dirty = TRUE, !.pendingDelete = FALSE] ELSE leases[i]
        clean == l.held /\ ~l.dirty /\ ~l.pendingDelete IN
    /\ Ready(t) /\ fds[i].linked + fds[i].orphan > 0
    /\ IF FsyncMarks THEN EnqueueUpload(i) ELSE UNCHANGED <<leases, queue>>
    /\ CASE l.held -> FlushLease(t, "fsync", l)
         [] ~l.held /\ local[i] # Absent ->
               StartUpload(t, "fsync", local[i], cache[i], Absent) /\ UNCHANGED <<call, cache>>
         [] OTHER -> UNCHANGED <<task, req, resp, call, cache>>
    /\ synced' = IF clean /\ local[i] # Absent THEN synced \union local[i].updates ELSE synced
    /\ UNCHANGED <<store, faults, now, local, fds, status, used>>

\* The delete of an unlinked, leased file was answered.
LeaseDeleted(t) ==
    LET i == I(t) IN
    /\ Resumes(t, "leaseDelete")
    /\ \/ /\ resp[t].status = "ok"
          /\ cache' = [cache EXCEPT ![i] = Absent]
          /\ Proceed(t)
       \/ /\ resp[t].status = "precondition"
          /\ Await(t, "refresh", Get("file"))
          /\ UNCHANGED <<cache, call>>
       \/ /\ resp[t].status = "error"
          /\ Proceed(t)
          /\ UNCHANGED cache
    /\ UNCHANGED <<store, faults, now, local, leases, queue, fds, status, used, synced>>

\* Mutant: the last descriptor is counted down like the others.
CloseCountsDown(t) ==
    LET i == I(t) IN
    /\ Ready(t)
    /\ \E kind \in {k \in {"linked", "orphan"} : fds[i][k] > 0} :
          fds' = [fds EXCEPT ![i][kind] = @ - 1]
    /\ leases' = [leases EXCEPT ![i].refcount = IF @ > 0 THEN @ - 1 ELSE @]
    /\ UNCHANGED <<store, faults, now, local, queue, status, used, synced,
                   cache, task, call, req, resp>>

\* A write descriptor is closed, and on_close: the last one pushes what is
\* pending and then releases the lease.
Close(t) ==
    LET i == I(t)
        l == leases[i] IN
    /\ Ready(t)
    /\ \E kind \in {k \in {"linked", "orphan"} : fds[i][k] > 0} :
          fds' = [fds EXCEPT ![i][kind] = @ - 1]
    /\ \/ /\ ~l.held
          /\ UNCHANGED <<leases, cache, task, call, req, resp>>
       \/ /\ l.held /\ l.refcount > 1
          /\ leases' = [leases EXCEPT ![i].refcount = @ - 1]
          /\ UNCHANGED <<cache, task, call, req, resp>>
       \/ /\ l.held /\ l.refcount <= 1
          /\ leases' = [leases EXCEPT ![i].releasing = TRUE]
          /\ FlushLease(t, "close", l)
    /\ UNCHANGED <<store, faults, now, local, queue, status, used, synced>>

-----------------------------------------------------------------------------
(***************************************************************************)
(* maybe_sync: renew_leases, flush_outbound and poll_inbound.  Each runs   *)
(* when its timer says so; the timers are left out, so each may run        *)
(* whenever the task is free, in any order.                                *)
(***************************************************************************)

\* renew_leases, for a lease with at most half of its time left.
Renew(t) ==
    LET l == leases[I(t)] IN
    /\ Ready(t) /\ l.held /\ ~l.releasing /\ ~l.lost
    /\ l.expires <= now + LeaseTime \div 2
    /\ task' = [task EXCEPT ![t].op = "renew", ![t].pc = "renew"]
    /\ CallRenew(t, l.epoch, l.etag)
    /\ UNCHANGED <<store, faults, now, localVars, used, synced>>

Renewed(t) ==
    LET i == I(t) IN
    /\ task[t].pc = "renew" /\ Pc(t) \in {"renewed", "lost", "renewFailed"}
    /\ leases' = [leases EXCEPT ![i] =
          CASE @.held /\ Pc(t) = "renewed" ->
                  [@ EXCEPT !.etag = call[t].etag, !.expires = call[t].body.expires]
            [] @.held /\ Pc(t) = "lost" -> [@ EXCEPT !.lost = TRUE]
            [] OTHER -> @]
    /\ call' = [call EXCEPT ![t] = NoCall]
    /\ Finish(t)
    /\ UNCHANGED <<store, faults, now, local, cache, queue, fds, status, used, synced>>

\* flush_outbound, one operation of the queue: a realtime or leased upload is
\* dropped; one whose file is gone goes to the back of the queue.
Flush(t) ==
    LET i == I(t)
        op == Head(queue[i]) IN
    /\ Ready(t) /\ queue[i] # <<>>
    /\ Realtime => \E n \in 1 .. Len(queue[i]) : queue[i][n].kind = "delete"
    /\ \/ /\ op.kind = "upload" /\ (Realtime \/ leases[i].held)
          /\ queue' = [queue EXCEPT ![i] = Tail(@)]
          /\ UNCHANGED <<task, req, resp>>
       \/ /\ op.kind = "upload" /\ ~Realtime /\ ~leases[i].held /\ local[i] = Absent
          /\ queue' = [queue EXCEPT ![i] = Append(Tail(@), Upload)]
          /\ UNCHANGED <<task, req, resp>>
       \/ /\ op.kind = "upload" /\ ~Realtime /\ ~leases[i].held /\ local[i] # Absent
          /\ queue' = [queue EXCEPT ![i] = Tail(@)]
          /\ StartUpload(t, "flush", local[i], cache[i], Absent)
       \/ /\ op.kind = "delete"
          /\ queue' = [queue EXCEPT ![i] = Tail(@)]
          /\ task' = [task EXCEPT ![t].op = "flush", ![t].pc = "queueDelete"]
          /\ Send(t, DeleteIf("file", op.etag))
    /\ UNCHANGED <<store, faults, now, call, local, cache, leases, fds, status, used, synced>>

\* flush_delete: on a 412 the stored version is restored locally, or (leases
\* disabled) deleted anyway; an error is only logged.
QueueDeleted(t) ==
    /\ Resumes(t, "queueDelete")
    /\ \/ resp[t].status \in {"ok", "error"} /\ Finish(t)
       \/ resp[t].status = "precondition" /\ fileLock /\ Await(t, "refresh", Get("file"))
       \/ /\ resp[t].status = "precondition" /\ ~fileLock
          /\ Await(t, "queueDelete", DeleteIf("file", Absent))
    /\ UNCHANGED <<store, faults, now, call, localVars, used, synced>>

\* poll_inbound: LIST ...
Poll(t) ==
    /\ Ready(t) /\ "poll" \in Inbound
    /\ task' = [task EXCEPT ![t].op = "poll", ![t].pc = "list"]
    /\ Send(t, Get("file"))
    /\ UNCHANGED <<store, faults, now, call, localVars, used, synced>>

\* Mutant: files that are not listed any more stay.
PollListedKeeps(t) ==
    LET i == I(t)
        val == resp[t].val
        download == /\ resp[t].status = "ok" /\ val \notin {Absent, cache[i]}
                    /\ ~leases[i].held /\ queue[i] = <<>> IN
    /\ Resumes(t, "list") /\ task[t].op = "poll"
    /\ \/ download /\ Await(t, "get", Get("file"))
       \/ ~download /\ Finish(t)
    /\ UNCHANGED <<store, faults, now, call, localVars, used, synced>>

\* ... then download a listed file that is not the cached one, or delete a
\* cached file that is not listed; leased files and files with a queued
\* operation are left alone.
PollListed(t) ==
    LET i == I(t)
        val == resp[t].val
        mine == leases[i].held \/ queue[i] # <<>>
        download == resp[t].status = "ok" /\ val \notin {Absent, cache[i]} /\ ~mine
        remove == resp[t].status = "ok" /\ val = Absent /\ cache[i] # Absent /\ ~mine
                  /\ local[i] # Absent IN
    /\ Resumes(t, "list") /\ task[t].op = "poll"
    /\ \/ download /\ Await(t, "get", Get("file")) /\ UNCHANGED <<local, fds, cache>>
       \/ /\ remove
          /\ LocalUnlink(i) /\ cache' = [cache EXCEPT ![i] = Absent]
          /\ Finish(t)
       \/ ~download /\ ~remove /\ Finish(t) /\ UNCHANGED <<local, fds, cache>>
    /\ UNCHANGED <<store, faults, now, call, leases, queue, status, used, synced>>

\* refresh_file_from_s3, before the first read of a descriptor.
Read(t) ==
    /\ Ready(t) /\ "read" \in Inbound /\ ~leases[I(t)].held
    /\ task' = [task EXCEPT ![t].op = "read", ![t].pc = "get"]
    /\ Send(t, Get("file"))
    /\ UNCHANGED <<store, faults, now, call, localVars, used, synced>>

\* check_and_refresh_from_s3, when a file is opened for reading.
Check(t) ==
    /\ Ready(t) /\ "check" \in Inbound /\ ~leases[I(t)].held
    /\ task' = [task EXCEPT ![t].op = "check", ![t].pc = "head"]
    /\ Send(t, Get("file"))
    /\ UNCHANGED <<store, faults, now, call, localVars, used, synced>>

\* populate_from_s3: a starting instance lists the store ...
Boot(t) ==
    /\ status[I(t)] = "new" /\ \A s \in Tasks : I(s) = I(t) => task[s].pc = "idle"
    /\ task' = [task EXCEPT ![t].op = "boot", ![t].pc = "list"]
    /\ Send(t, Get("file"))
    /\ UNCHANGED <<store, faults, now, call, localVars, used, synced>>

\* ... and loads what is listed; when the listing fails, so does the start.
BootListed(t) ==
    /\ Resumes(t, "list") /\ task[t].op = "boot"
    /\ \/ /\ resp[t].status = "ok" /\ resp[t].val # Absent
          /\ Await(t, "get", Get("file"))
          /\ UNCHANGED status
       \/ /\ resp[t].status = "ok" /\ resp[t].val = Absent
          /\ Finish(t)
          /\ status' = [status EXCEPT ![I(t)] = "up"]
       \/ resp[t].status = "error" /\ Finish(t) /\ UNCHANGED status
    /\ UNCHANGED <<store, faults, now, call, local, cache, leases, queue, fds, used, synced>>

\* The GET of a poll, a read or a boot was answered.
Got(t) ==
    LET i == I(t)
        val == resp[t].val IN
    /\ Resumes(t, "get") /\ task[t].op \in {"poll", "read", "boot"}
    /\ IF resp[t].status = "ok" /\ val # Absent
       THEN Download(i, val) ELSE UNCHANGED <<local, cache>>
    /\ status' = [status EXCEPT ![i] = "up"]
    /\ Finish(t)
    /\ UNCHANGED <<store, faults, now, call, leases, queue, fds, used, synced>>

-----------------------------------------------------------------------------
\* The process of instance i dies.  Its memory is gone; requests in flight may
\* still be served.  A restarted process has a new instance id.
Crash(i) ==
    /\ status[i] = "up" /\ used.crash < MaxCrashes
    /\ used' = [used EXCEPT !.crash = @ + 1]
    /\ status' = [status EXCEPT ![i] = "dead"]
    /\ local' = [local EXCEPT ![i] = Absent]
    /\ cache' = [cache EXCEPT ![i] = Absent]
    /\ leases' = [leases EXCEPT ![i] = NoLease]
    /\ queue' = [queue EXCEPT ![i] = <<>>]
    /\ fds' = [fds EXCEPT ![i] = [linked |-> 0, orphan |-> 0]]
    /\ task' = [t \in Tasks |-> IF I(t) = i THEN Idle ELSE task[t]]
    /\ call' = [t \in Tasks |-> IF I(t) = i THEN NoCall ELSE call[t]]
    /\ UNCHANGED <<storeVars, now, synced>>

Tick ==
    /\ now < MaxTime
    /\ now' = now + 1
    /\ UNCHANGED <<storeVars, call, localVars, task, used, synced>>

\* What an application does.
AppStep(t) == OpenWrite(t) \/ Write(t) \/ Unlink(t) \/ Fsync(t) \/ Close(t) \/ Read(t) \/ Check(t)

\* What the background tick starts.
TickStep(t) == Renew(t) \/ Flush(t) \/ Poll(t)

\* An operation goes on.
ManagerStep(t) ==
    \/ UploadPut(t) \/ UploadHead(t) \/ UploadRecreate(t) \/ UploadVerified(t) \/ Refreshed(t)
    \/ OpenFailed(t) \/ OpenAcquired(t) \/ HeadAnswered(t) \/ HeadGot(t) \/ Released(t)
    \/ LeaseDeleted(t) \/ Renewed(t) \/ QueueDeleted(t) \/ PollListed(t) \/ BootListed(t) \/ Got(t)

\* A step of the store or of a lease call.
LowerStep(t) ==
    /\ \/ StoreStep(t) /\ UNCHANGED <<now, call>>
       \/ LeaseStep(t)
    /\ UNCHANGED <<localVars, task, used, synced>>

Next ==
    /\ \/ Tick
       \/ \E i \in Instances : Crash(i)
       \/ \E t \in Tasks : Boot(t) \/ AppStep(t) \/ TickStep(t) \/ ManagerStep(t) \/ LowerStep(t)
    /\ UNCHANGED fileLock

Spec == Init /\ [][Next]_vars

\* Started operations and background ticks go on; applications owe nothing.
Fairness ==
    /\ WF_vars(Tick /\ UNCHANGED fileLock)
    /\ \A t \in Tasks :
          /\ WF_vars(Boot(t) /\ UNCHANGED fileLock)
          /\ WF_vars(ManagerStep(t) /\ UNCHANGED fileLock)
          /\ WF_vars((Serve(t) \/ HeadCheck(t))
                      /\ UNCHANGED <<fileLock, now, call, localVars, task, used, synced>>)
          /\ WF_vars(LeaseStep(t) /\ UNCHANGED <<fileLock, localVars, task, used, synced>>)
          /\ SF_vars(Flush(t) /\ UNCHANGED fileLock)
          /\ SF_vars(Poll(t) /\ UNCHANGED fileLock)

FairSpec == Spec /\ Fairness

-----------------------------------------------------------------------------
(***************************************************************************)
(* Properties                                                              *)
(***************************************************************************)

\* Every variable holds a value of its kind: the file key only ever holds file
\* content and the lock key only lease records.
TypeOK ==
    /\ store["file"] \in Contents /\ store["lock"] \in LockETags
    /\ \A t \in Tasks :
          /\ req[t].op \in {"none", "get", "put", "delete"}
          /\ req[t].op # "none" => req[t].key \in {"file", "lock"}
          /\ req[t].op = "put" => req[t].body \in (IF req[t].key = "file" THEN Contents
                                                  ELSE Records) \ {Absent}
          /\ resp[t].status \in Statuses
          /\ call[t].pc \in AwaitPcs \union ResultPcs \union {"none"}
          /\ call[t].etag \in LockETags /\ call[t].body \in Records
          /\ task[t].op \in Ops /\ task[t].pc \in Pcs
          /\ task[t].content \in Contents \ {Absent} /\ task[t].base \in Contents
          /\ task[t].snap \in LockETags
    /\ \A i \in Instances :
          /\ local[i] \in Contents /\ cache[i] \in Contents
          /\ leases[i].base \in Contents /\ leases[i].etag \in LockETags
          /\ leases[i].refcount \in 0 .. MaxOpens
          /\ leases[i].held <=> leases[i].refcount > 0
          /\ \A n \in 1 .. Len(queue[i]) : queue[i][n].etag \in Contents
          /\ fds[i].linked \in Nat /\ fds[i].orphan \in Nat
          /\ fds[i].linked > 0 => local[i] # Absent
    /\ now \in 0 .. MaxTime /\ faults \in 0 .. MaxFaults
    /\ synced \subseteq 1 .. MaxWrites

\* "A write never silently overwrites another instance's newer content"
\* (docs/sync-semantics.md): whatever replaces the stored object contains
\* every update the replaced object contained (as long as nobody unlinks it).
NoLostUpdate ==
    [][ used.unlink = 0 /\ object # Absent /\ object' # Absent =>
          object.updates \subseteq object'.updates ]_vars

\* "Every write to S3 is conditional ... a delete carries If-Match on the last
\* observed ETag" (docs/sync-semantics.md): the stored object is only ever
\* deleted by a request made for exactly that version.
DeletesAreFenced ==
    [][ object # Absent /\ object' = Absent =>
          \E t \in Tasks : req[t].op = "delete" /\ req[t].key = "file" /\ req[t].etag = object ]_vars

\* What fsync reported as stored is in the store, and stays there as long as
\* nobody unlinks the file.
SyncedIsStored ==
    used.unlink = 0 =>
        synced \subseteq (IF object = Absent THEN {} ELSE object.updates)

\* No task of i is between two awaits.
Settled(i) == \A t \in Tasks : I(t) = i => task[t].pc = "idle"

\* A leased copy without pending changes is the version pinned as the base
\* ("The local copy matches S3 before the application writes, and the ETag is
\* pinned as the base"); a new, empty file has none.
CleanCopyIsBase ==
    \A i \in Instances :
        leases[i].held /\ Settled(i) /\ ~leases[i].dirty /\ ~leases[i].pendingDelete =>
            \/ local[i] = leases[i].base
            \/ local[i] = EmptyFile /\ leases[i].base = Absent

\* Nothing is left behind: an instance that is up and at rest, with no lease
\* and nothing queued, has in its copy exactly what it last exchanged with the
\* store (or a new, empty file).
NothingUnsent ==
    \A i \in Instances :
        status[i] = "up" /\ Settled(i) /\ ~leases[i].held /\ queue[i] = <<>> =>
            \/ local[i] = cache[i]
            \/ local[i] = EmptyFile /\ cache[i] = Absent

\* A lease is held for the sake of open descriptors: at rest its reference
\* count is the number of write descriptors open on the file.
LeaseHasDescriptors ==
    \A i \in Instances :
        leases[i].held /\ Settled(i) =>
            leases[i].refcount = fds[i].linked + fds[i].orphan

\* An instance whose lease has not run out owns the lock object.
LeaseOwnsLock ==
    \A i \in Instances :
        leases[i].held /\ ~leases[i].releasing /\ now < leases[i].expires =>
            lock # Absent /\ lock.instance = i

\* A release carries If-Match "so we never remove a lease that was taken over
\* from us" (lease.rs), and takeover is for expired records:
\* an unexpired lock object is only ever replaced or removed on behalf of the
\* instance that it names.
LockIsRespected ==
    [][ lock # Absent /\ lock' # lock /\ ~IsExpired(lock) =>
          \E t \in Tasks : /\ InstanceOf[t] = lock.instance
                           /\ req[t].op \in {"put", "delete"} /\ req[t].key = "lock"
                           /\ req'[t] # req[t] ]_vars

\* "At most one instance writes a given file at a time"
\* (docs/sync-semantics.md, Guarantees): no two instances hold unexpired leases.
OneWriter ==
    \A i, j \in Instances :
        /\ leases[i].held /\ ~leases[i].releasing /\ now < leases[i].expires
        /\ leases[j].held /\ ~leases[j].releasing /\ now < leases[j].expires
        => i = j

\* "A file opened for write while this instance is polling is never overwritten
\* by the poll" (docs/sync-semantics.md): a poll leaves leased copies alone.
PollSparesLeased ==
    [][ \A t \in Tasks :
          task[t].op = "poll" /\ task'[t].op = "none" /\ leases[I(t)].held =>
              local'[I(t)] = local[I(t)] ]_vars

\* Once the applications stop, every instance that is up and has the file
\* closed ends up with the stored version (or an empty file never stored).
Convergence ==
    \A i \in Instances :
        <>[]( status[i] = "up" /\ fds[i].linked + fds[i].orphan = 0 =>
                 \/ local[i] = object
                 \/ local[i] = EmptyFile /\ object = Absent )
=============================================================================
