---------------------------- MODULE SyncProofs ----------------------------
(***************************************************************************)
(* Proofs about SyncManager, for any number of instances, opens, writes    *)
(* and crashes and any timing.                                             *)
(***************************************************************************)
EXTENDS SyncManager, FiniteSetTheorems, TLAPS

(***************************************************************************)
(* Types and control: for any number of threads.                           *)
(***************************************************************************)

RequestType ==
    [op : {"none", "get", "put", "delete"}, key : {"file", "lock", Absent},
     cond : {"none", "ifNoneMatch", "ifMatch"},
     etag : Contents \union LockETags, body : Contents \union LockETags]
ResponseType == [status : Statuses, val : Contents \union LockETags]
CallType ==
    [pc : AwaitPcs \union ResultPcs \union {"none"}, etag : LockETags, body : Records,
     err : Statuses, deadline : Nat]
TaskType ==
    [op : Ops, pc : Pcs, mode : OpenModes \union {"none"}, content : Files,
     base : Contents, force : BOOLEAN, snap : LockETags]
EntryType ==
    [held : BOOLEAN, base : Contents, etag : LockETags, epoch : Nat, expires : Nat,
     refcount : Nat, dirty : BOOLEAN, pendingDelete : BOOLEAN, lost : BOOLEAN,
     releasing : BOOLEAN]
OperationType == [kind : {"upload", "delete"}, etag : Contents]
DescriptorType == [linked : Nat, orphan : Nat]
UsedType ==
    [open : 0 .. MaxOpens, write : 0 .. MaxWrites, unlink : 0 .. MaxUnlinks,
     crash : 0 .. MaxCrashes]

\* What the tasks have: their operation, lease call, request and response.
TaskTypes ==
    /\ task \in [Tasks -> TaskType]
    /\ call \in [Tasks -> CallType]
    /\ req \in [Tasks -> RequestType]
    /\ resp \in [Tasks -> ResponseType]

\* What the instances have.
InstanceTypes ==
    /\ local \in [Instances -> Contents]
    /\ cache \in [Instances -> Contents]
    /\ leases \in [Instances -> EntryType]
    /\ queue \in [Instances -> Seq(OperationType)]
    /\ fds \in [Instances -> DescriptorType]
    /\ status \in [Instances -> {"new", "up", "dead"}]

\* What there is once.
SharedTypes ==
    /\ fileLock \in BOOLEAN
    /\ store \in [Keys -> Contents \union LockETags]
    /\ object \in Contents
    /\ lock \in LockETags
    /\ faults \in 0 .. MaxFaults
    /\ now \in 0 .. MaxTime
    /\ used \in UsedType
    /\ synced \in SUBSET (1 .. MaxWrites)

Types == TaskTypes /\ InstanceTypes /\ SharedTypes

\* The awaits of lease.rs, and those of a push and what follows it.
LockPcs == {"acquire", "giveback", "release", "renew"}
PushPcs == {"upload", "recreate", "uploadHead", "verify", "refresh"}

\* The key that t has asked for, and what that key can hold.
KeyOf(t) == IF task[t].pc \in LockPcs THEN "lock" ELSE "file"
Values(key) == IF key = "lock" THEN LockETags ELSE Contents

Live(t) == status[I(t)] # "dead"

\* Which operations can be suspended at which await, and what the lease call
\* of a task is doing meanwhile: an open keeps its Acquired while it pushes or
\* compares ETags.
ControlOK(t) ==
    LET op == task[t].op
        pc == task[t].pc IN
    /\ pc = "idle" <=> op = "none"
    /\ pc \in {"acquire", "giveback"} => op = "open"
    /\ pc = "release" => op \in {"open", "close"}
    /\ pc = "renew" => op = "renew"
    /\ pc = "head" => op \in {"open", "check"}
    /\ pc = "get" => op \in {"open", "check", "poll", "read", "boot"}
    /\ pc = "list" => op \in {"poll", "boot"}
    /\ pc \in PushPcs => op \in {"open", "close", "fsync", "write", "flush"}
    /\ pc = "leaseDelete" => op \in {"close", "fsync"}
    /\ pc = "queueDelete" => op = "flush"
    /\ pc = "acquire" => Pc(t) \in {"get", "put", "verify", "sleep",
                                    "acquired", "busy", "failed"}
    /\ pc = "renew" => Pc(t) \in {"renew", "renewed", "lost", "renewFailed"}
    /\ pc \in {"release", "giveback"} => Pc(t) \in {"release", "released"}
    /\ pc \notin LockPcs /\ op = "open" => Pc(t) = "acquired"
    /\ pc \notin LockPcs /\ op # "open" => Pc(t) = "none"
    /\ ~Live(t) => task[t] = Idle /\ call[t] = NoCall

\* A request in flight is about one of the two keys and carries values of that
\* key, whether or not its sender is still alive.
RequestOK(t) ==
    /\ req[t].op # "none" =>
          /\ req[t].key \in {"file", "lock"}
          /\ req[t].etag \in Values(req[t].key)
          /\ req[t].body \in Values(req[t].key)
    /\ req[t].op = "put" => req[t].body # Absent

\* A live task gets answers to what it has asked.
AnswerOK(t) ==
    Live(t) =>
        /\ req[t].op # "none" => req[t].key = KeyOf(t) /\ resp[t].status = "none"
        /\ resp[t].val \in Values(KeyOf(t))
        /\ task[t].pc = "idle" => req[t].op = "none"

\* What t does to the lock object it does to a record of its own instance, or
\* to one that has expired; the records it remembers are its own.
OwnOK(t) ==
    /\ req[t].op = "put" /\ req[t].key = "lock" =>
          /\ req[t].body.instance = I(t)
          /\ \/ req[t].cond = "ifNoneMatch"
             \/ /\ req[t].cond = "ifMatch" /\ req[t].etag # Absent
                /\ IsExpired(req[t].etag) \/ req[t].etag.instance = I(t)
    /\ req[t].op = "delete" /\ req[t].key = "lock" /\ ConditionalDelete =>
          /\ req[t].cond = "ifMatch" /\ req[t].etag # Absent
          /\ req[t].etag.instance = I(t)
    /\ Pc(t) \in {"put", "verify", "acquired", "renew", "renewed"} =>
          call[t].body.instance = I(t)
    /\ Pc(t) \in {"put", "renew"} =>
          /\ req[t].op = "put" => req[t].body = call[t].body
          /\ resp[t].status = "ok" => resp[t].val = call[t].body
          /\ req[t].op \in {"none", "put"}
    /\ Pc(t) \in {"acquired", "renewed"} =>
          call[t].etag # Absent /\ call[t].etag.instance = I(t)
    /\ task[t].op = "close" /\ task[t].pc # "release" =>
          task[t].snap # Absent /\ task[t].snap.instance = I(t)

TaskOK(t) == ControlOK(t) /\ RequestOK(t) /\ AnswerOK(t) /\ OwnOK(t)

\* At most one delete is queued.
OneDelete(q) ==
    \A m, n \in 1 .. Len(q) : q[m].kind = "delete" /\ q[n].kind = "delete" => m = n

\* The lease entry names a record of the instance; descriptors have a file.
InstanceOK(i) ==
    /\ OneDelete(queue[i])
    /\ leases[i].held => leases[i].etag # Absent /\ leases[i].etag.instance = i
    /\ leases[i].held <=> leases[i].refcount > 0
    /\ fds[i].linked > 0 => local[i] # Absent

BaseInv ==
    /\ Types
    /\ \A t \in Tasks : TaskOK(t)
    /\ \A i \in Instances : InstanceOK(i)

\* The opens of i that are going to take a reference.
Opening(i) ==
    {t \in Tasks : I(t) = i /\ task[t].op = "open" /\ task[t].pc \notin {"release", "giveback"}}

\* Every reference and every open under way has been counted.
CountInv ==
    \A i \in Instances :
        /\ IsFiniteSet(Opening(i))
        /\ leases[i].refcount + Cardinality(Opening(i)) <= used.open

-----------------------------------------------------------------------------
(***************************************************************************)
(* The lock object: for instances with a single thread.                    *)
(***************************************************************************)

SingleThreaded == \A s, t \in Tasks : I(s) = I(t) => s = t

Entry(t) == leases[I(t)]

\* The stages of a lease: acquired by an open, renewed, and given back by a
\* close or by an open that fails.
StageOK(t) ==
    /\ task[t].op = "open" => ~Entry(t).held
    /\ task[t].op = "close" => Entry(t).held /\ Entry(t).releasing
    /\ task[t].op = "renew" => Entry(t).held /\ ~Entry(t).releasing
    /\ task[t].op \notin {"open", "close", "renew"} /\ Entry(t).held => ~Entry(t).releasing
    /\ task[t].pc # "giveback"

\* The request that a live task has made of the lock object.
AskOK(t) ==
    Live(t) /\ req[t].op # "none" /\ req[t].key = "lock" =>
        \/ req[t].op = "get" /\ Pc(t) \in {"get", "verify"}
        \/ req[t].op = "put" /\ Pc(t) \in {"put", "renew"}
        \/ req[t].op = "delete" /\ Pc(t) = "release"

\* What a PUT in flight can do to the lock object of a store that supports
\* conditional deletes, whether or not its sender is still alive: write over nothing, over an expired record with the next
\* epoch, or over the sender's own record of the same epoch.
EpochOK(t) ==
    /\ ConditionalDelete /\ req[t].op = "put" /\ req[t].key = "lock" /\ req[t].cond = "ifMatch" =>
          \/ IsExpired(req[t].etag) /\ req[t].body.epoch = req[t].etag.epoch + 1
          \/ /\ req[t].etag.instance = I(t)
             /\ req[t].body.epoch = req[t].etag.epoch
             /\ req[t].body.expires >= req[t].etag.expires

\* The records a task remembers (on such a store).
MemoryOK(t) ==
    ConditionalDelete =>
    /\ Pc(t) \in {"put", "verify", "acquired", "renew", "renewed"} =>
          call[t].body.expires <= now + LeaseTime
    /\ Pc(t) \in {"acquired", "renewed"} => call[t].etag = call[t].body
    /\ Pc(t) \in {"renew", "renewed"} =>
          /\ call[t].body.epoch = Entry(t).epoch
          /\ call[t].body.expires >= Entry(t).expires
    /\ Entry(t).held =>
          /\ Entry(t).etag.epoch = Entry(t).epoch
          /\ Entry(t).etag.expires = Entry(t).expires
          /\ Entry(t).expires <= now + LeaseTime

\* The lock object is t's record of the given epoch and lasts until expires.
Owns(t, epoch, expires) ==
    /\ lock # Absent
    /\ lock.instance = I(t)
    /\ lock.epoch = epoch
    /\ lock.expires >= expires

\* t has been told that it has the lease of record call[t].body.
Granted(t) ==
    \/ Pc(t) \in {"put", "renew"} /\ resp[t].status = "ok"
    \/ Pc(t) = "verify" /\ resp[t].status = "ok" /\ LeaseLanded(t)
    \/ Pc(t) \in {"acquired", "renewed"}

\* On such a store a lease that has not run out is backed by the lock object,
\* from the answer that grants it on.  And the lock object names t only as a result of what t
\* has done.
BackedOK(t) ==
    ConditionalDelete =>
    /\ Entry(t).held /\ ~Entry(t).releasing /\ now < Entry(t).expires =>
          Owns(t, Entry(t).epoch, Entry(t).expires)
    /\ Granted(t) /\ now < call[t].body.expires =>
          Owns(t, call[t].body.epoch, call[t].body.expires)
    /\ Pc(t) = "verify" /\ resp[t].status = "ok" /\ LeaseLanded(t) =>
          resp[t].val = call[t].body
    /\ lock # Absent /\ lock.instance = I(t) =>
          /\ Pc(t) = "get" /\ resp[t].status = "ok" => lock = resp[t].val
          /\ Pc(t) \in {"put", "verify"} =>
                \/ lock = call[t].body
                \/ lock = call[t].etag /\ call[t].body.epoch = lock.epoch + 1

LeaseOK(t) == StageOK(t) /\ AskOK(t) /\ EpochOK(t) /\ MemoryOK(t) /\ BackedOK(t)

\* An entry belongs to an instance that runs.
OwnedEntries ==
    \A i \in Instances :
        leases[i].held => status[i] # "dead" /\ \E t \in Tasks : I(t) = i

LeaseInv == OwnedEntries /\ \A t \in Tasks : LeaseOK(t)

\* With leases enabled, references are write descriptors; without, there are
\* no leases.
RefsOK(i) ==
    /\ leases[i].held /\ ~leases[i].releasing =>
          leases[i].refcount = fds[i].linked + fds[i].orphan
    /\ fileLock /\ (leases[i].held => leases[i].releasing) => fds[i].linked + fds[i].orphan = 0
    /\ leases[i].held => fileLock

NoOpenWithoutLocks ==
    \A t \in Tasks : task[t].op = "open" /\ task[t].pc # "release" => fileLock

RefsInv == NoOpenWithoutLocks /\ \A i \in Instances : RefsOK(i)

-----------------------------------------------------------------------------
(***************************************************************************)
(* Data: for instances with a single thread, without transport faults and  *)
(* truncating opens, as long as nothing is unlinked.                       *)
(***************************************************************************)

\* The copy of i is what i last exchanged with the store, or a new, empty file.
InSync(i) ==
    \/ local[i] = cache[i]
    \/ local[i] = EmptyFile /\ cache[i] = Absent

\* Changes of the copy of i that the store does not have are marked: in the
\* lease entry, or else in the queue.
Marked(i) ==
    \/ leases[i].held /\ leases[i].dirty
    \/ ~leases[i].held /\ queue[i] # <<>>
    \/ InSync(i)

\* Version v has been stored: later versions contain its updates.
Stored(v) ==
    v # Absent => object # Absent /\ (fileLock => v.updates \subseteq object.updates)

\* v is an ancestor of content w.
Within(v, w) == v # Absent => w # Absent /\ v.updates \subseteq w.updates

\* t pushes the copy of its instance.
Pushing(t) == task[t].pc \in {"upload", "uploadHead", "refresh"}

\* What a file request can do, whether or not its sender is alive.
PushOK(t) ==
    /\ req[t].op = "delete" => req[t].key = "lock"
    /\ req[t].op = "put" /\ req[t].key = "file" /\ fileLock =>
          req[t].cond # "none" /\ Within(req[t].etag, req[t].body)
    /\ resp[t].status # "error"

\* A live task that has sent its PUT: it pushes the copy over the version in
\* the cache, or (leases disabled) over any, and is told the truth.
UploadFlow(t) ==
    task[t].pc = "upload" =>
        /\ task[t].content = local[I(t)]
        /\ task[t].force => ~fileLock
        /\ ~task[t].force => task[t].base = cache[I(t)]
        /\ req[t].op \in {"none", "put"}
        /\ req[t].op = "put" =>
              req[t] = IF task[t].force THEN PutAlways("file", task[t].content)
                       ELSE PutIf("file", task[t].base, task[t].content)
        /\ resp[t].status = "ok" => resp[t].val = task[t].content
        /\ resp[t].status = "precondition" => object # Absent
        /\ resp[t].status # "notFound"

\* A live task that asks for the object: there is one after a rejected PUT, and
\* what has been stored once does not go away.
QueryFlow(t) ==
    /\ task[t].pc \notin {"recreate", "verify", "leaseDelete", "queueDelete"}
    /\ task[t].pc \in {"uploadHead", "refresh"} =>
          /\ object # Absent /\ local[I(t)] # Absent
          /\ resp[t].status = "ok" => resp[t].val # Absent
    /\ KeyOf(t) = "file" /\ resp[t].status = "ok" => Stored(resp[t].val)
    /\ task[t].pc \in {"uploadHead", "refresh", "head", "get", "list"} =>
          req[t].op \in {"none", "get"}
    /\ task[t].pc \in {"head", "get", "list"} /\ resp[t].status = "ok" /\ resp[t].val = Absent =>
          cache[I(t)] = Absent

\* What a live task knows about its instance.
CopyFlow(t) ==
    LET i == I(t) IN
    /\ task[t].op = "open" /\ task[t].pc \in {"head", "get"} => queue[i] = <<>>
    /\ task[t].op \in {"read", "check", "boot"} => ~leases[i].held
    /\ task[t].op = "poll" /\ task[t].pc = "get" => ~leases[i].held
    /\ task[t].op = "close" /\ task[t].pc = "release" => InSync(i)
    /\ Pushing(t) \/ Marked(i)

FlowOK(t) == UploadFlow(t) /\ QueryFlow(t) /\ CopyFlow(t)

\* The copy of an instance.
CopyOK(i) ==
    /\ Within(cache[i], local[i])
    /\ Stored(cache[i])
    /\ leases[i].held => leases[i].base = cache[i]
    /\ ~leases[i].pendingDelete
    /\ fds[i].orphan = 0
    /\ \A n \in 1 .. Len(queue[i]) : queue[i][n] = Upload
    /\ (\A t \in Tasks : I(t) # i) => InSync(i)

DataOK ==
    /\ fileLock => synced \subseteq (IF object = Absent THEN {} ELSE object.updates)
    /\ \A t \in Tasks : PushOK(t) /\ (Live(t) => FlowOK(t))
    /\ \A i \in Instances : CopyOK(i)

DataInv == used.unlink = 0 => DataOK

-----------------------------------------------------------------------------
(***************************************************************************)
(* Steps of a task, reduced to what they do to its operation, its lease    *)
(* call and its request.                                                   *)
(***************************************************************************)

\* t goes on with operation ta and lease call ca and sends r.
Moves(t, ta, ca, r) ==
    /\ task' = [task EXCEPT ![t] = ta]
    /\ call' = [call EXCEPT ![t] = ca]
    /\ req' = [req EXCEPT ![t] = r]
    /\ resp' = [resp EXCEPT ![t] = NoResponse]

\* The operation of t ends.
Ends(t, ca) == Moves(t, Idle, ca, NoRequest)

\* t sends r as a part of op and suspends at pc.
Asks(t, op, pc, r) == Moves(t, [task[t] EXCEPT !.op = op, !.pc = pc], call[t], r)

\* t gives the lock object of version etag back.
GivesBack(t, op, etag) ==
    Moves(t, [task[t] EXCEPT !.op = op, !.pc = "release"],
             [NoCall EXCEPT !.pc = "release", !.etag = etag], DeleteIf("lock", etag))

\* t pushes content over base.
Pushes(t, op, content, base, snap) ==
    Moves(t, [task[t] EXCEPT !.op = op, !.pc = "upload", !.content = content,
                             !.base = base, !.force = FALSE, !.snap = snap],
             call[t], PutIf("file", base, content))

\* Other tasks and other instances are left alone.
TaskFrame(t) ==
    \A u \in Tasks \ {t} :
        /\ task'[u] = task[u] /\ call'[u] = call[u]
        /\ req'[u] = req[u] /\ resp'[u] = resp[u]

InstanceFrame(i) ==
    \A j \in Instances \ {i} :
        /\ local'[j] = local[j] /\ cache'[j] = cache[j] /\ leases'[j] = leases[j]
        /\ queue'[j] = queue[j] /\ fds'[j] = fds[j] /\ status'[j] = status[j]

LEMMA InstanceType ==
    ASSUME NEW t \in Tasks
    PROVE  I(t) \in Instances /\ InstanceOf[t] = I(t)
  BY LeaseAssumption DEF I

LEMMA MovesTo ==
    ASSUME TaskTypes, NEW t \in Tasks, NEW ta, NEW ca, NEW r, Moves(t, ta, ca, r)
    PROVE  /\ task'[t] = ta /\ call'[t] = ca /\ req'[t] = r /\ resp'[t] = NoResponse
           /\ TaskFrame(t)
  BY DEF TaskTypes, Moves, TaskFrame

LEMMA MovesTypes ==
    ASSUME TaskTypes, NEW t \in Tasks, NEW ta \in TaskType, NEW ca \in CallType,
           NEW r \in RequestType, Moves(t, ta, ca, r)
    PROVE  TaskTypes'
  <1>1. NoResponse \in ResponseType
    BY DEF NoResponse, ResponseType, Statuses, Contents
  <1> QED BY <1>1 DEF TaskTypes, Moves

LEMMA FinishEnds ==
    ASSUME TaskTypes, NEW t \in Tasks, Finish(t)
    PROVE  /\ UNCHANGED call => Ends(t, call[t])
           /\ \A ca : call' = [call EXCEPT ![t] = ca] => Ends(t, ca)
  BY DEF TaskTypes, Finish, Send, Ends, Moves

LEMMA AwaitAsks ==
    ASSUME TaskTypes, NEW t \in Tasks, NEW pc, NEW r, Await(t, pc, r), UNCHANGED call
    PROVE  Asks(t, task[t].op, pc, r)
  BY DEF TaskTypes, TaskType, Await, Send, Asks, Moves

LEMMA StartAsks ==
    ASSUME TaskTypes, NEW t \in Tasks, NEW op, NEW pc, NEW r,
           task' = [task EXCEPT ![t].op = op, ![t].pc = pc], Send(t, r), UNCHANGED call
    PROVE  Asks(t, op, pc, r)
  BY DEF TaskTypes, TaskType, Send, Asks, Moves

LEMMA ReleaseGivesBack ==
    ASSUME TaskTypes, NEW t \in Tasks, NEW op, NEW etag, StartRelease(t, op, etag)
    PROVE  GivesBack(t, op, etag)
  BY DEF TaskTypes, TaskType, StartRelease, CallRelease, Send, GivesBack, Moves

LEMMA UploadPushes ==
    ASSUME TaskTypes, NEW t \in Tasks, NEW op, NEW content, NEW base, NEW snap,
           StartUpload(t, op, content, base, snap), UNCHANGED call
    PROVE  Pushes(t, op, content, base, snap)
  BY DEF TaskTypes, TaskType, StartUpload, Send, Pushes, Moves

\* The end of a push: an open gives the lock back, and so does a close.
Proceeds(t) ==
    \/ task[t].op = "open" /\ GivesBack(t, "open", call[t].etag)
    \/ task[t].op = "close" /\ GivesBack(t, "close", task[t].snap)
    \/ task[t].op \notin {"open", "close"} /\ Ends(t, call[t])

LEMMA ProceedProceeds ==
    ASSUME TaskTypes, NEW t \in Tasks, Proceed(t)
    PROVE  Proceeds(t)
  <1>1. CASE task[t].op = "open"
    BY <1>1, ReleaseGivesBack DEF Proceed, OpenAbort, Proceeds
  <1>2. CASE task[t].op = "close"
    BY <1>2, ReleaseGivesBack DEF Proceed, Proceeds
  <1>3. CASE task[t].op \notin {"open", "close"}
    BY <1>3, FinishEnds DEF Proceed, Proceeds
  <1> QED BY <1>1, <1>2, <1>3

-----------------------------------------------------------------------------
(***************************************************************************)
(* Types and control: what each kind of move keeps.                        *)
(***************************************************************************)

LEMMA ConstantTypes ==
    /\ NoRequest \in RequestType
    /\ NoResponse \in ResponseType
    /\ NoCall \in CallType
    /\ Unparsable \in Records
    /\ EmptyFile \in Files
    /\ Idle \in TaskType
    /\ NoLease \in EntryType
    /\ Upload \in OperationType
    /\ \A i \in Instances : [linked |-> 0, orphan |-> 0] \in DescriptorType
  <1>1. EmptyFile \in Files
    BY DEF EmptyFile, File, Files
  <1>2. Unparsable \in Records
    BY DEF Unparsable, LockRecord, Records
  <1>3. Idle \in TaskType
    BY <1>1 DEF Idle, TaskType, Ops, Pcs, Contents, LockETags
  <1>4. NoLease \in EntryType
    BY DEF NoLease, EntryType, Contents, LockETags
  <1>5. NoCall \in CallType
    BY <1>2 DEF NoCall, CallType, AwaitPcs, ResultPcs, LockETags, Statuses
  <1> QED BY <1>1, <1>2, <1>3, <1>4, <1>5
          DEF NoRequest, RequestType, NoResponse, ResponseType, Statuses, Contents,
              Upload, OperationType, DescriptorType

\* The requests that the operations send have their types.
LEMMA RequestTypes ==
    /\ \A key \in {"file", "lock"} : Get(key) \in RequestType
    /\ \A base \in Contents, content \in Files :
          /\ PutIf("file", base, content) \in RequestType
          /\ PutAlways("file", content) \in RequestType
          /\ DeleteIf("file", base) \in RequestType
    /\ \A etag \in LockETags, body \in Records :
          /\ PutIf("lock", etag, body) \in RequestType
          /\ DeleteIf("lock", etag) \in RequestType
  BY DEF Get, PutIf, PutAlways, DeleteIf, RequestType, Contents, LockETags

\* A task that nobody touches is as it was.
LEMMA Untouched ==
    ASSUME NEW u \in Tasks, TaskOK(u), UNCHANGED now, Live(u)' <=> Live(u),
           task'[u] = task[u], call'[u] = call[u], req'[u] = req[u], resp'[u] = resp[u]
    PROVE  TaskOK(u)'
  <1>1. ControlOK(u)'
    BY DEF TaskOK, ControlOK, Pc
  <1>2. RequestOK(u)'
    BY DEF TaskOK, RequestOK
  <1>3. AnswerOK(u)'
    BY DEF TaskOK, AnswerOK, KeyOf
  <1>4. OwnOK(u)'
    BY DEF TaskOK, OwnOK, IsExpired, Pc
  <1> QED BY <1>1, <1>2, <1>3, <1>4 DEF TaskOK

\* The end of an operation.
LEMMA EndsOK ==
    ASSUME TaskTypes, NEW t \in Tasks, NEW ca \in CallType, ca.pc = "none",
           ca = NoCall \/ Live(t)', Ends(t, ca)
    PROVE  TaskTypes' /\ TaskOK(t)' /\ TaskFrame(t)
  <1>1. TaskTypes'
    BY ConstantTypes, MovesTypes DEF Ends
  <1>2. task'[t] = Idle /\ call'[t] = ca /\ req'[t] = NoRequest /\ resp'[t] = NoResponse
        /\ TaskFrame(t)
    BY MovesTo DEF Ends
  <1>3. ControlOK(t)'
    BY <1>2 DEF ControlOK, Idle, Pc, PushPcs, LockPcs
  <1>4. RequestOK(t)'
    BY <1>2 DEF RequestOK, NoRequest
  <1>5. AnswerOK(t)'
    BY <1>2 DEF AnswerOK, NoRequest, NoResponse, Values, Contents, LockETags
  <1>6. OwnOK(t)'
    BY <1>2 DEF OwnOK, NoRequest, Pc, Idle
  <1> QED BY <1>1, <1>2, <1>3, <1>4, <1>5, <1>6 DEF TaskOK

\* Which operation may ask the store for the file at which await.
FilePc(op, pc) ==
    /\ pc \in Pcs \ (LockPcs \union {"idle"}) /\ op \in Ops \ {"none"}
    /\ pc = "head" => op \in {"open", "check"}
    /\ pc = "get" => op \in {"open", "check", "poll", "read", "boot"}
    /\ pc = "list" => op \in {"poll", "boot"}
    /\ pc \in PushPcs => op \in {"open", "close", "fsync", "write", "flush"}
    /\ pc = "leaseDelete" => op \in {"close", "fsync"}
    /\ pc = "queueDelete" => op = "flush"

FileRequest(r) ==
    /\ r \in RequestType /\ r.op # "none" /\ r.key = "file"
    /\ r.etag \in Contents /\ r.body \in Contents
    /\ r.op = "put" => r.body # Absent

LEMMA FileRequests ==
    ASSUME NEW base \in Contents, NEW content \in Files
    PROVE  /\ FileRequest(Get("file"))
           /\ FileRequest(PutIf("file", base, content))
           /\ FileRequest(PutAlways("file", content))
           /\ FileRequest(DeleteIf("file", base))
  BY RequestTypes, AbsentAssumption
     DEF FileRequest, Get, PutIf, PutAlways, DeleteIf, Contents

\* A task that asks for the file.
LEMMA MovesOK ==
    ASSUME TaskTypes, NEW t \in Tasks, TaskOK(t), Live(t)', UNCHANGED now,
           NEW ta \in TaskType, NEW r, FileRequest(r), FilePc(ta.op, ta.pc),
           Moves(t, ta, call[t], r),
           Pc(t) = (IF ta.op = "open" THEN "acquired" ELSE "none"),
           ta.op = "close" => ta.snap # Absent /\ ta.snap.instance = I(t)
    PROVE  TaskTypes' /\ TaskOK(t)' /\ TaskFrame(t)
  <1>1. TaskTypes'
    BY MovesTypes DEF FileRequest, TaskTypes
  <1>2. task'[t] = ta /\ call'[t] = call[t] /\ req'[t] = r /\ resp'[t] = NoResponse
        /\ TaskFrame(t) /\ Pc(t)' = Pc(t)
    BY MovesTo DEF Pc
  <1>3. ControlOK(t)'
    BY <1>2 DEF ControlOK, FilePc, LockPcs
  <1>4. RequestOK(t)'
    BY <1>2 DEF RequestOK, FileRequest, Values
  <1>5. AnswerOK(t)'
    BY <1>2 DEF AnswerOK, FileRequest, NoResponse, Values, Contents, FilePc, KeyOf
  <1>6. OwnOK(t)'
    BY <1>2 DEF TaskOK, OwnOK, FileRequest
  <1> QED BY <1>1, <1>2, <1>3, <1>4, <1>5, <1>6 DEF TaskOK

LEMMA AsksOK ==
    ASSUME TaskTypes, NEW t \in Tasks, TaskOK(t), Live(t)', UNCHANGED now,
           NEW op, NEW pc, NEW r, FileRequest(r), FilePc(op, pc), Asks(t, op, pc, r),
           Pc(t) = (IF op = "open" THEN "acquired" ELSE "none"),
           op = "close" => task[t].snap # Absent /\ task[t].snap.instance = I(t)
    PROVE  TaskTypes' /\ TaskOK(t)' /\ TaskFrame(t)
  <1> DEFINE ta == [task[t] EXCEPT !.op = op, !.pc = pc]
  <1>1. ta \in TaskType /\ ta.op = op /\ ta.pc = pc /\ ta.snap = task[t].snap
    BY DEF TaskTypes, TaskType, FilePc
  <1>2. Moves(t, ta, call[t], r)
    BY DEF Asks
  <1> HIDE DEF ta
  <1> QED BY <1>1, <1>2, MovesOK

\* A suspended task whose await was for the file asks for the file again.
LEMMA AsksAgainOK ==
    ASSUME TaskTypes, NEW t \in Tasks, TaskOK(t), Live(t)', UNCHANGED now,
           NEW pc, NEW r, FileRequest(r), FilePc(task[t].op, pc),
           task[t].pc \notin LockPcs, Asks(t, task[t].op, pc, r)
    PROVE  TaskTypes' /\ TaskOK(t)' /\ TaskFrame(t)
  <1>1. Pc(t) = (IF task[t].op = "open" THEN "acquired" ELSE "none")
    BY DEF TaskOK, ControlOK
  <1>2. task[t].op = "close" => task[t].snap # Absent /\ task[t].snap.instance = I(t)
    BY DEF TaskOK, OwnOK, LockPcs
  <1> QED BY <1>1, <1>2, AsksOK

LEMMA PushesOK ==
    ASSUME TaskTypes, NEW t \in Tasks, TaskOK(t), Live(t)', UNCHANGED now,
           NEW op \in {"open", "close", "fsync", "write", "flush"},
           NEW content \in Files, NEW base \in Contents, NEW snap \in LockETags,
           Pushes(t, op, content, base, snap),
           Pc(t) = (IF op = "open" THEN "acquired" ELSE "none"),
           op = "close" => snap # Absent /\ snap.instance = I(t)
    PROVE  TaskTypes' /\ TaskOK(t)' /\ TaskFrame(t)
  <1> DEFINE ta == [task[t] EXCEPT !.op = op, !.pc = "upload", !.content = content,
                                   !.base = base, !.force = FALSE, !.snap = snap]
  <1>1. ta \in TaskType /\ ta.op = op /\ ta.pc = "upload" /\ ta.snap = snap
    BY DEF TaskTypes, TaskType, Ops, Pcs
  <1>2. Moves(t, ta, call[t], PutIf("file", base, content))
    BY DEF Pushes
  <1>3. FilePc(op, "upload")
    BY DEF FilePc, Pcs, Ops, LockPcs
  <1>4. FileRequest(PutIf("file", base, content))
    BY FileRequests
  <1> HIDE DEF ta
  <1> QED BY <1>1, <1>2, <1>3, <1>4, MovesOK

\* A task that gives back a lock object of its own.
LEMMA ReleasesOK ==
    ASSUME TaskTypes, NEW t \in Tasks, Live(t)',
           NEW ta \in TaskType, NEW etag \in Records, etag.instance = I(t),
           \/ ta.pc = "release" /\ ta.op \in {"open", "close"}
           \/ ta.pc = "giveback" /\ ta.op = "open",
           Moves(t, ta, [NoCall EXCEPT !.pc = "release", !.etag = etag], DeleteIf("lock", etag))
    PROVE  TaskTypes' /\ TaskOK(t)' /\ TaskFrame(t)
  <1> DEFINE ca == [NoCall EXCEPT !.pc = "release", !.etag = etag]
             r == DeleteIf("lock", etag)
  <1>1. ca \in CallType /\ ca.pc = "release"
    BY ConstantTypes DEF CallType, NoCall, AwaitPcs, LockETags
  <1>2. /\ r \in RequestType /\ r.op = "delete" /\ r.key = "lock" /\ r.cond = "ifMatch"
        /\ r.etag = etag /\ r.body = Absent
    BY RequestTypes, ConstantTypes, AbsentAssumption DEF DeleteIf, LockETags
  <1> HIDE DEF ca, r
  <1>3. Moves(t, ta, ca, r)
    BY DEF ca, r
  <1>4. TaskTypes'
    BY <1>1, <1>2, <1>3, MovesTypes
  <1>5. task'[t] = ta /\ call'[t] = ca /\ req'[t] = r /\ resp'[t] = NoResponse
        /\ TaskFrame(t) /\ Pc(t)' = "release"
    BY <1>1, <1>3, MovesTo DEF Pc
  <1>6. ControlOK(t)'
    BY <1>5 DEF ControlOK, LockPcs, PushPcs
  <1>7. RequestOK(t)'
    BY <1>2, <1>5 DEF RequestOK, Values, LockETags
  <1>8. AnswerOK(t)'
    BY <1>2, <1>5 DEF AnswerOK, KeyOf, LockPcs, NoResponse, Values, LockETags
  <1>9. OwnOK(t)'
    BY <1>2, <1>5, AbsentAssumption DEF OwnOK
  <1> QED BY <1>4, <1>5, <1>6, <1>7, <1>8, <1>9 DEF TaskOK

LEMMA GivesBackOK ==
    ASSUME TaskTypes, NEW t \in Tasks, Live(t)', NEW op \in {"open", "close"},
           NEW etag \in LockETags, etag # Absent, etag.instance = I(t),
           GivesBack(t, op, etag)
    PROVE  TaskTypes' /\ TaskOK(t)' /\ TaskFrame(t)
  <1> DEFINE ta == [task[t] EXCEPT !.op = op, !.pc = "release"]
  <1>1. ta \in TaskType /\ ta.op = op /\ ta.pc = "release" /\ etag \in Records
    BY DEF TaskTypes, TaskType, Ops, Pcs, LockETags
  <1>2. Moves(t, ta, [NoCall EXCEPT !.pc = "release", !.etag = etag], DeleteIf("lock", etag))
    BY DEF GivesBack
  <1> HIDE DEF ta
  <1> QED BY <1>1, <1>2, ReleasesOK

\* The end of a push.
LEMMA ProceedsOK ==
    ASSUME TaskTypes, NEW t \in Tasks, TaskOK(t), Live(t), Live(t)', UNCHANGED now,
           task[t].pc \notin LockPcs, Proceeds(t)
    PROVE  TaskTypes' /\ TaskOK(t)' /\ TaskFrame(t)
  <1>1. CASE task[t].op = "open" /\ GivesBack(t, "open", call[t].etag)
    <2>1. Pc(t) = "acquired" /\ call[t].etag \in LockETags
      BY <1>1 DEF TaskOK, ControlOK, TaskTypes, CallType
    <2>2. call[t].etag # Absent /\ call[t].etag.instance = I(t)
      BY <2>1 DEF TaskOK, OwnOK
    <2> QED BY <1>1, <2>1, <2>2, GivesBackOK
  <1>2. CASE task[t].op = "close" /\ GivesBack(t, "close", task[t].snap)
    <2>1. task[t].snap \in LockETags /\ task[t].snap # Absent /\ task[t].snap.instance = I(t)
      BY <1>2 DEF TaskOK, OwnOK, TaskTypes, TaskType, LockPcs
    <2> QED BY <1>2, <2>1, GivesBackOK
  <1>3. CASE task[t].op \notin {"open", "close"} /\ Ends(t, call[t])
    <2>1. call[t] \in CallType /\ call[t].pc = "none"
      BY <1>3 DEF TaskOK, ControlOK, TaskTypes, Pc
    <2> QED BY <1>3, <2>1, EndsOK
  <1> QED BY <1>1, <1>2, <1>3 DEF Proceeds

-----------------------------------------------------------------------------
(***************************************************************************)
(* Types and control: what the operators on an instance keep.              *)
(***************************************************************************)

LeasesKeep(i) ==
    /\ leases' \in [Instances -> EntryType]
    /\ \A j \in Instances \ {i} : leases'[j] = leases[j]
    /\ leases'[i].held => leases'[i].etag # Absent /\ leases'[i].etag.instance = i
    /\ leases'[i].held <=> leases'[i].refcount > 0

FilesKeep(i) ==
    /\ local' \in [Instances -> Contents]
    /\ fds' \in [Instances -> DescriptorType]
    /\ \A j \in Instances \ {i} : local'[j] = local[j] /\ fds'[j] = fds[j]
    /\ fds'[i].linked > 0 => local'[i] # Absent

CacheKeeps(i) ==
    /\ cache' \in [Instances -> Contents]
    /\ \A j \in Instances \ {i} : cache'[j] = cache[j]

QueueKeeps(i) ==
    /\ queue' \in [Instances -> Seq(OperationType)]
    /\ \A j \in Instances \ {i} : queue'[j] = queue[j]
    /\ OneDelete(queue'[i])

StatusKeeps(i) ==
    /\ status' \in [Instances -> {"new", "up", "dead"}]
    /\ \A j \in Instances \ {i} : status'[j] = status[j]
    /\ status'[i] # "dead"

SharedKeeps ==
    /\ UNCHANGED <<fileLock, store, faults, now>>
    /\ used' \in UsedType
    /\ synced' \in SUBSET (1 .. MaxWrites)

LEMMA SameKeeps ==
    ASSUME BaseInv, NEW i \in Instances
    PROVE  /\ UNCHANGED leases => LeasesKeep(i)
           /\ UNCHANGED <<local, fds>> => FilesKeep(i)
           /\ UNCHANGED cache => CacheKeeps(i)
           /\ UNCHANGED queue => QueueKeeps(i)
           /\ UNCHANGED status /\ status[i] # "dead" => StatusKeeps(i)
           /\ UNCHANGED <<fileLock, store, faults, now, used, synced>> => SharedKeeps
  BY DEF BaseInv, Types, InstanceTypes, SharedTypes, InstanceOK, LeasesKeep, FilesKeep,
         CacheKeeps, QueueKeeps, StatusKeeps, SharedKeeps

\* A step of t that keeps all this keeps the invariant.
LEMMA StepKeeps ==
    ASSUME BaseInv, NEW t \in Tasks, Live(t), LeasesKeep(I(t)), FilesKeep(I(t)), CacheKeeps(I(t)),
           QueueKeeps(I(t)), StatusKeeps(I(t)), SharedKeeps,
           TaskTypes', TaskOK(t)', TaskFrame(t)
    PROVE  BaseInv'
  <1>1. I(t) \in Instances
    BY InstanceType
  <1>2. InstanceTypes'
    BY DEF InstanceTypes, LeasesKeep, FilesKeep, CacheKeeps, QueueKeeps, StatusKeeps
  <1>3. SharedTypes'
    BY DEF BaseInv, Types, SharedTypes, SharedKeeps, object, lock
  <1>4. ASSUME NEW u \in Tasks PROVE TaskOK(u)'
    <2>1. CASE u = t
      BY <2>1
    <2>2. CASE u # t
      <3>1. Live(u)' <=> Live(u)
        BY InstanceType DEF Live, StatusKeeps
      <3> QED BY <2>2, <3>1, Untouched DEF BaseInv, TaskFrame, SharedKeeps
    <2> QED BY <2>1, <2>2
  <1>5. ASSUME NEW j \in Instances PROVE InstanceOK(j)'
    <2>1. OneDelete(queue[j])'
      BY DEF BaseInv, InstanceOK, QueueKeeps, OneDelete
    <2> QED BY <2>1 DEF BaseInv, InstanceOK, LeasesKeep, FilesKeep
  <1> QED BY <1>2, <1>3, <1>4, <1>5 DEF BaseInv, Types

\* What can happen to the queue of i.
LEMMA QueueSet ==
    ASSUME BaseInv, NEW i \in Instances, NEW q \in Seq(OperationType), OneDelete(q),
           queue' = [queue EXCEPT ![i] = q]
    PROVE  QueueKeeps(i)
  BY DEF BaseInv, Types, InstanceTypes, QueueKeeps

LEMMA Queues ==
    ASSUME BaseInv, NEW i \in Instances, NEW etag \in Contents
    PROVE  /\ <<Upload>> \in Seq(OperationType) /\ OneDelete(<<Upload>>)
           /\ <<Delete(etag)>> \in Seq(OperationType) /\ OneDelete(<<Delete(etag)>>)
           /\ <<>> \in Seq(OperationType) /\ OneDelete(<<>>)
           /\ RetainDelete(queue[i]) \in Seq(OperationType) /\ OneDelete(RetainDelete(queue[i]))
           /\ Append(queue[i], Upload) \in Seq(OperationType)
           /\ OneDelete(Append(queue[i], Upload))
           /\ queue[i] # <<>> =>
                 /\ Head(queue[i]) \in OperationType
                 /\ Tail(queue[i]) \in Seq(OperationType) /\ OneDelete(Tail(queue[i]))
                 /\ Append(Tail(queue[i]), Upload) \in Seq(OperationType)
                 /\ OneDelete(Append(Tail(queue[i]), Upload))
  <1>1. queue[i] \in Seq(OperationType) /\ OneDelete(queue[i])
    BY DEF BaseInv, Types, InstanceTypes, InstanceOK
  <1>2. Upload \in OperationType /\ Upload.kind # "delete" /\ Delete(etag) \in OperationType
    BY ConstantTypes DEF Upload, Delete, OperationType
  <1> HIDE DEF Upload, Delete, OperationType
  <1>3. \A op \in OperationType : <<op>> \in Seq(OperationType) /\ OneDelete(<<op>>)
    BY DEF OneDelete
  <1>4. <<>> \in Seq(OperationType) /\ OneDelete(<<>>)
    BY DEF OneDelete
  <1>5. RetainDelete(queue[i]) \in Seq(OperationType) /\ OneDelete(RetainDelete(queue[i]))
    <2> DEFINE deletes == {n \in 1 .. Len(queue[i]) : queue[i][n] # Upload}
    <2>1. CASE deletes = {}
      BY <2>1, <1>4 DEF RetainDelete
    <2>2. CASE deletes # {}
      <3> DEFINE k == CHOOSE n \in deletes : TRUE
      <3>1. k \in 1 .. Len(queue[i])
        BY <2>2
      <3>2. RetainDelete(queue[i]) = <<queue[i][k]>>
        BY <2>2 DEF RetainDelete
      <3> HIDE DEF deletes, k
      <3>3. queue[i][k] \in OperationType
        BY <1>1, <3>1
      <3> QED BY <1>3, <3>2, <3>3
    <2> QED BY <2>1, <2>2
  <1>6. ASSUME NEW q \in Seq(OperationType), OneDelete(q)
        PROVE  Append(q, Upload) \in Seq(OperationType) /\ OneDelete(Append(q, Upload))
    BY <1>2, <1>6 DEF OneDelete
  <1>7. CASE queue[i] # <<>>
    <2>1. Head(queue[i]) \in OperationType /\ Tail(queue[i]) \in Seq(OperationType)
      BY <1>1, <1>7
    <2>2. OneDelete(Tail(queue[i]))
      BY <1>1, <1>7 DEF OneDelete
    <2> QED BY <1>1, <1>2, <1>3, <1>4, <1>5, <1>6, <2>1, <2>2
  <1> QED BY <1>1, <1>2, <1>3, <1>4, <1>5, <1>6, <1>7

\* An entry that replaces that of i.
LEMMA EntrySet ==
    ASSUME BaseInv, NEW i \in Instances, NEW e \in EntryType, leases' = [leases EXCEPT ![i] = e],
           e.held => e.etag # Absent /\ e.etag.instance = i, e.held <=> e.refcount > 0
    PROVE  LeasesKeep(i)
  BY DEF BaseInv, Types, InstanceTypes, LeasesKeep

LEMMA OpenKeeps ==
    ASSUME BaseInv, NEW i \in Instances, NEW mode, LocalOpen(i, mode)
    PROVE  FilesKeep(i)
  <1>1. CASE mode = "existing" /\ local[i] = Absent
    BY <1>1, SameKeeps DEF LocalOpen
  <1>2. CASE ~(mode = "existing" /\ local[i] = Absent)
    <2>1. /\ fds' = [fds EXCEPT ![i].linked = @ + 1]
          /\ local' = [local EXCEPT ![i] = IF mode = "truncate" \/ @ = Absent
                                           THEN EmptyFile ELSE @]
      BY <1>2 DEF LocalOpen
    <2>2. EmptyFile \in Contents /\ EmptyFile # Absent
      BY ConstantTypes, AbsentAssumption DEF Contents
    <2> DEFINE d == [fds[i] EXCEPT !.linked = @ + 1]
    <2>3. d \in DescriptorType
      <3>1. fds[i] \in DescriptorType
        BY DEF BaseInv, Types, InstanceTypes
      <3>2. fds[i].linked + 1 \in Nat
        BY <3>1 DEF DescriptorType
      <3> QED BY <3>1, <3>2 DEF DescriptorType
    <2>5. fds' = [fds EXCEPT ![i] = d]
      BY <2>1 DEF BaseInv, Types, InstanceTypes
    <2> HIDE DEF d
    <2>4. local'[i] # Absent /\ local' \in [Instances -> Contents]
      BY <2>1, <2>2 DEF BaseInv, Types, InstanceTypes
    <2> QED BY <2>1, <2>3, <2>4, <2>5 DEF BaseInv, Types, InstanceTypes, FilesKeep
  <1> QED BY <1>1, <1>2

LEMMA UnlinkKeeps ==
    ASSUME BaseInv, NEW i \in Instances, LocalUnlink(i)
    PROVE  FilesKeep(i)
  <1>1. Absent \in Contents
    BY DEF Contents
  <1> QED BY <1>1 DEF LocalUnlink, BaseInv, Types, InstanceTypes, DescriptorType, FilesKeep

LEMMA DownloadKeeps ==
    ASSUME BaseInv, NEW i \in Instances, NEW content \in Contents, content # Absent,
           Download(i, content), UNCHANGED fds
    PROVE  FilesKeep(i) /\ CacheKeeps(i)
  BY DEF Download, BaseInv, Types, InstanceTypes, FilesKeep, CacheKeeps

LEMMA CacheSet ==
    ASSUME BaseInv, NEW i \in Instances, NEW etag \in Contents,
           cache' = [cache EXCEPT ![i] = etag]
    PROVE  CacheKeeps(i)
  BY DEF BaseInv, Types, InstanceTypes, CacheKeeps

LEMMA StatusSet ==
    ASSUME BaseInv, NEW i \in Instances, status' = [status EXCEPT ![i] = "up"]
    PROVE  StatusKeeps(i)
  BY DEF BaseInv, Types, InstanceTypes, StatusKeeps

LEMMA RebaseKeeps ==
    ASSUME BaseInv, NEW i \in Instances, NEW etag \in Contents, Rebase(i, etag)
    PROVE  LeasesKeep(i)
  <1>1. leases[i] \in EntryType /\ InstanceOK(i)
    BY DEF BaseInv, Types, InstanceTypes
  <1>2. CASE leases[i].held
    BY <1>1, <1>2 DEF Rebase, BaseInv, Types, InstanceTypes, EntryType, InstanceOK, LeasesKeep
  <1>3. CASE ~leases[i].held
    BY <1>1, <1>3 DEF Rebase, BaseInv, Types, InstanceTypes, InstanceOK, LeasesKeep
  <1> QED BY <1>2, <1>3

LEMMA EnqueueUploadKeeps ==
    ASSUME BaseInv, NEW i \in Instances, EnqueueUpload(i)
    PROVE  LeasesKeep(i) /\ QueueKeeps(i)
  <1>1. leases[i] \in EntryType /\ InstanceOK(i)
    BY DEF BaseInv, Types, InstanceTypes
  <1>2. CASE leases[i].held
    <2> DEFINE e == [leases[i] EXCEPT !.dirty = TRUE, !.pendingDelete = FALSE]
    <2>1. e \in EntryType /\ e.held = leases[i].held /\ e.etag = leases[i].etag
          /\ e.refcount = leases[i].refcount
      BY <1>1 DEF EntryType
    <2>2. leases' = [leases EXCEPT ![i] = e]
      BY <1>2 DEF EnqueueUpload, BaseInv, Types, InstanceTypes
    <2> HIDE DEF e
    <2>3. LeasesKeep(i)
      BY <1>1, <2>1, <2>2, EntrySet DEF InstanceOK
    <2> QED BY <1>2, <2>3, SameKeeps DEF EnqueueUpload
  <1>3. CASE ~leases[i].held
    <2>1. <<Upload>> \in Seq(OperationType) /\ OneDelete(<<Upload>>)
      BY Queues DEF Contents
    <2> QED BY <1>3, <2>1, SameKeeps, QueueSet DEF EnqueueUpload
  <1> QED BY <1>2, <1>3

LEMMA EnqueueDeleteKeeps ==
    ASSUME BaseInv, NEW i \in Instances, EnqueueDelete(i)
    PROVE  LeasesKeep(i) /\ QueueKeeps(i) /\ CacheKeeps(i)
  <1>1. leases[i] \in EntryType /\ InstanceOK(i) /\ cache[i] \in Contents
    BY DEF BaseInv, Types, InstanceTypes
  <1>2. CASE leases[i].held
    <2> DEFINE e == [leases[i] EXCEPT !.pendingDelete = TRUE, !.dirty = FALSE]
    <2>1. e \in EntryType /\ e.held = leases[i].held /\ e.etag = leases[i].etag
          /\ e.refcount = leases[i].refcount
      BY <1>1 DEF EntryType
    <2>2. leases' = [leases EXCEPT ![i] = e]
      BY <1>2 DEF EnqueueDelete, BaseInv, Types, InstanceTypes
    <2> HIDE DEF e
    <2>3. LeasesKeep(i)
      BY <1>1, <2>1, <2>2, EntrySet DEF InstanceOK
    <2> QED BY <1>2, <2>3, SameKeeps DEF EnqueueDelete
  <1>3. CASE ~leases[i].held
    <2>1. <<Delete(cache[i])>> \in Seq(OperationType) /\ OneDelete(<<Delete(cache[i])>>)
      BY <1>1, Queues
    <2>2. CacheKeeps(i)
      BY <1>3, CacheSet DEF EnqueueDelete, Contents
    <2> QED BY <1>3, <2>1, <2>2, SameKeeps, QueueSet DEF EnqueueDelete
  <1> QED BY <1>2, <1>3

\* The other changes of a held entry.
EntryFrame(i, e) == e \in EntryType /\ e.held = leases[i].held /\ e.etag = leases[i].etag

LEMMA EntryChanges ==
    ASSUME BaseInv, NEW i \in Instances
    PROVE  /\ leases[i].refcount \in Nat /\ leases[i].etag \in LockETags
           /\ \A n \in Nat : LET e == [leases[i] EXCEPT !.refcount = n] IN
                              EntryFrame(i, e) /\ e.refcount = n
           /\ LET e == [leases[i] EXCEPT !.releasing = TRUE] IN
                 EntryFrame(i, e) /\ e.refcount = leases[i].refcount
           /\ \A v \in Contents : LET e == [leases[i] EXCEPT !.base = v] IN
                                   EntryFrame(i, e) /\ e.refcount = leases[i].refcount
  <1>1. leases[i] \in EntryType
    BY DEF BaseInv, Types, InstanceTypes
  <1> QED BY <1>1 DEF EntryType, EntryFrame

LEMMA EntryKeeps ==
    ASSUME BaseInv, NEW i \in Instances,
           \/ leases[i].held /\ leases' = [leases EXCEPT ![i].refcount = @ + 1]
           \/ leases' = [leases EXCEPT ![i].releasing = TRUE]
           \/ leases[i].refcount > 1 /\ leases' = [leases EXCEPT ![i].refcount = @ - 1]
           \/ \E v \in Contents : leases' = [leases EXCEPT ![i].base = v]
    PROVE  LeasesKeep(i)
  <1>1. InstanceOK(i) /\ leases[i].etag \in LockETags /\ leases[i].refcount \in Nat
        /\ leases \in [Instances -> EntryType]
    BY EntryChanges DEF BaseInv, Types, InstanceTypes
  <1>0. ASSUME NEW e, EntryFrame(i, e), leases' = [leases EXCEPT ![i] = e],
               e.refcount > 0 <=> leases[i].refcount > 0
        PROVE  LeasesKeep(i)
    BY <1>0, <1>1, EntrySet DEF InstanceOK, EntryFrame
  <1>2. ASSUME NEW n \in Nat, leases' = [leases EXCEPT ![i].refcount = n],
               n > 0 <=> leases[i].refcount > 0
        PROVE  LeasesKeep(i)
    <2>1. EntryFrame(i, [leases[i] EXCEPT !.refcount = n]) /\ [leases[i] EXCEPT !.refcount = n].refcount = n
      BY EntryChanges
    <2>2. leases' = [leases EXCEPT ![i] = [leases[i] EXCEPT !.refcount = n]]
      BY <1>1, <1>2
    <2> QED BY <1>0, <1>2, <2>1, <2>2
  <1>3. CASE leases[i].held /\ leases' = [leases EXCEPT ![i].refcount = @ + 1]
    <2>1. leases[i].refcount + 1 \in Nat /\ (leases[i].refcount + 1 > 0 <=> leases[i].refcount > 0)
      BY <1>1, <1>3 DEF InstanceOK
    <2> QED BY <1>2, <1>3, <2>1
  <1>4. CASE leases[i].refcount > 1 /\ leases' = [leases EXCEPT ![i].refcount = @ - 1]
    <2>1. leases[i].refcount - 1 \in Nat /\ (leases[i].refcount - 1 > 0 <=> leases[i].refcount > 0)
      BY <1>1, <1>4
    <2> QED BY <1>2, <1>4, <2>1
  <1>5. CASE leases' = [leases EXCEPT ![i].releasing = TRUE]
    <2> DEFINE e == [leases[i] EXCEPT !.releasing = TRUE]
    <2>1. EntryFrame(i, e) /\ e.refcount = leases[i].refcount
      BY EntryChanges
    <2>2. leases' = [leases EXCEPT ![i] = e]
      BY <1>5, <1>1
    <2> QED BY <1>0, <2>1, <2>2
  <1>6. ASSUME NEW v \in Contents, leases' = [leases EXCEPT ![i].base = v]
        PROVE  LeasesKeep(i)
    <2> DEFINE e == [leases[i] EXCEPT !.base = v]
    <2>1. EntryFrame(i, e) /\ e.refcount = leases[i].refcount
      BY EntryChanges
    <2>2. leases' = [leases EXCEPT ![i] = e]
      BY <1>6, <1>1
    <2> QED BY <1>0, <2>1, <2>2
  <1> QED BY <1>3, <1>4, <1>5, <1>6

LEMMA EntryGone ==
    ASSUME BaseInv, NEW i \in Instances, leases' = [leases EXCEPT ![i] = NoLease]
    PROVE  LeasesKeep(i)
  BY ConstantTypes DEF BaseInv, Types, InstanceTypes, LeasesKeep, NoLease

\* An open inserts the entry for the lock object that it acquired.
LEMMA InsertKeeps ==
    ASSUME BaseInv, NEW t \in Tasks, Pc(t) = "acquired", NEW base \in Contents,
           OpenInsert(t, base)
    PROVE  LeasesKeep(I(t)) /\ Ends(t, NoCall)
  <1> DEFINE e == [NoLease EXCEPT !.held = TRUE, !.base = base, !.refcount = 1,
                          !.etag = call[t].etag, !.epoch = call[t].body.epoch,
                          !.expires = call[t].body.expires]
  <1>1. I(t) \in Instances
    BY InstanceType
  <1>2. /\ call[t].etag \in LockETags /\ call[t].body \in Records
        /\ call[t].etag # Absent /\ call[t].etag.instance = I(t)
    BY DEF BaseInv, Types, TaskTypes, CallType, TaskOK, OwnOK
  <1>3. e \in EntryType /\ e.held /\ e.refcount = 1 /\ e.etag = call[t].etag
    BY <1>2 DEF NoLease, EntryType, Records
  <1>4. leases' = [leases EXCEPT ![I(t)] = e]
    BY DEF OpenInsert
  <1> HIDE DEF e
  <1>5. LeasesKeep(I(t))
    BY <1>1, <1>2, <1>3, <1>4 DEF BaseInv, Types, InstanceTypes, LeasesKeep
  <1>6. Ends(t, NoCall)
    BY FinishEnds DEF OpenInsert, BaseInv, Types
  <1> QED BY <1>5, <1>6

-----------------------------------------------------------------------------
(***************************************************************************)
(* Types and control: the actions.                                         *)
(***************************************************************************)

LEMMA Facts ==
    ASSUME BaseInv, NEW t \in Tasks
    PROVE  /\ I(t) \in Instances /\ TaskTypes /\ TaskOK(t)
           /\ task[t] \in TaskType /\ call[t] \in CallType
           /\ req[t] \in RequestType /\ resp[t] \in ResponseType
           /\ local[I(t)] \in Contents /\ cache[I(t)] \in Contents
           /\ leases[I(t)] \in EntryType /\ fds[I(t)] \in DescriptorType
           /\ queue[I(t)] \in Seq(OperationType)
           /\ synced \in SUBSET (1 .. MaxWrites) /\ used \in UsedType
           /\ InstanceOK(I(t))
  BY InstanceType DEF BaseInv, Types, TaskTypes, InstanceTypes, SharedTypes

\* A suspended task is alive, and so is one that is ready.
LEMMA Alive ==
    ASSUME BaseInv, NEW t \in Tasks, Ready(t) \/ task[t].pc # "idle"
    PROVE  /\ Live(t) /\ status[I(t)] # "dead"
           /\ Ready(t) => task[t].op = "none" /\ Pc(t) = "none"
  <1>1. ControlOK(t)
    BY DEF BaseInv, TaskOK
  <1> QED BY <1>1 DEF ControlOK, Idle, Ready, Live, LockPcs

\* The response to a file request holds a file.
LEMMA FileAnswer ==
    ASSUME BaseInv, NEW t \in Tasks, task[t].pc \in Pcs \ (LockPcs \union {"idle"})
    PROVE  /\ Live(t) /\ status[I(t)] # "dead" /\ resp[t].val \in Contents
           /\ task[t].op # "none"
           /\ Pc(t) = (IF task[t].op = "open" THEN "acquired" ELSE "none")
  <1>1. Live(t) /\ status[I(t)] # "dead"
    BY Alive
  <1>2. ControlOK(t) /\ AnswerOK(t)
    BY DEF BaseInv, TaskOK
  <1> QED BY <1>1, <1>2 DEF ControlOK, AnswerOK, KeyOf, Values

LEMMA StillAlive ==
    ASSUME NEW t \in Tasks, StatusKeeps(I(t))
    PROVE  Live(t)'
  BY DEF StatusKeeps, Live

LEMMA TaskSame ==
    ASSUME BaseInv, NEW t \in Tasks, Live(t), StatusKeeps(I(t)),
           UNCHANGED <<task, call, req, resp, now>>
    PROVE  TaskTypes' /\ TaskOK(t)' /\ TaskFrame(t)
  <1>1. Live(t)' <=> Live(t)
    BY StillAlive
  <1>2. TaskTypes' /\ TaskFrame(t)
    BY DEF BaseInv, Types, TaskTypes, TaskFrame
  <1>3. TaskOK(t)'
    BY <1>1, Untouched DEF BaseInv
  <1> QED BY <1>2, <1>3

\* A step that changes nothing of its instance.
LEMMA QuietKeeps ==
    ASSUME BaseInv, NEW t \in Tasks, Live(t),
           UNCHANGED <<localVars, fileLock, store, faults, now, used, synced>>
    PROVE  /\ LeasesKeep(I(t)) /\ FilesKeep(I(t)) /\ CacheKeeps(I(t))
           /\ QueueKeeps(I(t)) /\ StatusKeeps(I(t)) /\ SharedKeeps
           /\ Live(t)'
  BY SameKeeps, InstanceType, StillAlive DEF localVars, Live

LEMMA QuietStep ==
    ASSUME BaseInv, NEW t \in Tasks, Live(t),
           UNCHANGED <<localVars, fileLock, store, faults, now, used, synced>>,
           TaskTypes', TaskOK(t)', TaskFrame(t)
    PROVE  BaseInv'
  BY QuietKeeps, StepKeeps

LEMMA UploadOkBase ==
    ASSUME BaseInv, NEW t \in Tasks, task[t].pc \in {"upload", "recreate", "verify"},
           NEW etag \in Contents, UploadOk(t, etag),
           UNCHANGED <<fileLock, store, faults, now, used, status>>
    PROVE  BaseInv'
  <1> DEFINE i == I(t)
  <1>1. /\ Live(t) /\ status[i] # "dead" /\ i \in Instances
        /\ Pc(t) = (IF task[t].op = "open" THEN "acquired" ELSE "none")
    BY FileAnswer, Facts DEF Pcs, LockPcs
  <1>2. StatusKeeps(i) /\ QueueKeeps(i) /\ Live(t)'
    BY <1>1, SameKeeps, StillAlive DEF UploadOk
  <1>3. SharedKeeps
    <2>1. task[t].content.updates \in SUBSET (1 .. MaxWrites)
      BY Facts DEF TaskType, Files
    <2> QED BY <2>1, Facts DEF UploadOk, SharedKeeps
  <1>4. CacheKeeps(i)
    BY <1>1, CacheSet DEF UploadOk
  <1>5. CASE task[t].op = "open"
    <2>1. OpenInsert(t, etag) /\ LocalOpen(i, task[t].mode)
      BY <1>5 DEF UploadOk
    <2>2. LeasesKeep(i) /\ Ends(t, NoCall)
      BY <1>1, <1>5, <2>1, InsertKeeps
    <2>3. FilesKeep(i)
      BY <1>1, <2>1, OpenKeeps
    <2>4. TaskTypes' /\ TaskOK(t)' /\ TaskFrame(t)
      BY <2>2, Facts, EndsOK, ConstantTypes DEF NoCall
    <2> QED BY <1>1, <1>2, <1>3, <1>4, <2>2, <2>3, <2>4, StepKeeps
  <1>6. CASE task[t].op # "open"
    <2>1. Rebase(i, etag) /\ Proceed(t) /\ UNCHANGED <<local, fds>>
      BY <1>6 DEF UploadOk
    <2>2. LeasesKeep(i) /\ FilesKeep(i)
      BY <1>1, <2>1, RebaseKeeps, SameKeeps
    <2>3. TaskTypes' /\ TaskOK(t)' /\ TaskFrame(t)
      BY <1>1, <1>2, <2>1, Facts, ProceedProceeds, ProceedsOK DEF LockPcs
    <2> QED BY <1>1, <1>2, <1>3, <1>4, <2>2, <2>3, StepKeeps
  <1> QED BY <1>5, <1>6

LEMMA UploadErrorBase ==
    ASSUME BaseInv, NEW t \in Tasks, task[t].pc \in PushPcs, UploadError(t),
           UNCHANGED <<fileLock, store, faults, now, used, status>>
    PROVE  BaseInv'
  <1> DEFINE i == I(t)
  <1>1. Live(t) /\ status[i] # "dead" /\ i \in Instances
    BY FileAnswer, Facts DEF Pcs, LockPcs, PushPcs
  <1>2. /\ LeasesKeep(i) /\ FilesKeep(i) /\ CacheKeeps(i) /\ StatusKeeps(i) /\ SharedKeeps
        /\ Live(t)'
    BY <1>1, SameKeeps, StillAlive DEF UploadError
  <1>3. QueueKeeps(i)
    <2>1. Append(queue[i], Upload) \in Seq(OperationType) /\ OneDelete(Append(queue[i], Upload))
      BY <1>1, Queues DEF Contents
    <2>2. CASE task[t].op = "flush"
      BY <1>1, <2>1, <2>2, QueueSet DEF UploadError
    <2>3. CASE task[t].op # "flush"
      BY <1>1, <2>3, SameKeeps DEF UploadError
    <2> QED BY <2>2, <2>3
  <1>4. TaskTypes' /\ TaskOK(t)' /\ TaskFrame(t)
    BY <1>1, <1>2, Facts, ProceedProceeds, ProceedsOK DEF UploadError, LockPcs, PushPcs
  <1> QED BY <1>1, <1>2, <1>3, <1>4, StepKeeps

\* A push that goes on with another request.
LEMMA PushAgainBase ==
    ASSUME BaseInv, NEW t \in Tasks, task[t].pc \in PushPcs \union {"leaseDelete", "queueDelete"},
           NEW pc \in PushPcs, NEW r, FileRequest(r), Await(t, pc, r),
           UNCHANGED <<localVars, call, synced, fileLock, store, faults, now, used>>
    PROVE  BaseInv'
  <1>1. /\ Live(t) /\ Live(t)'
    BY FileAnswer, QuietKeeps DEF Pcs, LockPcs, PushPcs
  <1>2. FilePc(task[t].op, pc)
    BY Facts DEF TaskOK, ControlOK, FilePc, Pcs, LockPcs, PushPcs, TaskType
  <1>3. TaskTypes' /\ TaskOK(t)' /\ TaskFrame(t)
    BY <1>1, <1>2, Facts, AwaitAsks, AsksAgainOK DEF LockPcs, PushPcs
  <1> QED BY <1>1, <1>3, QuietStep

LEMMA UploadConflictBase ==
    ASSUME BaseInv, NEW t \in Tasks, task[t].pc \in {"upload", "uploadHead", "recreate"},
           UploadConflict(t), UNCHANGED <<fileLock, store, faults, now, used>>
    PROVE  BaseInv'
  <1> DEFINE content == local[I(t)]
  <1>1. CASE fileLock
    <2>1. Await(t, "refresh", Get("file")) /\ UNCHANGED <<localVars, call, synced>>
      BY <1>1 DEF UploadConflict
    <2> QED BY <2>1, PushAgainBase, FileRequests, ConstantTypes DEF PushPcs, Contents
  <1>2. CASE ~fileLock /\ content # Absent
    <2>1. /\ task' = [task EXCEPT ![t].pc = "upload", ![t].content = content, ![t].force = TRUE]
          /\ Send(t, PutAlways("file", content))
          /\ UNCHANGED <<localVars, call, synced>>
      BY <1>2 DEF UploadConflict
    <2> DEFINE ta == [task[t] EXCEPT !.pc = "upload", !.content = content, !.force = TRUE]
    <2>2. content \in Files
      BY <1>2, Facts DEF Contents
    <2>3. ta \in TaskType /\ ta.op = task[t].op /\ ta.pc = "upload" /\ ta.snap = task[t].snap
      BY <2>2, Facts DEF TaskType, Pcs
    <2>4. Moves(t, ta, call[t], PutAlways("file", content))
      BY <2>1, Facts DEF Moves, Send, TaskTypes
    <2> HIDE DEF ta
    <2>5. FilePc(ta.op, ta.pc)
      BY <2>3, Facts DEF TaskOK, ControlOK, FilePc, Pcs, LockPcs, PushPcs, TaskType
    <2>6. FileRequest(PutAlways("file", content))
      BY <2>2, FileRequests, ConstantTypes DEF Contents
    <2>7. /\ Live(t) /\ Live(t)'
          /\ Pc(t) = (IF ta.op = "open" THEN "acquired" ELSE "none")
      BY <2>1, <2>3, FileAnswer, QuietKeeps DEF Pcs, LockPcs
    <2>8. ta.op = "close" => ta.snap # Absent /\ ta.snap.instance = I(t)
      BY <2>3, Facts DEF TaskOK, OwnOK
    <2>9. TaskTypes' /\ TaskOK(t)' /\ TaskFrame(t)
      BY <2>3, <2>4, <2>5, <2>6, <2>7, <2>8, Facts, MovesOK
    <2> QED BY <2>1, <2>7, <2>9, QuietStep
  <1>3. CASE ~fileLock /\ content = Absent
    BY <1>3, UploadErrorBase DEF UploadConflict, PushPcs
  <1> QED BY <1>1, <1>2, <1>3

LEMMA UploadPutBase ==
    ASSUME BaseInv, NEW t \in Tasks, UploadPut(t), UNCHANGED fileLock
    PROVE  BaseInv'
  <1>1. task[t].pc = "upload" /\ UNCHANGED <<store, faults, now, used>>
    BY DEF UploadPut, Resumes
  <1>2. resp[t].val \in Contents /\ task[t].content \in Files /\ Absent \in Contents
    BY <1>1, FileAnswer, Facts DEF Pcs, LockPcs, TaskType, Contents
  <1>3. CASE UploadOk(t, resp[t].val) /\ UNCHANGED status
    BY <1>1, <1>2, <1>3, UploadOkBase
  <1>4. CASE UploadConflict(t)
    BY <1>1, <1>4, UploadConflictBase
  <1>5. CASE \/ Await(t, "recreate", PutIf("file", Absent, task[t].content))
             \/ Await(t, "uploadHead", Get("file"))
             \/ Await(t, "verify", Get("file"))
    <2>1. CASE UNCHANGED <<localVars, call, synced>>
      BY <1>1, <1>2, <1>5, <2>1, PushAgainBase, FileRequests DEF PushPcs
    <2>2. CASE ~UNCHANGED <<localVars, call, synced>>
      BY <1>3, <1>4, <2>2 DEF UploadPut
    <2> QED BY <2>1, <2>2
  <1> QED BY <1>3, <1>4, <1>5 DEF UploadPut

LEMMA UploadHeadBase ==
    ASSUME BaseInv, NEW t \in Tasks, UploadHead(t), UNCHANGED fileLock
    PROVE  BaseInv'
  <1>1. task[t].pc = "uploadHead" /\ UNCHANGED <<store, faults, now, used>>
    BY DEF UploadHead, Resumes
  <1>2. task[t].content \in Files /\ Absent \in Contents
    BY Facts DEF TaskType, Contents
  <1>3. CASE /\ Await(t, "recreate", PutIf("file", Absent, task[t].content))
             /\ UNCHANGED <<localVars, call, synced>>
    BY <1>1, <1>2, <1>3, PushAgainBase, FileRequests DEF PushPcs
  <1>4. CASE UploadConflict(t)
    BY <1>1, <1>4, UploadConflictBase
  <1>5. CASE UploadError(t) /\ UNCHANGED status
    BY <1>1, <1>5, UploadErrorBase DEF PushPcs
  <1> QED BY <1>3, <1>4, <1>5 DEF UploadHead

LEMMA UploadRecreateBase ==
    ASSUME BaseInv, NEW t \in Tasks, UploadRecreate(t), UNCHANGED fileLock
    PROVE  BaseInv'
  <1>1. task[t].pc = "recreate" /\ UNCHANGED <<store, faults, now, used>>
    BY DEF UploadRecreate, Resumes
  <1>2. resp[t].val \in Contents
    BY <1>1, FileAnswer DEF Pcs, LockPcs
  <1>3. CASE UploadOk(t, resp[t].val) /\ UNCHANGED status
    BY <1>1, <1>2, <1>3, UploadOkBase
  <1>4. CASE UploadConflict(t)
    BY <1>1, <1>4, UploadConflictBase
  <1>5. CASE UploadError(t) /\ UNCHANGED status
    BY <1>1, <1>5, UploadErrorBase DEF PushPcs
  <1> QED BY <1>3, <1>4, <1>5 DEF UploadRecreate

LEMMA UploadVerifiedBase ==
    ASSUME BaseInv, NEW t \in Tasks, UploadVerified(t), UNCHANGED fileLock
    PROVE  BaseInv'
  <1>1. task[t].pc = "verify" /\ UNCHANGED <<store, faults, now, used, status>>
    BY DEF UploadVerified, Resumes
  <1>2. resp[t].val \in Contents
    BY <1>1, FileAnswer DEF Pcs, LockPcs
  <1>3. CASE UploadOk(t, resp[t].val)
    BY <1>1, <1>2, <1>3, UploadOkBase
  <1>4. CASE UploadError(t)
    BY <1>1, <1>4, UploadErrorBase DEF PushPcs
  <1> QED BY <1>3, <1>4 DEF UploadVerified

LEMMA RefreshedBase ==
    ASSUME BaseInv, NEW t \in Tasks, Refreshed(t), UNCHANGED fileLock
    PROVE  BaseInv'
  <1> DEFINE i == I(t)
             val == resp[t].val
  <1>1. /\ task[t].pc = "refresh" /\ Proceed(t)
        /\ UNCHANGED <<store, faults, now, queue, fds, status, used, synced>>
    BY DEF Refreshed, Resumes
  <1>2. /\ Live(t) /\ status[i] # "dead" /\ i \in Instances
        /\ val \in Contents /\ Absent \in Contents
    BY <1>1, FileAnswer, Facts DEF Pcs, LockPcs, Contents
  <1>3. QueueKeeps(i) /\ StatusKeeps(i) /\ SharedKeeps /\ Live(t)'
    BY <1>1, <1>2, SameKeeps, StillAlive
  <1>4. LeasesKeep(i) /\ FilesKeep(i) /\ CacheKeeps(i)
    <2>1. CASE val # Absent /\ Download(i, val) /\ Rebase(i, val)
      BY <1>1, <1>2, <2>1, DownloadKeeps, RebaseKeeps
    <2>2. CASE /\ cache' = [cache EXCEPT ![i] = Absent]
               /\ leases' = [leases EXCEPT ![i].base = Absent]
               /\ UNCHANGED local
      BY <1>1, <1>2, <2>2, CacheSet, EntryKeeps, SameKeeps
    <2>3. CASE UNCHANGED <<local, cache, leases>>
      BY <1>1, <1>2, <2>3, SameKeeps
    <2> QED BY <2>1, <2>2, <2>3 DEF Refreshed
  <1>5. TaskTypes' /\ TaskOK(t)' /\ TaskFrame(t)
    BY <1>1, <1>2, <1>3, Facts, ProceedProceeds, ProceedsOK DEF LockPcs
  <1> QED BY <1>2, <1>3, <1>4, <1>5, StepKeeps

\* A lease call of t that is at ca and has sent r.
LockCall(t, ca, r) ==
    /\ ca \in CallType /\ r \in RequestType /\ r.op \in {"none", "get", "put"}
    /\ r.op # "none" => r.key = "lock" /\ r.etag \in LockETags /\ r.body \in LockETags
    /\ r.op = "put" =>
          /\ r.body # Absent /\ r.body.instance = I(t)
          /\ \/ r.cond = "ifNoneMatch"
             \/ /\ r.cond = "ifMatch" /\ r.etag # Absent
                /\ IsExpired(r.etag) \/ r.etag.instance = I(t)
    /\ ca.pc \in {"put", "verify", "acquired", "renew", "renewed"} => ca.body.instance = I(t)
    /\ ca.pc \in {"put", "renew"} => r.op = "put" /\ r.body = ca.body
    /\ ca.pc \in {"acquired", "renewed"} => ca.etag # Absent /\ ca.etag.instance = I(t)

\* Which lease call an operation may be waiting for.
LockPc(ta, pc) ==
    /\ ta.pc \in {"acquire", "renew", "release", "giveback"}
    /\ ta.pc = "acquire" => /\ ta.op = "open"
                            /\ pc \in {"get", "put", "verify", "sleep", "acquired", "busy", "failed"}
    /\ ta.pc = "giveback" => ta.op = "open"
    /\ ta.pc = "renew" => ta.op = "renew" /\ pc \in {"renew", "renewed", "lost", "renewFailed"}
    /\ ta.pc = "release" => ta.op \in {"open", "close"}
    /\ ta.pc \in {"release", "giveback"} => pc \in {"release", "released"}

LEMMA LockMovesOK ==
    ASSUME TaskTypes, NEW t \in Tasks, Live(t)', UNCHANGED now, NEW ta \in TaskType,
           NEW ca, NEW r, LockCall(t, ca, r), LockPc(ta, ca.pc), Moves(t, ta, ca, r)
    PROVE  TaskTypes' /\ TaskOK(t)' /\ TaskFrame(t)
  <1>1. TaskTypes'
    BY MovesTypes DEF LockCall
  <1>2. task'[t] = ta /\ call'[t] = ca /\ req'[t] = r /\ resp'[t] = NoResponse
        /\ TaskFrame(t) /\ Pc(t)' = ca.pc
    BY MovesTo DEF Pc
  <1>3. ControlOK(t)'
    BY <1>2 DEF ControlOK, LockPc, LockPcs, PushPcs
  <1>4. RequestOK(t)'
    BY <1>2 DEF RequestOK, LockCall, Values
  <1>5. AnswerOK(t)'
    BY <1>2 DEF AnswerOK, LockCall, NoResponse, Values, LockETags, LockPc, KeyOf, LockPcs
  <1>6. OwnOK(t)'
    <2>1. resp'[t].status = "none"
      BY <1>2 DEF NoResponse
    <2>2. \A record : IsExpired(record)' <=> IsExpired(record)
      BY DEF IsExpired
    <2>3. r.op = "put" => \/ r.cond = "ifNoneMatch"
                          \/ /\ r.cond = "ifMatch" /\ r.etag # Absent
                             /\ IsExpired(r.etag)' \/ r.etag.instance = I(t)
      BY <2>2 DEF LockCall
    <2> QED BY <1>2, <2>1, <2>3 DEF OwnOK, LockCall, LockPc
  <1> QED BY <1>1, <1>2, <1>3, <1>4, <1>5, <1>6 DEF TaskOK

LEMMA CallAcquireOK ==
    ASSUME BaseInv, NEW t \in Tasks, Live(t)', UNCHANGED now, NEW mode \in OpenModes,
           task' = [task EXCEPT ![t] = [Idle EXCEPT !.op = "open", !.pc = "acquire", !.mode = mode]],
           CallAcquire(t)
    PROVE  TaskTypes' /\ TaskOK(t)' /\ TaskFrame(t)
  <1> DEFINE ta == [Idle EXCEPT !.op = "open", !.pc = "acquire", !.mode = mode]
             ca == [NoCall EXCEPT !.pc = "get", !.deadline = now + LockTimeout]
             r == Get("lock")
  <1>1. ta \in TaskType /\ ta.pc = "acquire" /\ ta.op = "open"
    BY ConstantTypes DEF TaskType, Idle, Ops, Pcs
  <1>2. ca \in CallType /\ ca.pc = "get"
    <2>1. now + LockTimeout \in Nat
      BY LeaseAssumption DEF BaseInv, Types, SharedTypes
    <2> QED BY <2>1, ConstantTypes DEF CallType, NoCall, AwaitPcs
  <1>3. r \in RequestType /\ r.op = "get" /\ r.key = "lock" /\ r.etag = Absent /\ r.body = Absent
    BY RequestTypes DEF Get
  <1>4. Moves(t, ta, ca, r)
    BY DEF Moves, CallAcquire, Send
  <1> HIDE DEF ta, ca, r
  <1>5. LockCall(t, ca, r)
    BY <1>2, <1>3 DEF LockCall, LockETags
  <1>6. LockPc(ta, ca.pc)
    BY <1>1, <1>2 DEF LockPc
  <1> QED BY <1>1, <1>4, <1>5, <1>6, Facts, LockMovesOK

LEMMA OpenWriteBase ==
    ASSUME BaseInv, NEW t \in Tasks, OpenWrite(t), UNCHANGED fileLock
    PROVE  BaseInv'
  <1> DEFINE i == I(t)
  <1>1. /\ Ready(t) /\ used.open < MaxOpens /\ used' = [used EXCEPT !.open = @ + 1]
        /\ UNCHANGED <<store, faults, now, cache, queue, status, synced>>
    BY DEF OpenWrite
  <1>2. Live(t) /\ status[i] # "dead" /\ i \in Instances
    BY <1>1, Alive, Facts
  <1>3. CacheKeeps(i) /\ QueueKeeps(i) /\ StatusKeeps(i) /\ Live(t)'
    BY <1>1, <1>2, SameKeeps, StillAlive
  <1>4. SharedKeeps
    <2>1. used' \in UsedType
      BY <1>1, Facts, ManagerAssumption DEF UsedType
    <2> QED BY <1>1, <2>1, Facts DEF SharedKeeps
  <1>5. PICK mode \in OpenModes :
          \/ /\ LocalOpen(i, mode)
             /\ UNCHANGED <<leases, task, call, req, resp>>
          \/ /\ leases[i].held
             /\ leases' = [leases EXCEPT ![i].refcount = @ + 1]
             /\ LocalOpen(i, mode)
             /\ UNCHANGED <<task, call, req, resp>>
          \/ /\ task' = [task EXCEPT ![t] = [Idle EXCEPT !.op = "open", !.pc = "acquire",
                                                         !.mode = mode]]
             /\ CallAcquire(t)
             /\ UNCHANGED <<leases, local, fds>>
    BY DEF OpenWrite
  <1>6. LeasesKeep(i) /\ FilesKeep(i)
    BY <1>2, <1>5, SameKeeps, EntryKeeps, OpenKeeps
  <1>7. TaskTypes' /\ TaskOK(t)' /\ TaskFrame(t)
    BY <1>1, <1>2, <1>3, <1>5, TaskSame, CallAcquireOK
  <1> QED BY <1>2, <1>3, <1>4, <1>6, <1>7, StepKeeps

LEMMA OpenFailedBase ==
    ASSUME BaseInv, NEW t \in Tasks, OpenFailed(t), UNCHANGED fileLock
    PROVE  BaseInv'
  <1>1. Live(t)
    BY Alive DEF OpenFailed
  <1>2. Ends(t, NoCall)
    BY Facts, FinishEnds DEF OpenFailed
  <1>3. TaskTypes' /\ TaskOK(t)' /\ TaskFrame(t)
    BY <1>2, Facts, EndsOK, ConstantTypes DEF NoCall
  <1> QED BY <1>1, <1>3, QuietStep DEF OpenFailed

LEMMA OpenAcquiredBase ==
    ASSUME BaseInv, NEW t \in Tasks, OpenAcquired(t), UNCHANGED fileLock
    PROVE  BaseInv'
  <1> DEFINE i == I(t)
             pending == \E n \in 1 .. Len(queue[i]) : queue[i][n] = Upload
  <1>1. /\ task[t].pc = "acquire" /\ Pc(t) = "acquired"
        /\ UNCHANGED <<store, faults, now, local, cache, fds, status, used, synced>>
    BY DEF OpenAcquired
  <1>2. Live(t) /\ status[i] # "dead" /\ i \in Instances /\ task[t].op = "open"
    BY <1>1, Alive, Facts DEF TaskOK, ControlOK
  <1>3. /\ FilesKeep(i) /\ CacheKeeps(i) /\ StatusKeeps(i) /\ SharedKeeps /\ Live(t)'
    BY <1>1, <1>2, SameKeeps, StillAlive
  <1>4. call[t].etag \in Records /\ call[t].etag # Absent /\ call[t].etag.instance = i
    BY <1>1, Facts DEF TaskOK, OwnOK, CallType, LockETags
  <1>5. CASE /\ leases[i].held
             /\ leases' = [leases EXCEPT ![i].refcount = @ + 1]
             /\ task' = [task EXCEPT ![t].pc = "giveback"]
             /\ CallRelease(t, call[t].etag)
             /\ UNCHANGED queue
    <2>1. LeasesKeep(i) /\ QueueKeeps(i)
      BY <1>2, <1>5, EntryKeeps, SameKeeps
    <2> DEFINE ta == [task[t] EXCEPT !.pc = "giveback"]
    <2>2. ta \in TaskType /\ ta.op = "open" /\ ta.pc = "giveback"
      BY <1>2, Facts DEF TaskType, Pcs
    <2>3. Moves(t, ta, [NoCall EXCEPT !.pc = "release", !.etag = call[t].etag],
                DeleteIf("lock", call[t].etag))
      BY <1>5, Facts DEF CallRelease, Moves, Send, TaskTypes
    <2> HIDE DEF ta
    <2>4. TaskTypes' /\ TaskOK(t)' /\ TaskFrame(t)
      BY <1>3, <1>4, <2>2, <2>3, Facts, ReleasesOK
    <2> QED BY <1>2, <1>3, <2>1, <2>4, StepKeeps
  <1>6. CASE /\ queue' = [queue EXCEPT ![i] = RetainDelete(@)]
             /\ IF local[i] = Absent THEN OpenAbort(t)
                ELSE StartUpload(t, "open", local[i], cache[i], Absent) /\ UNCHANGED call
             /\ UNCHANGED leases
    <2>1. LeasesKeep(i)
      BY <1>2, <1>6, SameKeeps
    <2>2. QueueKeeps(i)
      <3>1. RetainDelete(queue[i]) \in Seq(OperationType) /\ OneDelete(RetainDelete(queue[i]))
        BY <1>2, Queues DEF Contents
      <3> QED BY <1>2, <1>6, <3>1, QueueSet
    <2>3. TaskTypes' /\ TaskOK(t)' /\ TaskFrame(t)
      <3>1. CASE local[i] = Absent
        <4>1. GivesBack(t, "open", call[t].etag)
          BY <1>6, <3>1, Facts, ReleaseGivesBack DEF OpenAbort
        <4> QED BY <1>3, <1>4, <4>1, Facts, GivesBackOK DEF LockETags
      <3>2. CASE local[i] # Absent
        <4>1. Pushes(t, "open", local[i], cache[i], Absent)
          BY <1>6, <3>2, Facts, UploadPushes
        <4>2. local[i] \in Files /\ cache[i] \in Contents /\ Absent \in LockETags
          BY <3>2, Facts DEF Contents, LockETags
        <4> QED BY <1>1, <1>3, <4>1, <4>2, Facts, PushesOK
      <3> QED BY <3>1, <3>2
    <2> QED BY <1>2, <1>3, <2>1, <2>2, <2>3, StepKeeps
  <1>7. CASE Await(t, "head", Get("file")) /\ UNCHANGED <<leases, queue, call>>
    <2>1. LeasesKeep(i) /\ QueueKeeps(i)
      BY <1>2, <1>7, SameKeeps
    <2>2. FilePc("open", "head") /\ FileRequest(Get("file"))
      BY FileRequests, ConstantTypes DEF FilePc, Pcs, Ops, LockPcs, PushPcs, Contents
    <2>3. Asks(t, "open", "head", Get("file"))
      BY <1>2, <1>7, Facts, AwaitAsks
    <2>4. TaskTypes' /\ TaskOK(t)' /\ TaskFrame(t)
      BY <1>1, <1>3, <2>2, <2>3, Facts, AsksOK
    <2> QED BY <1>2, <1>3, <2>1, <2>4, StepKeeps
  <1> QED BY <1>5, <1>6, <1>7 DEF OpenAcquired

\* The end of head_and_refresh.
LEMMA HeadDoneOK ==
    ASSUME BaseInv, NEW t \in Tasks, task[t].pc \in {"head", "get"},
           NEW base \in Contents, HeadDone(t, base), StatusKeeps(I(t))
    PROVE  LeasesKeep(I(t)) /\ TaskTypes' /\ TaskOK(t)' /\ TaskFrame(t)
  <1>1. /\ I(t) \in Instances /\ Live(t)'
        /\ Pc(t) = (IF task[t].op = "open" THEN "acquired" ELSE "none")
    BY FileAnswer, Facts, StillAlive DEF Pcs, LockPcs
  <1>2. CASE task[t].op = "open"
    <2>1. LeasesKeep(I(t)) /\ Ends(t, NoCall)
      BY <1>1, <1>2, InsertKeeps DEF HeadDone
    <2> QED BY <2>1, Facts, EndsOK, ConstantTypes DEF NoCall
  <1>3. CASE task[t].op # "open"
    <2>1. LeasesKeep(I(t)) /\ Ends(t, call[t])
      BY <1>1, <1>3, Facts, SameKeeps, FinishEnds DEF HeadDone
    <2> QED BY <1>1, <1>3, <2>1, Facts, EndsOK DEF Pc
  <1> QED BY <1>2, <1>3

LEMMA HeadAnsweredBase ==
    ASSUME BaseInv, NEW t \in Tasks, HeadAnswered(t), UNCHANGED fileLock
    PROVE  BaseInv'
  <1> DEFINE i == I(t)
             val == resp[t].val
  <1>1. task[t].pc = "head" /\ UNCHANGED <<store, faults, now, cache, queue, status, used, synced>>
    BY DEF HeadAnswered, Resumes
  <1>2. Live(t) /\ status[i] # "dead" /\ i \in Instances /\ val \in Contents
    BY <1>1, FileAnswer, Facts DEF Pcs, LockPcs
  <1>3. CacheKeeps(i) /\ QueueKeeps(i) /\ StatusKeeps(i) /\ SharedKeeps /\ Live(t)'
    BY <1>1, <1>2, SameKeeps, StillAlive
  <1>4. CASE /\ HeadDone(t, val)
             /\ IF task[t].op = "open" THEN LocalOpen(i, task[t].mode)
                ELSE UNCHANGED <<local, fds>>
    <2>1. FilesKeep(i)
      BY <1>2, <1>4, OpenKeeps, SameKeeps
    <2> QED BY <1>1, <1>2, <1>3, <1>4, <2>1, HeadDoneOK, StepKeeps
  <1>5. CASE Await(t, "get", Get("file")) /\ UNCHANGED <<leases, call, local, fds>>
    <2>1. LeasesKeep(i) /\ FilesKeep(i)
      BY <1>2, <1>5, SameKeeps
    <2>2. FilePc(task[t].op, "get") /\ FileRequest(Get("file"))
      BY <1>1, Facts, FileRequests, ConstantTypes
         DEF TaskOK, ControlOK, FilePc, Pcs, Ops, LockPcs, PushPcs, Contents
    <2>3. TaskTypes' /\ TaskOK(t)' /\ TaskFrame(t)
      BY <1>1, <1>3, <1>5, <2>2, Facts, AwaitAsks, AsksAgainOK DEF LockPcs
    <2> QED BY <1>2, <1>3, <2>1, <2>3, StepKeeps
  <1>6. CASE Proceed(t) /\ UNCHANGED <<leases, local, fds>>
    <2>1. LeasesKeep(i) /\ FilesKeep(i)
      BY <1>2, <1>6, SameKeeps
    <2>2. TaskTypes' /\ TaskOK(t)' /\ TaskFrame(t)
      BY <1>1, <1>2, <1>3, <1>6, Facts, ProceedProceeds, ProceedsOK DEF LockPcs
    <2> QED BY <1>2, <1>3, <2>1, <2>2, StepKeeps
  <1> QED BY <1>4, <1>5, <1>6 DEF HeadAnswered

LEMMA HeadGotBase ==
    ASSUME BaseInv, NEW t \in Tasks, HeadGot(t), UNCHANGED fileLock
    PROVE  BaseInv'
  <1> DEFINE i == I(t)
             val == resp[t].val
             opens == task[t].op = "open"
  <1>1. task[t].pc = "get" /\ UNCHANGED <<store, faults, now, queue, status, used, synced>>
    BY DEF HeadGot, Resumes
  <1>2. Live(t) /\ status[i] # "dead" /\ i \in Instances /\ val \in Contents /\ Absent \in Contents
    BY <1>1, FileAnswer, Facts DEF Pcs, LockPcs, Contents
  <1>3. QueueKeeps(i) /\ StatusKeeps(i) /\ SharedKeeps /\ Live(t)'
    BY <1>1, <1>2, SameKeeps, StillAlive
  <1>4. CASE /\ val # Absent /\ HeadDone(t, val)
             /\ cache' = [cache EXCEPT ![i] = val]
             /\ local' = [local EXCEPT ![i] = IF opens /\ task[t].mode = "truncate"
                                              THEN EmptyFile ELSE val]
             /\ fds' = [fds EXCEPT ![i].linked = IF opens THEN @ + 1 ELSE @]
    <2>1. CacheKeeps(i)
      BY <1>2, <1>4, CacheSet
    <2> DEFINE n == IF opens THEN fds[i].linked + 1 ELSE fds[i].linked
               d == [fds[i] EXCEPT !.linked = n]
    <2>2. d \in DescriptorType
      <3>1. n \in Nat
        BY Facts DEF DescriptorType
      <3> QED BY <3>1, Facts DEF DescriptorType
    <2>3. fds' = [fds EXCEPT ![i] = d]
      BY <1>4 DEF BaseInv, Types, InstanceTypes
    <2> HIDE DEF d, n
    <2>4. local' \in [Instances -> Contents] /\ local'[i] # Absent
      BY <1>2, <1>4, ConstantTypes, AbsentAssumption DEF BaseInv, Types, InstanceTypes, Contents
    <2>5. FilesKeep(i)
      BY <1>2, <1>4, <2>2, <2>3, <2>4 DEF FilesKeep, BaseInv, Types, InstanceTypes
    <2> QED BY <1>1, <1>2, <1>3, <1>4, <2>1, <2>5, HeadDoneOK, StepKeeps
  <1>5. CASE /\ HeadDone(t, Absent)
             /\ IF opens THEN LocalOpen(i, task[t].mode) ELSE UNCHANGED <<local, fds>>
             /\ UNCHANGED cache
    <2>1. FilesKeep(i) /\ CacheKeeps(i)
      BY <1>2, <1>5, OpenKeeps, SameKeeps
    <2> QED BY <1>1, <1>2, <1>3, <1>5, <2>1, HeadDoneOK, StepKeeps
  <1>6. CASE Proceed(t) /\ UNCHANGED <<leases, local, cache, fds>>
    <2>1. LeasesKeep(i) /\ FilesKeep(i) /\ CacheKeeps(i)
      BY <1>2, <1>6, SameKeeps
    <2>2. TaskTypes' /\ TaskOK(t)' /\ TaskFrame(t)
      BY <1>1, <1>2, <1>3, <1>6, Facts, ProceedProceeds, ProceedsOK DEF LockPcs
    <2> QED BY <1>2, <1>3, <2>1, <2>2, StepKeeps
  <1> QED BY <1>4, <1>5, <1>6 DEF HeadGot

LEMMA ReleasedBase ==
    ASSUME BaseInv, NEW t \in Tasks, Released(t), UNCHANGED fileLock
    PROVE  BaseInv'
  <1> DEFINE i == I(t)
  <1>1. /\ task[t].pc \in {"release", "giveback"}
        /\ UNCHANGED <<store, faults, now, cache, queue, status, used, synced>>
    BY DEF Released
  <1>2. Live(t) /\ status[i] # "dead" /\ i \in Instances
    BY <1>1, Alive, Facts
  <1>3. CacheKeeps(i) /\ QueueKeeps(i) /\ StatusKeeps(i) /\ SharedKeeps
    BY <1>1, <1>2, SameKeeps
  <1>4. LeasesKeep(i) /\ FilesKeep(i)
    BY <1>2, EntryGone, OpenKeeps, SameKeeps DEF Released
  <1>5. Ends(t, NoCall)
    BY Facts, FinishEnds DEF Released
  <1>6. TaskTypes' /\ TaskOK(t)' /\ TaskFrame(t)
    BY <1>5, Facts, EndsOK, ConstantTypes DEF NoCall
  <1> QED BY <1>2, <1>3, <1>4, <1>6, StepKeeps

\* flush_lease of a snapshot of the lease.
LEMMA FlushLeaseOK ==
    ASSUME BaseInv, NEW t \in Tasks, Ready(t), StatusKeeps(I(t)), UNCHANGED now,
           NEW op \in {"close", "fsync"}, NEW l \in EntryType,
           l.etag # Absent, l.etag.instance = I(t), FlushLease(t, op, l)
    PROVE  CacheKeeps(I(t)) /\ TaskTypes' /\ TaskOK(t)' /\ TaskFrame(t)
  <1> DEFINE i == I(t)
  <1>1. /\ i \in Instances /\ Live(t) /\ Live(t)' /\ task[t].op = "none" /\ Pc(t) = "none"
        /\ l.base \in Contents /\ l.etag \in LockETags /\ Absent \in Contents
    BY Facts, Alive, StillAlive DEF EntryType, Contents
  <1>2. CASE l.pendingDelete /\ l.base # Absent
    <2> DEFINE ta == [task[t] EXCEPT !.op = op, !.pc = "leaseDelete", !.snap = l.etag]
    <2>1. /\ task' = [task EXCEPT ![t].op = op, ![t].pc = "leaseDelete", ![t].snap = l.etag]
          /\ Send(t, DeleteIf("file", l.base))
          /\ UNCHANGED <<call, cache>>
      BY <1>2 DEF FlushLease
    <2>2. ta \in TaskType /\ ta.op = op /\ ta.pc = "leaseDelete" /\ ta.snap = l.etag
      BY <1>1, Facts DEF TaskType, Pcs, Ops
    <2>3. Moves(t, ta, call[t], DeleteIf("file", l.base))
      BY <2>1, Facts DEF Moves, Send, TaskTypes, TaskType
    <2> HIDE DEF ta
    <2>4. FilePc(ta.op, ta.pc) /\ FileRequest(DeleteIf("file", l.base))
      BY <1>1, <2>2, FileRequests, ConstantTypes DEF FilePc, Pcs, Ops, LockPcs, PushPcs
    <2>5. TaskTypes' /\ TaskOK(t)' /\ TaskFrame(t)
      BY <1>1, <2>2, <2>3, <2>4, Facts, MovesOK
    <2> QED BY <1>1, <2>1, <2>5, SameKeeps
  <1>3. ASSUME IF op = "close" THEN StartRelease(t, op, l.etag) ELSE Finish(t) /\ UNCHANGED call
        PROVE  TaskTypes' /\ TaskOK(t)' /\ TaskFrame(t)
    <2>1. CASE op = "close"
      <3>1. GivesBack(t, op, l.etag)
        BY <1>3, <2>1, Facts, ReleaseGivesBack
      <3> QED BY <1>1, <2>1, <3>1, Facts, GivesBackOK
    <2>2. CASE op # "close"
      <3>1. Ends(t, call[t])
        BY <1>3, <2>2, Facts, FinishEnds
      <3> QED BY <1>1, <3>1, Facts, EndsOK DEF Pc
    <2> QED BY <2>1, <2>2
  <1>4. CASE l.pendingDelete /\ l.base = Absent
    <2>1. cache' = [cache EXCEPT ![i] = Absent]
      BY <1>4 DEF FlushLease
    <2> QED BY <1>1, <1>3, <1>4, <2>1, CacheSet DEF FlushLease
  <1>5. CASE ~l.pendingDelete /\ l.dirty /\ local[i] # Absent
    <2>1. Pushes(t, op, local[i], l.base, l.etag) /\ UNCHANGED cache
      BY <1>5, Facts, UploadPushes DEF FlushLease
    <2>2. local[i] \in Files
      BY <1>5, Facts DEF Contents
    <2> QED BY <1>1, <2>1, <2>2, Facts, PushesOK, SameKeeps
  <1>6. CASE ~l.pendingDelete /\ ~(l.dirty /\ local[i] # Absent)
    BY <1>1, <1>3, <1>6, SameKeeps DEF FlushLease
  <1> QED BY <1>2, <1>4, <1>5, <1>6

LEMMA WriteBase ==
    ASSUME BaseInv, NEW t \in Tasks, Write(t), UNCHANGED fileLock
    PROVE  BaseInv'
  <1> DEFINE i == I(t)
             update == used.write + 1
             written == File(local[i].updates \union {update})
  <1>1. /\ Ready(t) /\ used.write < MaxWrites /\ used' = [used EXCEPT !.write = update]
        /\ UNCHANGED <<store, faults, now, call, cache, fds, status, synced>>
    BY DEF Write
  <1>2. Live(t) /\ status[i] # "dead" /\ i \in Instances /\ Pc(t) = "none"
    BY <1>1, Alive, Facts
  <1>3. CacheKeeps(i) /\ StatusKeeps(i) /\ Live(t)'
    BY <1>1, <1>2, SameKeeps, StillAlive
  <1>4. update \in 1 .. MaxWrites
    BY <1>1, Facts, ManagerAssumption DEF UsedType
  <1>5. SharedKeeps
    <2>1. used' \in UsedType
      BY <1>1, <1>4, Facts, ManagerAssumption DEF UsedType
    <2> QED BY <1>1, <2>1, Facts DEF SharedKeeps
  <1>6. PICK content :
          /\ \/ fds[i].linked > 0 /\ content = written
             \/ content = local[i]
          /\ local' = [local EXCEPT ![i] = content]
          /\ IF ~Realtime
             THEN EnqueueUpload(i) /\ UNCHANGED <<task, req, resp>>
             ELSE /\ IF content = Absent THEN UNCHANGED <<task, req, resp>>
                     ELSE StartUpload(t, "write", content, CondForUpload(i), Absent)
                  /\ UNCHANGED <<leases, queue>>
    <2>1. PICK content \in (IF fds[i].linked > 0 THEN {written} ELSE {})
            \union (IF fds[i].orphan > 0 /\ OrphanWrites THEN {local[i]} ELSE {}) :
          /\ local' = [local EXCEPT ![i] = content]
          /\ IF ~Realtime
             THEN EnqueueUpload(i) /\ UNCHANGED <<task, req, resp>>
             ELSE /\ IF content = Absent THEN UNCHANGED <<task, req, resp>>
                     ELSE StartUpload(t, "write", content, CondForUpload(i), Absent)
                  /\ UNCHANGED <<leases, queue>>
      BY DEF Write
    <2>2. \/ fds[i].linked > 0 /\ content = written
          \/ content = local[i]
      BY <2>1
    <2> QED BY <2>1, <2>2
  <1>7. /\ content \in Contents
        /\ fds[i].linked > 0 => content # Absent
    <2>1. fds[i].linked > 0 => local[i] \in Files
      BY Facts DEF InstanceOK, Contents
    <2>2. fds[i].linked > 0 => written \in Files
      BY <1>4, <2>1 DEF Files, File
    <2> QED BY <1>6, <2>1, <2>2, Facts, AbsentAssumption DEF Contents
  <1>8. FilesKeep(i)
    BY <1>1, <1>2, <1>6, <1>7 DEF FilesKeep, BaseInv, Types, InstanceTypes
  <1>9. LeasesKeep(i) /\ QueueKeeps(i)
    BY <1>2, <1>6, EnqueueUploadKeeps, SameKeeps
  <1>10. TaskTypes' /\ TaskOK(t)' /\ TaskFrame(t)
    <2>1. CASE UNCHANGED <<task, req, resp>>
      BY <1>1, <1>2, <1>3, <2>1, TaskSame
    <2>2. CASE content # Absent /\ StartUpload(t, "write", content, CondForUpload(i), Absent)
      <3>1. Pushes(t, "write", content, CondForUpload(i), Absent)
        BY <1>1, <2>2, Facts, UploadPushes
      <3>2. content \in Files /\ CondForUpload(i) \in Contents /\ Absent \in LockETags
        BY <1>7, <2>2, Facts DEF CondForUpload, EntryType, Contents, LockETags
      <3> QED BY <1>1, <1>2, <1>3, <3>1, <3>2, Facts, PushesOK
    <2> QED BY <1>6, <2>1, <2>2
  <1> QED BY <1>2, <1>3, <1>5, <1>8, <1>9, <1>10, StepKeeps

LEMMA UnlinkBase ==
    ASSUME BaseInv, NEW t \in Tasks, Unlink(t), UNCHANGED fileLock
    PROVE  BaseInv'
  <1> DEFINE i == I(t)
  <1>1. /\ Ready(t) /\ used.unlink < MaxUnlinks /\ used' = [used EXCEPT !.unlink = @ + 1]
        /\ LocalUnlink(i) /\ EnqueueDelete(i)
        /\ UNCHANGED <<store, faults, now, req, resp, call, status, task, synced>>
    BY DEF Unlink
  <1>2. Live(t) /\ status[i] # "dead" /\ i \in Instances
    BY <1>1, Alive, Facts
  <1>3. StatusKeeps(i) /\ FilesKeep(i) /\ LeasesKeep(i) /\ QueueKeeps(i) /\ CacheKeeps(i)
    BY <1>1, <1>2, SameKeeps, UnlinkKeeps, EnqueueDeleteKeeps
  <1>4. SharedKeeps
    <2>1. used' \in UsedType
      BY <1>1, Facts, ManagerAssumption DEF UsedType
    <2> QED BY <1>1, <2>1, Facts DEF SharedKeeps
  <1>5. TaskTypes' /\ TaskOK(t)' /\ TaskFrame(t)
    BY <1>1, <1>2, <1>3, TaskSame
  <1> QED BY <1>2, <1>3, <1>4, <1>5, StepKeeps

LEMMA FsyncBase ==
    ASSUME BaseInv, NEW t \in Tasks, Fsync(t), UNCHANGED fileLock
    PROVE  BaseInv'
  <1> DEFINE i == I(t)
             l == IF FsyncMarks /\ leases[i].held
                  THEN [leases[i] EXCEPT !.dirty = TRUE, !.pendingDelete = FALSE] ELSE leases[i]
             clean == l.held /\ ~l.dirty /\ ~l.pendingDelete
  <1>1. /\ Ready(t)
        /\ UNCHANGED <<store, faults, now, local, fds, status, used>>
        /\ IF FsyncMarks THEN EnqueueUpload(i) ELSE UNCHANGED <<leases, queue>>
        /\ synced' = IF clean /\ local[i] # Absent THEN synced \union local[i].updates ELSE synced
    BY DEF Fsync
  <1>2. \/ l.held /\ FlushLease(t, "fsync", l)
        \/ /\ ~l.held /\ local[i] # Absent
           /\ StartUpload(t, "fsync", local[i], cache[i], Absent) /\ UNCHANGED <<call, cache>>
        \/ UNCHANGED <<task, req, resp, call, cache>>
    BY DEF Fsync
  <1>3. Live(t) /\ status[i] # "dead" /\ i \in Instances /\ Pc(t) = "none"
    BY <1>1, Alive, Facts
  <1>4. StatusKeeps(i) /\ FilesKeep(i) /\ LeasesKeep(i) /\ QueueKeeps(i) /\ Live(t)'
    BY <1>1, <1>3, SameKeeps, EnqueueUploadKeeps, StillAlive
  <1>5. SharedKeeps
    <2>1. local[i] # Absent => local[i].updates \in SUBSET (1 .. MaxWrites)
      BY Facts DEF Contents, Files
    <2>2. synced' \in SUBSET (1 .. MaxWrites)
      BY <1>1, <2>1, Facts
    <2> QED BY <1>1, <2>2, Facts DEF SharedKeeps
  <1>6. l \in EntryType /\ l.held = leases[i].held /\ l.etag = leases[i].etag
    BY Facts DEF EntryType
  <1>7. CacheKeeps(i) /\ TaskTypes' /\ TaskOK(t)' /\ TaskFrame(t)
    <2>1. CASE l.held /\ FlushLease(t, "fsync", l)
      <3>1. l.etag # Absent /\ l.etag.instance = i
        BY <1>6, <2>1, Facts DEF InstanceOK
      <3> HIDE DEF l
      <3> QED BY <1>1, <1>4, <1>6, <2>1, <3>1, FlushLeaseOK
    <2>2. CASE /\ local[i] # Absent
               /\ StartUpload(t, "fsync", local[i], cache[i], Absent) /\ UNCHANGED <<call, cache>>
      <3>1. Pushes(t, "fsync", local[i], cache[i], Absent)
        BY <2>2, Facts, UploadPushes
      <3>2. local[i] \in Files /\ cache[i] \in Contents /\ Absent \in LockETags
        BY <2>2, Facts DEF Contents, LockETags
      <3> QED BY <1>1, <1>3, <1>4, <2>2, <3>1, <3>2, Facts, PushesOK, SameKeeps
    <2>3. CASE UNCHANGED <<task, req, resp, call, cache>>
      BY <1>1, <1>3, <1>4, <2>3, TaskSame, SameKeeps
    <2> QED BY <1>2, <2>1, <2>2, <2>3
  <1> QED BY <1>3, <1>4, <1>5, <1>7, StepKeeps

LEMMA LeaseDeletedBase ==
    ASSUME BaseInv, NEW t \in Tasks, LeaseDeleted(t), UNCHANGED fileLock
    PROVE  BaseInv'
  <1> DEFINE i == I(t)
  <1>1. /\ task[t].pc = "leaseDelete"
        /\ UNCHANGED <<store, faults, now, local, leases, queue, fds, status, used, synced>>
    BY DEF LeaseDeleted, Resumes
  <1>2. Live(t) /\ status[i] # "dead" /\ i \in Instances /\ Absent \in Contents
    BY <1>1, FileAnswer, Facts DEF Pcs, LockPcs, Contents
  <1>3. LeasesKeep(i) /\ FilesKeep(i) /\ QueueKeeps(i) /\ StatusKeeps(i) /\ SharedKeeps /\ Live(t)'
    BY <1>1, <1>2, SameKeeps, StillAlive
  <1>4. CASE Proceed(t) /\ (cache' = [cache EXCEPT ![i] = Absent] \/ UNCHANGED cache)
    <2>1. CacheKeeps(i)
      BY <1>2, <1>4, CacheSet, SameKeeps
    <2>2. TaskTypes' /\ TaskOK(t)' /\ TaskFrame(t)
      BY <1>1, <1>2, <1>3, <1>4, Facts, ProceedProceeds, ProceedsOK DEF LockPcs
    <2> QED BY <1>2, <1>3, <2>1, <2>2, StepKeeps
  <1>5. CASE Await(t, "refresh", Get("file")) /\ UNCHANGED <<cache, call>>
    BY <1>1, <1>2, <1>5, PushAgainBase, FileRequests, ConstantTypes DEF PushPcs, localVars
  <1> QED BY <1>4, <1>5 DEF LeaseDeleted

LEMMA CloseBase ==
    ASSUME BaseInv, NEW t \in Tasks, Close(t), UNCHANGED fileLock
    PROVE  BaseInv'
  <1> DEFINE i == I(t)
             l == leases[i]
  <1>1. /\ Ready(t) /\ UNCHANGED <<store, faults, now, local, queue, status, used, synced>>
    BY DEF Close
  <1>2. Live(t) /\ status[i] # "dead" /\ i \in Instances
    BY <1>1, Alive, Facts
  <1>3. StatusKeeps(i) /\ QueueKeeps(i) /\ SharedKeeps
    BY <1>1, <1>2, SameKeeps
  <1>4. FilesKeep(i)
    <2>1. \/ fds[i].linked > 0 /\ fds' = [fds EXCEPT ![i].linked = @ - 1]
          \/ fds[i].orphan > 0 /\ fds' = [fds EXCEPT ![i].orphan = @ - 1]
      BY DEF Close
    <2>2. CASE fds[i].linked > 0 /\ fds' = [fds EXCEPT ![i].linked = @ - 1]
      <3> DEFINE d == [fds[i] EXCEPT !.linked = fds[i].linked - 1]
      <3>1. fds[i].linked - 1 \in Nat
        BY <2>2, Facts DEF DescriptorType
      <3>2. d \in DescriptorType
        BY <3>1, Facts DEF DescriptorType
      <3>3. fds' = [fds EXCEPT ![i] = d]
        BY <2>2 DEF BaseInv, Types, InstanceTypes
      <3> HIDE DEF d
      <3> QED BY <1>1, <1>2, <2>2, <3>2, <3>3, Facts
              DEF FilesKeep, BaseInv, Types, InstanceTypes, InstanceOK
    <2>3. CASE fds[i].orphan > 0 /\ fds' = [fds EXCEPT ![i].orphan = @ - 1]
      <3> DEFINE d == [fds[i] EXCEPT !.orphan = fds[i].orphan - 1]
      <3>1. fds[i].orphan - 1 \in Nat
        BY <2>3, Facts DEF DescriptorType
      <3>2. d \in DescriptorType /\ d.linked = fds[i].linked
        BY <3>1, Facts DEF DescriptorType
      <3>3. fds' = [fds EXCEPT ![i] = d]
        BY <2>3 DEF BaseInv, Types, InstanceTypes
      <3> HIDE DEF d
      <3> QED BY <1>1, <1>2, <3>2, <3>3, Facts
              DEF FilesKeep, BaseInv, Types, InstanceTypes, InstanceOK
    <2> QED BY <2>1, <2>2, <2>3
  <1>5. CASE UNCHANGED <<leases, cache, task, call, req, resp>>
    BY <1>1, <1>2, <1>3, <1>4, <1>5, SameKeeps, TaskSame, StepKeeps
  <1>6. CASE /\ l.held /\ l.refcount > 1
             /\ leases' = [leases EXCEPT ![i].refcount = @ - 1]
             /\ UNCHANGED <<cache, task, call, req, resp>>
    <2>1. LeasesKeep(i) /\ CacheKeeps(i)
      BY <1>2, <1>6, EntryKeeps, SameKeeps
    <2> QED BY <1>1, <1>2, <1>3, <1>4, <1>6, <2>1, TaskSame, StepKeeps
  <1>7. CASE /\ l.held
             /\ leases' = [leases EXCEPT ![i].releasing = TRUE]
             /\ FlushLease(t, "close", l)
    <2>1. LeasesKeep(i)
      BY <1>2, <1>7, EntryKeeps
    <2>2. l \in EntryType /\ l.etag # Absent /\ l.etag.instance = i
      BY <1>7, Facts DEF InstanceOK
    <2>3. CacheKeeps(i) /\ TaskTypes' /\ TaskOK(t)' /\ TaskFrame(t)
      BY <1>1, <1>3, <1>7, <2>2, FlushLeaseOK
    <2> QED BY <1>2, <1>3, <1>4, <2>1, <2>3, StepKeeps
  <1> QED BY <1>5, <1>6, <1>7 DEF Close

\* The record of a renewal or of an acquisition, and the PUT of it.
LEMMA FreshRecords ==
    ASSUME BaseInv, NEW t \in Tasks, NEW epoch \in Nat, NEW etag \in LockETags
    PROVE  LET rec == FreshRecord(t, epoch)
               r == PutIf("lock", etag, rec) IN
           /\ rec \in Records /\ rec # Absent /\ rec.instance = I(t)
           /\ rec.epoch = epoch /\ rec.expires = now + LeaseTime
           /\ r \in RequestType /\ r.op = "put" /\ r.key = "lock" /\ r.etag = etag /\ r.body = rec
           /\ r.cond = (IF etag = Absent THEN "ifNoneMatch" ELSE "ifMatch")
  <1>1. FreshRecord(t, epoch) \in Records
    <2>1. now + LeaseTime \in Nat
      BY LeaseAssumption DEF BaseInv, Types, SharedTypes
    <2> QED BY <2>1, InstanceType DEF FreshRecord, LockRecord, Records
  <1>2. PutIf("lock", etag, FreshRecord(t, epoch)) \in RequestType
    BY <1>1, RequestTypes, ConstantTypes DEF Contents
  <1> QED BY <1>1, <1>2, InstanceType, AbsentAssumption DEF FreshRecord, LockRecord, PutIf

LEMMA RenewBase ==
    ASSUME BaseInv, NEW t \in Tasks, Renew(t), UNCHANGED fileLock
    PROVE  BaseInv'
  <1> DEFINE l == leases[I(t)]
             ta == [task[t] EXCEPT !.op = "renew", !.pc = "renew"]
             rec == FreshRecord(t, l.epoch)
             ca == [NoCall EXCEPT !.pc = "renew", !.etag = l.etag, !.body = rec]
             r == PutIf("lock", l.etag, rec)
  <1>1. /\ Ready(t) /\ l.held
        /\ task' = [task EXCEPT ![t].op = "renew", ![t].pc = "renew"]
        /\ CallRenew(t, l.epoch, l.etag)
        /\ UNCHANGED <<store, faults, now, localVars, used, synced>>
    BY DEF Renew
  <1>2. Live(t) /\ Live(t)'
    BY <1>1, Alive, QuietKeeps
  <1>3. l.epoch \in Nat /\ l.etag \in LockETags /\ l.etag # Absent /\ l.etag.instance = I(t)
    BY <1>1, Facts DEF EntryType, InstanceOK
  <1>4. /\ rec \in Records /\ rec # Absent /\ rec.instance = I(t)
        /\ r \in RequestType /\ r.op = "put" /\ r.key = "lock" /\ r.etag = l.etag /\ r.body = rec
        /\ r.cond = "ifMatch"
    BY <1>3, FreshRecords
  <1>5. ta \in TaskType /\ ta.op = "renew" /\ ta.pc = "renew"
    BY Facts DEF TaskType, Ops, Pcs
  <1>6. Moves(t, ta, ca, r)
    BY <1>1, Facts DEF CallRenew, Send, Moves, TaskTypes, TaskType
  <1> HIDE DEF rec, r, ta
  <1>7. ca \in CallType /\ ca.pc = "renew" /\ ca.body = rec
    BY <1>3, <1>4, ConstantTypes DEF CallType, NoCall, AwaitPcs
  <1> HIDE DEF ca
  <1>8. LockCall(t, ca, r)
    BY <1>3, <1>4, <1>7 DEF LockCall, LockETags
  <1>9. LockPc(ta, ca.pc)
    BY <1>5, <1>7 DEF LockPc
  <1>10. TaskTypes' /\ TaskOK(t)' /\ TaskFrame(t)
    BY <1>1, <1>2, <1>5, <1>6, <1>8, <1>9, Facts, LockMovesOK
  <1> QED BY <1>1, <1>2, <1>10, QuietStep

LEMMA RenewedBase ==
    ASSUME BaseInv, NEW t \in Tasks, Renewed(t), UNCHANGED fileLock
    PROVE  BaseInv'
  <1> DEFINE i == I(t)
  <1>1. /\ task[t].pc = "renew"
        /\ UNCHANGED <<store, faults, now, local, cache, queue, fds, status, used, synced>>
    BY DEF Renewed
  <1>2. Live(t) /\ status[i] # "dead" /\ i \in Instances
    BY <1>1, Alive, Facts
  <1>3. FilesKeep(i) /\ CacheKeeps(i) /\ QueueKeeps(i) /\ StatusKeeps(i) /\ SharedKeeps
    BY <1>1, <1>2, SameKeeps
  <1>4. LeasesKeep(i)
    <2>1. leases' = [leases EXCEPT ![i] =
          CASE leases[i].held /\ Pc(t) = "renewed" ->
                  [leases[i] EXCEPT !.etag = call[t].etag, !.expires = call[t].body.expires]
            [] leases[i].held /\ Pc(t) = "lost" -> [leases[i] EXCEPT !.lost = TRUE]
            [] OTHER -> leases[i]]
      BY DEF Renewed
    <2>2. CASE leases[i].held /\ Pc(t) = "renewed"
      <3> DEFINE e == [leases[i] EXCEPT !.etag = call[t].etag, !.expires = call[t].body.expires]
      <3>1. /\ call[t].etag \in LockETags /\ call[t].body.expires \in Nat
            /\ call[t].etag # Absent /\ call[t].etag.instance = i
        BY <2>2, Facts DEF CallType, Records, TaskOK, OwnOK
      <3>2. /\ e \in EntryType /\ e.held = leases[i].held /\ e.etag = call[t].etag
            /\ e.refcount = leases[i].refcount
        BY <3>1, Facts DEF EntryType
      <3>3. leases' = [leases EXCEPT ![i] = e]
        BY <2>1, <2>2
      <3> HIDE DEF e
      <3> QED BY <1>2, <3>1, <3>2, <3>3, Facts, EntrySet DEF InstanceOK
    <2>3. CASE leases[i].held /\ Pc(t) = "lost"
      <3> DEFINE e == [leases[i] EXCEPT !.lost = TRUE]
      <3>1. /\ e \in EntryType /\ e.held = leases[i].held /\ e.etag = leases[i].etag
            /\ e.refcount = leases[i].refcount
        BY Facts DEF EntryType
      <3>2. leases' = [leases EXCEPT ![i] = e]
        BY <2>1, <2>3
      <3> HIDE DEF e
      <3> QED BY <1>2, <3>1, <3>2, Facts, EntrySet DEF InstanceOK
    <2>4. CASE ~leases[i].held \/ Pc(t) \notin {"renewed", "lost"}
      <3>1. leases' = [leases EXCEPT ![i] = leases[i]]
        BY <2>1, <2>4
      <3> QED BY <1>2, <3>1, Facts, EntrySet DEF InstanceOK
    <2> QED BY <2>2, <2>3, <2>4
  <1>5. Ends(t, NoCall)
    BY Facts, FinishEnds DEF Renewed
  <1>6. TaskTypes' /\ TaskOK(t)' /\ TaskFrame(t)
    BY <1>5, Facts, EndsOK, ConstantTypes DEF NoCall
  <1> QED BY <1>2, <1>3, <1>4, <1>6, StepKeeps

LEMMA FlushBase ==
    ASSUME BaseInv, NEW t \in Tasks, Flush(t), UNCHANGED fileLock
    PROVE  BaseInv'
  <1> DEFINE i == I(t)
             op == Head(queue[i])
  <1>1. /\ Ready(t) /\ queue[i] # <<>>
        /\ UNCHANGED <<store, faults, now, call, local, cache, leases, fds, status, used, synced>>
    BY DEF Flush
  <1>2. Live(t) /\ status[i] # "dead" /\ i \in Instances /\ Pc(t) = "none"
    BY <1>1, Alive, Facts
  <1>3. FilesKeep(i) /\ CacheKeeps(i) /\ LeasesKeep(i) /\ StatusKeeps(i) /\ SharedKeeps /\ Live(t)'
    BY <1>1, <1>2, SameKeeps, StillAlive
  <1>4. /\ op \in OperationType
        /\ Tail(queue[i]) \in Seq(OperationType) /\ OneDelete(Tail(queue[i]))
        /\ Append(Tail(queue[i]), Upload) \in Seq(OperationType)
        /\ OneDelete(Append(Tail(queue[i]), Upload))
    BY <1>1, <1>2, Queues DEF Contents
  <1>5. QueueKeeps(i)
    <2>1. \/ queue' = [queue EXCEPT ![i] = Tail(queue[i])]
          \/ queue' = [queue EXCEPT ![i] = Append(Tail(queue[i]), Upload)]
      BY DEF Flush
    <2> QED BY <1>2, <1>4, <2>1, QueueSet
  <1>6. TaskTypes' /\ TaskOK(t)' /\ TaskFrame(t)
    <2>1. CASE UNCHANGED <<task, req, resp>>
      BY <1>1, <1>2, <1>3, <2>1, TaskSame
    <2>2. CASE local[i] # Absent /\ StartUpload(t, "flush", local[i], cache[i], Absent)
      <3>1. Pushes(t, "flush", local[i], cache[i], Absent)
        BY <1>1, <2>2, Facts, UploadPushes
      <3>2. local[i] \in Files /\ cache[i] \in Contents /\ Absent \in LockETags
        BY <2>2, Facts DEF Contents, LockETags
      <3> QED BY <1>1, <1>2, <1>3, <3>1, <3>2, Facts, PushesOK
    <2>3. CASE /\ task' = [task EXCEPT ![t].op = "flush", ![t].pc = "queueDelete"]
               /\ Send(t, DeleteIf("file", op.etag))
      <3>1. Asks(t, "flush", "queueDelete", DeleteIf("file", op.etag))
        BY <1>1, <2>3, Facts, StartAsks
      <3>2. FilePc("flush", "queueDelete") /\ FileRequest(DeleteIf("file", op.etag))
        BY <1>4, FileRequests, ConstantTypes
           DEF OperationType, FilePc, Pcs, Ops, LockPcs, PushPcs
      <3> QED BY <1>1, <1>2, <1>3, <3>1, <3>2, Facts, AsksOK
    <2> QED BY <2>1, <2>2, <2>3 DEF Flush
  <1> QED BY <1>2, <1>3, <1>5, <1>6, StepKeeps

LEMMA QueueDeletedBase ==
    ASSUME BaseInv, NEW t \in Tasks, QueueDeleted(t), UNCHANGED fileLock
    PROVE  BaseInv'
  <1>1. /\ task[t].pc = "queueDelete"
        /\ UNCHANGED <<store, faults, now, call, localVars, used, synced>>
    BY DEF QueueDeleted, Resumes
  <1>2. Live(t) /\ Live(t)' /\ task[t].op = "flush" /\ Pc(t) = "none" /\ Absent \in Contents
    BY <1>1, FileAnswer, QuietKeeps, Facts DEF Pcs, LockPcs, TaskOK, ControlOK, Contents
  <1>3. CASE Finish(t)
    <2>1. TaskTypes' /\ TaskOK(t)' /\ TaskFrame(t)
      BY <1>1, <1>2, <1>3, Facts, FinishEnds, EndsOK DEF Pc
    <2> QED BY <1>1, <1>2, <2>1, QuietStep
  <1>4. CASE Await(t, "refresh", Get("file"))
    BY <1>1, <1>2, <1>4, PushAgainBase, FileRequests, ConstantTypes DEF PushPcs
  <1>5. CASE Await(t, "queueDelete", DeleteIf("file", Absent))
    <2>1. FilePc("flush", "queueDelete") /\ FileRequest(DeleteIf("file", Absent))
      BY <1>2, FileRequests, ConstantTypes DEF FilePc, Pcs, Ops, LockPcs, PushPcs
    <2>2. TaskTypes' /\ TaskOK(t)' /\ TaskFrame(t)
      BY <1>1, <1>2, <1>5, <2>1, Facts, AwaitAsks, AsksAgainOK DEF LockPcs
    <2> QED BY <1>1, <1>2, <2>2, QuietStep
  <1> QED BY <1>3, <1>4, <1>5 DEF QueueDeleted

\* A background or read operation that starts with a GET of the file.
LEMMA QueryBase ==
    ASSUME BaseInv, NEW t \in Tasks, Live(t), Pc(t) = "none",
           NEW op \in {"poll", "read", "check", "boot"}, NEW pc, FilePc(op, pc),
           task' = [task EXCEPT ![t].op = op, ![t].pc = pc], Send(t, Get("file")),
           UNCHANGED <<fileLock, store, faults, now, call, localVars, used, synced>>
    PROVE  BaseInv'
  <1>1. Live(t)'
    BY QuietKeeps
  <1>2. Asks(t, op, pc, Get("file"))
    BY Facts, StartAsks
  <1>3. TaskTypes' /\ TaskOK(t)' /\ TaskFrame(t)
    BY <1>1, <1>2, Facts, FileRequests, ConstantTypes, AsksOK DEF Contents
  <1> QED BY <1>3, QuietStep

LEMMA PollBase ==
    ASSUME BaseInv, NEW t \in Tasks, Poll(t), UNCHANGED fileLock
    PROVE  BaseInv'
  <1>1. FilePc("poll", "list")
    BY DEF FilePc, Pcs, Ops, LockPcs, PushPcs
  <1> QED BY <1>1, Alive, QueryBase DEF Poll

LEMMA ReadBase ==
    ASSUME BaseInv, NEW t \in Tasks, Read(t), UNCHANGED fileLock
    PROVE  BaseInv'
  <1>1. FilePc("read", "get")
    BY DEF FilePc, Pcs, Ops, LockPcs, PushPcs
  <1> QED BY <1>1, Alive, QueryBase DEF Read

LEMMA CheckBase ==
    ASSUME BaseInv, NEW t \in Tasks, Check(t), UNCHANGED fileLock
    PROVE  BaseInv'
  <1>1. FilePc("check", "head")
    BY DEF FilePc, Pcs, Ops, LockPcs, PushPcs
  <1> QED BY <1>1, Alive, QueryBase DEF Check

LEMMA BootBase ==
    ASSUME BaseInv, NEW t \in Tasks, Boot(t), UNCHANGED fileLock
    PROVE  BaseInv'
  <1>1. FilePc("boot", "list")
    BY DEF FilePc, Pcs, Ops, LockPcs, PushPcs
  <1>2. Live(t) /\ task[t].pc = "idle"
    BY DEF Boot, Live
  <1>3. Pc(t) = "none"
    BY <1>2, Facts DEF TaskOK, ControlOK, LockPcs
  <1> QED BY <1>1, <1>2, <1>3, QueryBase DEF Boot

LEMMA PollListedBase ==
    ASSUME BaseInv, NEW t \in Tasks, PollListed(t), UNCHANGED fileLock
    PROVE  BaseInv'
  <1> DEFINE i == I(t)
  <1>1. /\ task[t].pc = "list" /\ task[t].op = "poll"
        /\ UNCHANGED <<store, faults, now, call, leases, queue, status, used, synced>>
    BY DEF PollListed, Resumes
  <1>2. Live(t) /\ status[i] # "dead" /\ i \in Instances /\ Pc(t) = "none" /\ Absent \in Contents
    BY <1>1, FileAnswer, Facts DEF Pcs, LockPcs, Contents
  <1>3. LeasesKeep(i) /\ QueueKeeps(i) /\ StatusKeeps(i) /\ SharedKeeps /\ Live(t)'
    BY <1>1, <1>2, SameKeeps, StillAlive
  <1>4. FilesKeep(i) /\ CacheKeeps(i)
    BY <1>2, UnlinkKeeps, CacheSet, SameKeeps DEF PollListed
  <1>5. TaskTypes' /\ TaskOK(t)' /\ TaskFrame(t)
    <2>1. CASE Finish(t)
      BY <1>1, <1>2, <1>3, <2>1, Facts, FinishEnds, EndsOK DEF Pc
    <2>2. CASE Await(t, "get", Get("file"))
      <3>1. FilePc(task[t].op, "get") /\ FileRequest(Get("file"))
        BY <1>1, FileRequests, ConstantTypes DEF FilePc, Pcs, Ops, LockPcs, PushPcs, Contents
      <3> QED BY <1>1, <1>3, <2>2, <3>1, Facts, AwaitAsks, AsksAgainOK DEF LockPcs
    <2> QED BY <2>1, <2>2 DEF PollListed
  <1> QED BY <1>2, <1>3, <1>4, <1>5, StepKeeps

LEMMA BootListedBase ==
    ASSUME BaseInv, NEW t \in Tasks, BootListed(t), UNCHANGED fileLock
    PROVE  BaseInv'
  <1> DEFINE i == I(t)
  <1>1. /\ task[t].pc = "list" /\ task[t].op = "boot"
        /\ UNCHANGED <<store, faults, now, call, local, cache, leases, queue, fds, used, synced>>
    BY DEF BootListed, Resumes
  <1>2. Live(t) /\ status[i] # "dead" /\ i \in Instances /\ Pc(t) = "none"
    BY <1>1, FileAnswer, Facts DEF Pcs, LockPcs
  <1>3. LeasesKeep(i) /\ FilesKeep(i) /\ CacheKeeps(i) /\ QueueKeeps(i) /\ SharedKeeps
    BY <1>1, <1>2, SameKeeps
  <1>4. StatusKeeps(i) /\ Live(t)'
    BY <1>2, SameKeeps, StatusSet, StillAlive DEF BootListed
  <1>5. TaskTypes' /\ TaskOK(t)' /\ TaskFrame(t)
    <2>1. CASE Finish(t)
      BY <1>1, <1>2, <1>4, <2>1, Facts, FinishEnds, EndsOK DEF Pc
    <2>2. CASE Await(t, "get", Get("file"))
      <3>1. FilePc(task[t].op, "get") /\ FileRequest(Get("file"))
        BY <1>1, FileRequests, ConstantTypes DEF FilePc, Pcs, Ops, LockPcs, PushPcs, Contents
      <3> QED BY <1>1, <1>4, <2>2, <3>1, Facts, AwaitAsks, AsksAgainOK DEF LockPcs
    <2> QED BY <2>1, <2>2 DEF BootListed
  <1> QED BY <1>2, <1>3, <1>4, <1>5, StepKeeps

LEMMA GotBase ==
    ASSUME BaseInv, NEW t \in Tasks, Got(t), UNCHANGED fileLock
    PROVE  BaseInv'
  <1> DEFINE i == I(t)
             val == resp[t].val
  <1>1. /\ task[t].pc = "get" /\ task[t].op \in {"poll", "read", "boot"}
        /\ UNCHANGED <<store, faults, now, call, leases, queue, fds, used, synced>>
    BY DEF Got, Resumes
  <1>2. Live(t) /\ status[i] # "dead" /\ i \in Instances /\ Pc(t) = "none" /\ val \in Contents
    BY <1>1, FileAnswer, Facts DEF Pcs, LockPcs
  <1>3. LeasesKeep(i) /\ QueueKeeps(i) /\ SharedKeeps
    BY <1>1, <1>2, SameKeeps
  <1>4. StatusKeeps(i) /\ Live(t)'
    BY <1>2, StatusSet, StillAlive DEF Got
  <1>5. FilesKeep(i) /\ CacheKeeps(i)
    BY <1>1, <1>2, DownloadKeeps, SameKeeps DEF Got
  <1>6. TaskTypes' /\ TaskOK(t)' /\ TaskFrame(t)
    BY <1>1, <1>2, <1>4, Facts, FinishEnds, EndsOK DEF Pc, Got
  <1> QED BY <1>2, <1>3, <1>4, <1>5, <1>6, StepKeeps

-----------------------------------------------------------------------------
(***************************************************************************)
(* Types and control: the store, the lease calls, time and crashes.        *)
(***************************************************************************)

\* Request r of a key that holds cur leaves obj there and is answered with a.
HandledAs(r, cur, obj, a) ==
    \/ obj = After(r, cur) /\ a = Response(r, cur)
    \/ MaxFaults # 0 /\ obj \in {cur, After(r, cur)} /\ a = [status |-> "error", val |-> Absent]
    \/ MaxFaults # 0 /\ obj = After(r, cur) /\ a = Response(r, obj)

Handled(t, obj, a) ==
    Served(t, obj, a) /\ HandledAs(req[t], store[req[t].key], obj, a)

\* The emulated conditional delete goes ahead.
Downgraded(t) ==
    /\ Emulated(req[t]) /\ store[req[t].key] = req[t].etag
    /\ req' = [req EXCEPT ![t] = DeleteIf(req[t].key, Absent)]
    /\ UNCHANGED <<store, resp>>

LEMMA AfterTwice ==
    ASSUME NEW r \in RequestType, r.op \in {"put", "delete"}, NEW cur
    PROVE  After(r, After(r, cur)) = After(r, cur)
  BY DEF After, Outcome, CheckCond, RequestType

LEMMA StoreStepEffect ==
    ASSUME BaseInv, NEW t \in Tasks, StoreStep(t)
    PROVE  /\ req[t].op # "none" /\ faults' \in 0 .. MaxFaults
           /\ Downgraded(t) \/ \E obj, a : Handled(t, obj, a)
  <1> DEFINE r == req[t]
             cur == store[r.key]
  <1>1. r \in RequestType /\ faults \in 0 .. MaxFaults /\ MaxFaults \in Nat
    BY Facts, StoreAssumption DEF BaseInv, Types, SharedTypes
  <1>2. CASE Serve(t)
    BY <1>1, <1>2 DEF Serve, Handled, HandledAs
  <1>3. CASE TransportError(t)
    BY <1>1, <1>3 DEF TransportError, Handled, HandledAs
  <1>4. CASE ServeTwice(t)
    <2>1. After(r, After(r, cur)) = After(r, cur)
      BY <1>1, <1>4, AfterTwice DEF ServeTwice
    <2> QED BY <1>1, <1>4, <2>1 DEF ServeTwice, Handled, HandledAs
  <1>5. CASE HeadCheck(t)
    <2>1. CASE cur = r.etag
      BY <1>1, <1>5, <2>1 DEF HeadCheck, Downgraded
    <2>2. CASE cur # r.etag
      <3>1. After(r, cur) = cur
        BY <1>5, <2>2 DEF HeadCheck, Emulated, After, Outcome, CheckCond
      <3> QED BY <1>1, <1>5, <2>2, <3>1 DEF HeadCheck, Handled, HandledAs
    <2> QED BY <2>1, <2>2
  <1> QED BY <1>2, <1>3, <1>4, <1>5 DEF StoreStep

\* What a served request can be answered, and what it can do.
LEMMA HandledEffect ==
    ASSUME NEW r \in RequestType, r.op # "none", r.key \in {"file", "lock"},
           r.body \in Values(r.key), r.op = "put" => r.body # Absent,
           NEW cur \in Values(r.key), NEW obj, NEW a, HandledAs(r, cur, obj, a)
    PROVE  /\ obj \in Values(r.key)
           /\ a \in ResponseType /\ a.val \in Values(r.key) /\ a.status # "none"
           /\ r.op = "get" => obj = cur
           /\ r.op = "get" /\ a.status = "ok" => a.val = cur
           /\ r.op = "put" /\ a.status = "ok" => a.val = r.body /\ obj = r.body
           /\ obj # cur => /\ obj = IF r.op = "put" THEN r.body ELSE Absent
                           /\ r.cond = "ifMatch" => cur = r.etag /\ cur # Absent
                           /\ r.cond = "ifNoneMatch" => cur = Absent
  <1>1. Absent \in Values(r.key) /\ Values(r.key) \subseteq Contents \union LockETags
    BY DEF Values, Contents, LockETags
  <1>2. obj \in {cur, After(r, cur)}
    BY DEF HandledAs
  <1>3. \A c \in Values(r.key) :
          /\ After(r, c) \in Values(r.key)
          /\ r.op = "get" => After(r, c) = c
          /\ After(r, c) # c => /\ After(r, c) = IF r.op = "put" THEN r.body ELSE Absent
                                /\ r.cond = "ifMatch" => c = r.etag /\ c # Absent
                                /\ r.cond = "ifNoneMatch" => c = Absent
    BY <1>1 DEF After, Outcome, CheckCond, RequestType
  <1>4. \A c \in Values(r.key) :
          LET b == Response(r, c) IN
          /\ b \in ResponseType /\ b.val \in Values(r.key) /\ b.status # "none"
          /\ r.op = "get" /\ b.status = "ok" => b.val = c
          /\ r.op = "put" /\ b.status = "ok" => b.val = r.body /\ After(r, c) = r.body
    <2> TAKE c \in Values(r.key)
    <2>1. Outcome(r, c) \in Statuses \ {"none"}
      BY DEF Outcome, CheckCond, Statuses, RequestType
    <2>2. r.op = "put" /\ Outcome(r, c) = "ok" => After(r, c) = r.body
      BY DEF After
    <2>3. r.op = "get" => After(r, c) = c
      BY DEF After
    <2> QED BY <1>1, <1>3, <2>1, <2>2, <2>3 DEF Response, ResponseType
  <1>5. [status |-> "error", val |-> Absent] \in ResponseType
    BY DEF ResponseType, Statuses, Contents
  <1>6. r.op = "put" /\ obj = After(r, cur) /\ After(r, obj) = r.body => obj = r.body
    BY AfterTwice DEF RequestType
  <1>7. CASE obj = After(r, cur) /\ a = Response(r, cur)
    BY <1>1, <1>3, <1>4, <1>7
  <1>8. CASE a = [status |-> "error", val |-> Absent]
    BY <1>1, <1>2, <1>3, <1>5, <1>8
  <1>9. CASE obj = After(r, cur) /\ a = Response(r, obj)
    BY <1>1, <1>3, <1>4, <1>6, <1>9
  <1> QED BY <1>7, <1>8, <1>9 DEF HandledAs

LEMMA ServedTo ==
    ASSUME BaseInv, NEW t \in Tasks, NEW obj, NEW a, Served(t, obj, a),
           req[t].key \in {"file", "lock"}
    PROVE  /\ req'[t] = NoRequest /\ resp'[t] = a
           /\ \A u \in Tasks \ {t} : req'[u] = req[u] /\ resp'[u] = resp[u]
           /\ store' = [store EXCEPT ![req[t].key] = obj] /\ store'[req[t].key] = obj
           /\ \A k \in Keys : k # req[t].key => store'[k] = store[k]
  <1>1. req[t].key \in Keys
    BY LeaseAssumption, ManagerAssumption
  <1> QED BY <1>1 DEF Served, BaseInv, Types, TaskTypes, SharedTypes

LEMMA KeyValues ==
    ASSUME BaseInv, NEW k \in {"file", "lock"}
    PROVE  k \in Keys /\ store[k] \in Values(k)
  BY LeaseAssumption, ManagerAssumption
     DEF BaseInv, Types, SharedTypes, Values, object, lock

LEMMA StoreBase ==
    ASSUME BaseInv, NEW t \in Tasks, StoreStep(t),
           UNCHANGED <<fileLock, now, call, localVars, task, used, synced>>
    PROVE  BaseInv'
  <1> DEFINE r == req[t]
             cur == store[r.key]
  <1>1. /\ r \in RequestType /\ r.op # "none" /\ r.key \in {"file", "lock"}
        /\ r.etag \in Values(r.key) /\ r.body \in Values(r.key)
        /\ r.op = "put" => r.body # Absent
    BY StoreStepEffect, Facts DEF TaskOK, RequestOK
  <1>2. cur \in Values(r.key) /\ r.key \in Keys
    BY <1>1, KeyValues
  <1>3. InstanceTypes' /\ \A i \in Instances : InstanceOK(i)'
    BY DEF BaseInv, Types, InstanceTypes, localVars, InstanceOK
  <1>4. \A u \in Tasks : Live(u)' <=> Live(u)
    BY DEF Live, localVars
  <1>5. CASE Downgraded(t)
    <2> DEFINE d == DeleteIf(r.key, Absent)
    <2>1. d \in RequestType /\ d.op = "delete" /\ d.key = r.key /\ d.etag = Absent /\ d.body = Absent
      BY <1>1 DEF DeleteIf, RequestType, Contents
    <2>2. r.op = "delete" /\ ~ConditionalDelete
      BY <1>5 DEF Downgraded, Emulated
    <2> HIDE DEF d
    <2>3. req' = [req EXCEPT ![t] = d] /\ UNCHANGED <<store, resp>>
      BY <1>5 DEF Downgraded, d
    <2>4. SharedTypes' /\ TaskTypes'
      BY <2>1, <2>3, StoreStepEffect DEF BaseInv, Types, SharedTypes, TaskTypes, object, lock
    <2>5. ASSUME NEW u \in Tasks PROVE TaskOK(u)'
      <3>1. CASE u # t
        <4>1. req'[u] = req[u] /\ resp'[u] = resp[u]
          BY <2>3, <3>1 DEF BaseInv, Types, TaskTypes
        <4> QED BY <1>4, <4>1, Untouched DEF BaseInv
      <3>2. CASE u = t
        <4>1. req'[t] = d /\ resp'[t] = resp[t] /\ Pc(t)' = Pc(t)
          BY <2>3 DEF BaseInv, Types, TaskTypes, Pc
        <4>2. ControlOK(t)'
          BY <1>4, <4>1, Facts DEF TaskOK, ControlOK
        <4>3. RequestOK(t)'
          BY <1>1, <2>1, <4>1 DEF RequestOK, Values, Contents, LockETags
        <4>4. AnswerOK(t)'
          BY <1>1, <1>4, <2>1, <2>2, <4>1, Facts DEF TaskOK, AnswerOK, KeyOf
        <4>5. OwnOK(t)'
          BY <2>1, <2>2, <4>1, Facts DEF TaskOK, OwnOK
        <4> QED BY <3>2, <4>2, <4>3, <4>4, <4>5 DEF TaskOK
      <3> QED BY <3>1, <3>2
    <2> QED BY <1>3, <2>4, <2>5 DEF BaseInv, Types
  <1>6. ASSUME NEW obj, NEW a, Handled(t, obj, a) PROVE BaseInv'
    <2>1. /\ obj \in Values(r.key)
          /\ a \in ResponseType /\ a.val \in Values(r.key) /\ a.status # "none"
          /\ r.op = "put" /\ a.status = "ok" => a.val = r.body
      BY <1>1, <1>2, <1>6, HandledEffect DEF Handled
    <2>2. /\ req'[t] = NoRequest /\ resp'[t] = a
          /\ \A u \in Tasks \ {t} : req'[u] = req[u] /\ resp'[u] = resp[u]
          /\ store' = [store EXCEPT ![r.key] = obj] /\ store'[r.key] = obj
          /\ \A k \in Keys : k # r.key => store'[k] = store[k]
      BY <1>1, <1>6, ServedTo DEF Handled
    <2>3. store' \in [Keys -> Contents \union LockETags]
      BY <1>2, <2>1, <2>2 DEF Values, BaseInv, Types, SharedTypes
    <2>4. object' \in Contents /\ lock' \in LockETags
      BY <1>1, <2>1, <2>2, KeyValues DEF Values, object, lock
    <2>5. SharedTypes'
      BY <2>3, <2>4, StoreStepEffect DEF BaseInv, Types, SharedTypes
    <2>6. TaskTypes'
      BY <1>6, <2>1, ConstantTypes DEF Handled, Served, BaseInv, Types, TaskTypes
    <2>7. ASSUME NEW u \in Tasks PROVE TaskOK(u)'
      <3>1. CASE u # t
        BY <1>4, <2>2, <3>1, Untouched DEF BaseInv
      <3>2. CASE u = t
        <4>1. Pc(t)' = Pc(t) /\ req'[t].op = "none"
          BY <2>2 DEF Pc, NoRequest
        <4>2. ControlOK(t)'
          BY <1>4, <4>1, Facts DEF TaskOK, ControlOK
        <4>3. RequestOK(t)'
          BY <4>1 DEF RequestOK
        <4>4. AnswerOK(t)'
          BY <1>1, <1>4, <2>1, <2>2, <4>1, Facts DEF TaskOK, AnswerOK, KeyOf
        <4>5. OwnOK(t)'
          BY <1>1, <2>1, <2>2, <4>1, Facts DEF TaskOK, OwnOK
        <4> QED BY <3>2, <4>2, <4>3, <4>4, <4>5 DEF TaskOK
      <3> QED BY <3>1, <3>2
    <2> QED BY <1>3, <2>5, <2>6, <2>7 DEF BaseInv, Types
  <1> QED BY <1>5, <1>6, StoreStepEffect

\* A lease call goes on.
LEMMA CallMovesBase ==
    ASSUME BaseInv, NEW t \in Tasks, task[t].pc \in LockPcs,
           NEW ca, NEW r, LockCall(t, ca, r), LockPc(task[t], ca.pc),
           call' = [call EXCEPT ![t] = ca], Send(t, r),
           UNCHANGED <<fileLock, store, faults, now, localVars, task, used, synced>>
    PROVE  BaseInv'
  <1>1. Live(t) /\ Live(t)'
    BY Alive, QuietKeeps DEF LockPcs
  <1>2. Moves(t, task[t], ca, r)
    BY Facts DEF Moves, Send, TaskTypes
  <1>3. TaskTypes' /\ TaskOK(t)' /\ TaskFrame(t)
    BY <1>1, <1>2, Facts, LockMovesOK
  <1> QED BY <1>1, <1>3, QuietStep

\* What a task that waits for a lease call is doing.
LEMMA Calling ==
    ASSUME BaseInv, NEW t \in Tasks, Pc(t) \in AwaitPcs
    PROVE  /\ task[t].pc \in LockPcs /\ LockPc(task[t], Pc(t)) /\ resp[t].val \in LockETags
           /\ Pc(t) \in {"get", "put", "verify", "sleep"} => task[t].pc = "acquire"
           /\ Pc(t) = "renew" => task[t].pc = "renew"
           /\ Pc(t) = "release" => task[t].pc \in {"release", "giveback"}
  <1>1. ControlOK(t) /\ task[t].pc \in Pcs
    BY Facts DEF TaskOK, TaskType
  <1>2. task[t].pc \in LockPcs
    BY <1>1 DEF ControlOK, AwaitPcs, LockPcs
  <1>3. Live(t)
    BY <1>2, Alive DEF LockPcs
  <1>4. resp[t].val \in LockETags
    BY <1>2, <1>3, Facts DEF TaskOK, AnswerOK, KeyOf, Values
  <1> QED BY <1>1, <1>2, <1>4 DEF ControlOK, LockPcs, LockPc

\* Goto
LEMMA GotoBase ==
    ASSUME BaseInv, NEW t \in Tasks, Pc(t) \in AwaitPcs, NEW pc, LockPc(task[t], pc),
           pc \in {"sleep", "busy", "failed", "released"}, Goto(t, pc),
           UNCHANGED <<fileLock, store, faults, now, localVars, task, used, synced>>
    PROVE  BaseInv'
  <1> DEFINE ca == [call[t] EXCEPT !.pc = pc]
  <1>1. ca \in CallType /\ ca.pc = pc
    BY Facts DEF CallType, AwaitPcs, ResultPcs
  <1>2. call' = [call EXCEPT ![t] = ca] /\ Send(t, NoRequest)
    BY Facts DEF Goto, TaskTypes
  <1> HIDE DEF ca
  <1>3. LockCall(t, ca, NoRequest)
    BY <1>1, ConstantTypes DEF LockCall, NoRequest
  <1> QED BY <1>1, <1>2, <1>3, Calling, CallMovesBase

LEMMA LeaseStepBase ==
    ASSUME BaseInv, NEW t \in Tasks, LeaseStep(t),
           UNCHANGED <<fileLock, localVars, task, used, synced>>
    PROVE  BaseInv'
  <1>0. /\ Pc(t) \in AwaitPcs /\ UNCHANGED <<store, faults, now>>
    BY DEF LeaseStep, AcquireGot, AcquirePut, AcquireVerified, AcquireWake, RenewDone,
           ReleaseDone, AwaitPcs
  <1>1. call[t] \in CallType /\ OwnOK(t) /\ task[t].pc \in LockPcs /\ LockPc(task[t], Pc(t))
        /\ resp[t].val \in LockETags /\ call[t].body \in Records /\ call[t].body # Absent
    BY <1>0, Facts, Calling, AbsentAssumption DEF TaskOK, CallType
  <1>2. Get("lock") \in RequestType /\ Get("lock").op = "get" /\ Get("lock").key = "lock"
        /\ Get("lock").etag = Absent /\ Get("lock").body = Absent
    BY RequestTypes DEF Get
  <1>3. CASE AcquireGot(t)
    <2>1. Pc(t) = "get" /\ task[t].pc = "acquire" /\ task[t].op = "open"
      BY <1>0, <1>1, <1>3, Calling DEF AcquireGot, LockPc
    <2>2. CASE Goto(t, "failed") \/ RetryOrBusy(t)
      BY <1>0, <2>1, <2>2, GotoBase DEF RetryOrBusy, LockPc
    <2>3. CASE (resp[t].val # Absent => IsExpired(resp[t].val)) /\ PutRecord(t, resp[t].val)
      <3> DEFINE seen == resp[t].val
                 epoch == IF seen = Absent THEN 1 ELSE seen.epoch + 1
                 rec == FreshRecord(t, epoch)
                 r == PutIf("lock", seen, rec)
                 ca == [call[t] EXCEPT !.pc = "put", !.etag = seen, !.body = rec]
      <3>1. epoch \in Nat
        <4>1. seen # Absent => seen.epoch \in Nat
          BY <1>1 DEF LockETags, Records
        <4> QED BY <4>1
      <3>2. /\ rec \in Records /\ rec # Absent /\ rec.instance = I(t)
            /\ r \in RequestType /\ r.op = "put" /\ r.key = "lock" /\ r.etag = seen /\ r.body = rec
            /\ r.cond = (IF seen = Absent THEN "ifNoneMatch" ELSE "ifMatch")
        BY <1>1, <3>1, FreshRecords
      <3>3. call' = [call EXCEPT ![t] = ca] /\ Send(t, r)
        BY <2>3, Facts DEF PutRecord, TaskTypes
      <3> HIDE DEF epoch, rec, r
      <3>4. ca \in CallType /\ ca.pc = "put" /\ ca.body = rec
        BY <1>1, <3>2 DEF CallType, AwaitPcs
      <3> HIDE DEF ca
      <3>5. LockCall(t, ca, r)
        BY <1>1, <2>3, <3>2, <3>4 DEF LockCall, LockETags
      <3>6. LockPc(task[t], ca.pc)
        BY <2>1, <3>4 DEF LockPc
      <3> QED BY <1>0, <1>1, <3>3, <3>5, <3>6, CallMovesBase
    <2> QED BY <1>3, <2>2, <2>3 DEF AcquireGot
  <1>4. CASE AcquirePut(t)
    <2>1. Pc(t) = "put" /\ task[t].pc = "acquire" /\ task[t].op = "open"
      BY <1>0, <1>1, <1>4, Calling DEF AcquirePut, LockPc
    <2>2. CASE /\ resp[t].status = "ok"
               /\ call' = [call EXCEPT ![t].pc = "acquired", ![t].etag = resp[t].val]
               /\ Send(t, NoRequest)
      <3> DEFINE ca == [call[t] EXCEPT !.pc = "acquired", !.etag = resp[t].val]
      <3>1. ca \in CallType /\ ca.pc = "acquired" /\ ca.etag = resp[t].val /\ ca.body = call[t].body
        BY <1>1 DEF CallType, ResultPcs
      <3>2. call' = [call EXCEPT ![t] = ca]
        BY <2>2, Facts DEF TaskTypes
      <3> HIDE DEF ca
      <3>3. LockCall(t, ca, NoRequest)
        BY <1>1, <2>1, <2>2, <3>1, ConstantTypes DEF LockCall, NoRequest, OwnOK
      <3>4. LockPc(task[t], ca.pc)
        BY <2>1, <3>1 DEF LockPc
      <3> QED BY <1>0, <1>1, <2>2, <3>2, <3>3, <3>4, CallMovesBase
    <2>3. CASE /\ call' = [call EXCEPT ![t].pc = "verify", ![t].err = resp[t].status]
               /\ Send(t, Get("lock"))
      <3> DEFINE ca == [call[t] EXCEPT !.pc = "verify", !.err = resp[t].status]
      <3>1. ca \in CallType /\ ca.pc = "verify" /\ ca.body = call[t].body
        BY <1>1, Facts DEF CallType, AwaitPcs, ResponseType
      <3>2. call' = [call EXCEPT ![t] = ca]
        BY <2>3, Facts DEF TaskTypes
      <3> HIDE DEF ca
      <3>3. LockCall(t, ca, Get("lock"))
        BY <1>1, <1>2, <2>1, <3>1 DEF LockCall, OwnOK, LockETags
      <3>4. LockPc(task[t], ca.pc)
        BY <2>1, <3>1 DEF LockPc
      <3> QED BY <1>0, <1>1, <2>3, <3>2, <3>3, <3>4, CallMovesBase
    <2> QED BY <1>4, <2>2, <2>3 DEF AcquirePut
  <1>5. CASE AcquireVerified(t)
    <2>1. Pc(t) = "verify" /\ task[t].pc = "acquire" /\ task[t].op = "open"
      BY <1>0, <1>1, <1>5, Calling DEF AcquireVerified, LockPc
    <2>2. CASE /\ LeaseLanded(t)
               /\ call' = [call EXCEPT ![t].pc = "acquired", ![t].etag = resp[t].val]
               /\ Send(t, NoRequest)
      <3> DEFINE ca == [call[t] EXCEPT !.pc = "acquired", !.etag = resp[t].val]
      <3>1. ca \in CallType /\ ca.pc = "acquired" /\ ca.etag = resp[t].val /\ ca.body = call[t].body
        BY <1>1 DEF CallType, ResultPcs
      <3>2. call' = [call EXCEPT ![t] = ca]
        BY <2>2, Facts DEF TaskTypes
      <3> HIDE DEF ca
      <3>3. LockCall(t, ca, NoRequest)
        BY <1>1, <2>1, <2>2, <3>1, ConstantTypes, InstanceType
           DEF LockCall, NoRequest, OwnOK, LeaseLanded
      <3>4. LockPc(task[t], ca.pc)
        BY <2>1, <3>1 DEF LockPc
      <3> QED BY <1>0, <1>1, <2>2, <3>2, <3>3, <3>4, CallMovesBase
    <2>3. CASE RetryOrBusy(t) \/ Goto(t, "failed")
      BY <1>0, <2>1, <2>3, GotoBase DEF RetryOrBusy, LockPc
    <2> QED BY <1>5, <2>2, <2>3 DEF AcquireVerified
  <1>6. CASE AcquireWake(t)
    <2>1. Pc(t) = "sleep" /\ task[t].pc = "acquire" /\ task[t].op = "open"
      BY <1>0, <1>1, <1>6, Calling DEF AcquireWake, LockPc
    <2> DEFINE ca == [call[t] EXCEPT !.pc = "get"]
    <2>2. ca \in CallType /\ ca.pc = "get"
      BY <1>1 DEF CallType, AwaitPcs
    <2>3. call' = [call EXCEPT ![t] = ca] /\ Send(t, Get("lock"))
      BY <1>6, Facts DEF AcquireWake, TaskTypes
    <2> HIDE DEF ca
    <2>4. LockCall(t, ca, Get("lock"))
      BY <1>2, <2>2 DEF LockCall, LockETags
    <2>5. LockPc(task[t], ca.pc)
      BY <2>1, <2>2 DEF LockPc
    <2> QED BY <1>0, <1>1, <2>3, <2>4, <2>5, CallMovesBase
  <1>7. CASE RenewDone(t)
    <2> DEFINE result == CASE resp[t].status = "ok"    -> "renewed"
                           [] resp[t].status = "error" -> "renewFailed"
                           [] OTHER                    -> "lost"
               ca == [call[t] EXCEPT !.pc = result,
                                     !.etag = IF result = "renewed" THEN resp[t].val ELSE @]
    <2>1. Pc(t) = "renew" /\ task[t].pc = "renew" /\ task[t].op = "renew"
      BY <1>0, <1>1, <1>7, Calling DEF RenewDone, LockPc
    <2>2. /\ result \in {"renewed", "renewFailed", "lost"}
          /\ result = "renewed" => resp[t].status = "ok"
      OBVIOUS
    <2>3. call' = [call EXCEPT ![t] = ca] /\ Send(t, NoRequest)
      BY <1>7, Facts DEF RenewDone, TaskTypes
    <2> HIDE DEF result
    <2>4. /\ ca \in CallType /\ ca.pc = result /\ ca.body = call[t].body
          /\ result = "renewed" => ca.etag = resp[t].val
      BY <1>1, <2>2 DEF CallType, ResultPcs
    <2> HIDE DEF ca
    <2>5. LockCall(t, ca, NoRequest)
      BY <1>1, <2>1, <2>2, <2>4, ConstantTypes DEF LockCall, NoRequest, OwnOK
    <2>6. LockPc(task[t], ca.pc)
      BY <2>1, <2>2, <2>4 DEF LockPc
    <2> QED BY <1>0, <1>1, <2>3, <2>5, <2>6, CallMovesBase
  <1>8. CASE ReleaseDone(t)
    <2>1. Pc(t) = "release" /\ task[t].pc \in {"release", "giveback"}
      BY <1>0, <1>8, Calling DEF ReleaseDone
    <2>2. LockPc(task[t], "released")
      BY <1>1, <2>1 DEF LockPc
    <2> QED BY <1>0, <1>8, <2>2, GotoBase DEF ReleaseDone
  <1> QED BY <1>3, <1>4, <1>5, <1>6, <1>7, <1>8 DEF LeaseStep

LEMMA LowerBase ==
    ASSUME BaseInv, NEW t \in Tasks, LowerStep(t), UNCHANGED fileLock
    PROVE  BaseInv'
  BY StoreBase, LeaseStepBase DEF LowerStep

LEMMA TickBase ==
    ASSUME BaseInv, Tick, UNCHANGED fileLock
    PROVE  BaseInv'
  <1>1. now' = now + 1 /\ now' \in 0 .. MaxTime /\ now \in Nat
    BY LeaseAssumption DEF Tick, BaseInv, Types, SharedTypes
  <1>2. Types'
    BY <1>1 DEF Tick, BaseInv, Types, TaskTypes, InstanceTypes, SharedTypes, storeVars,
                localVars, object, lock
  <1>3. ASSUME NEW i \in Instances PROVE InstanceOK(i)'
    BY DEF Tick, BaseInv, InstanceOK, localVars
  <1>4. ASSUME NEW u \in Tasks PROVE TaskOK(u)'
    <2>1. TaskOK(u) /\ UNCHANGED <<storeVars, call, localVars, task>>
      BY DEF BaseInv, Tick
    <2>2. ControlOK(u)' /\ RequestOK(u)' /\ AnswerOK(u)'
      BY <2>1 DEF TaskOK, ControlOK, RequestOK, AnswerOK, KeyOf, Live, Pc, storeVars, localVars
    <2>3. \A record \in Records : IsExpired(record) => IsExpired(record)'
      BY <1>1 DEF IsExpired, Records
    <2>4. req[u].op = "put" /\ req[u].key = "lock" /\ req[u].etag # Absent => req[u].etag \in Records
      BY <2>1 DEF TaskOK, RequestOK, Values, LockETags
    <2>5. OwnOK(u)'
      BY <2>1, <2>3, <2>4 DEF TaskOK, OwnOK, Pc, storeVars
    <2> QED BY <2>2, <2>5 DEF TaskOK
  <1> QED BY <1>2, <1>3, <1>4 DEF BaseInv

LEMMA CrashBase ==
    ASSUME BaseInv, NEW i \in Instances, Crash(i), UNCHANGED fileLock
    PROVE  BaseInv'
  <1>1. TaskTypes'
    BY ConstantTypes DEF Crash, BaseInv, Types, TaskTypes, storeVars
  <1>2. InstanceTypes'
    <2>1. <<>> \in Seq(OperationType) /\ [linked |-> 0, orphan |-> 0] \in DescriptorType
          /\ Absent \in Contents
      BY ConstantTypes DEF Contents
    <2> QED BY <2>1, ConstantTypes DEF Crash, BaseInv, Types, InstanceTypes
  <1>3. SharedTypes'
    <2>1. used' \in UsedType
      BY ManagerAssumption DEF Crash, BaseInv, Types, SharedTypes, UsedType
    <2> QED BY <2>1 DEF Crash, BaseInv, Types, SharedTypes, storeVars, object, lock
  <1>4. ASSUME NEW j \in Instances PROVE InstanceOK(j)'
    <2>1. CASE j = i
      <3>1. queue'[i] = <<>> /\ leases'[i] = NoLease /\ fds'[i] = [linked |-> 0, orphan |-> 0]
        BY DEF Crash, BaseInv, Types, InstanceTypes
      <3>2. OneDelete(<<>>)
        BY DEF OneDelete
      <3> QED BY <2>1, <3>1, <3>2 DEF InstanceOK, NoLease
    <2>2. CASE j # i
      BY <2>2 DEF Crash, BaseInv, Types, InstanceTypes, InstanceOK
    <2> QED BY <2>1, <2>2
  <1>5. ASSUME NEW u \in Tasks PROVE TaskOK(u)'
    <2>1. I(u) \in Instances
      BY InstanceType
    <2>2. CASE I(u) # i
      <3>1. /\ task'[u] = task[u] /\ call'[u] = call[u] /\ req'[u] = req[u] /\ resp'[u] = resp[u]
            /\ (Live(u)' <=> Live(u)) /\ UNCHANGED now
        BY <2>1, <2>2 DEF Crash, storeVars, Live, BaseInv, Types, InstanceTypes
      <3> QED BY <3>1, Untouched DEF BaseInv
    <2>3. CASE I(u) = i
      <3>1. /\ task'[u] = Idle /\ call'[u] = NoCall /\ req'[u] = req[u] /\ resp'[u] = resp[u]
            /\ ~Live(u)' /\ UNCHANGED now
        BY <2>1, <2>3 DEF Crash, storeVars, Live, BaseInv, Types, InstanceTypes
      <3>2. TaskOK(u)
        BY DEF BaseInv
      <3>3. ControlOK(u)'
        BY <3>1 DEF ControlOK, Idle, NoCall, Pc, LockPcs, PushPcs
      <3>4. RequestOK(u)'
        BY <3>1, <3>2 DEF TaskOK, RequestOK
      <3>5. AnswerOK(u)'
        BY <3>1 DEF AnswerOK
      <3>6. OwnOK(u)'
        BY <3>1, <3>2 DEF TaskOK, OwnOK, Pc, Idle, NoCall, IsExpired
      <3> QED BY <3>3, <3>4, <3>5, <3>6 DEF TaskOK
    <2> QED BY <2>2, <2>3
  <1> QED BY <1>1, <1>2, <1>3, <1>4, <1>5 DEF BaseInv, Types

-----------------------------------------------------------------------------
(***************************************************************************)
(* Types and control: the specification.                                   *)
(***************************************************************************)

LEMMA BaseInit ==
    ASSUME Init
    PROVE  BaseInv
  <1>1. TaskTypes
    BY ConstantTypes DEF Init, StoreInit, LeaseInit, TaskTypes
  <1>2. InstanceTypes
    <2>1. <<>> \in Seq(OperationType) /\ [linked |-> 0, orphan |-> 0] \in DescriptorType
          /\ Absent \in Contents
      BY DEF Contents, DescriptorType
    <2> QED BY <2>1, ConstantTypes DEF Init, InstanceTypes
  <1>3. SharedTypes
    <2>1. PICK o \in {Absent, EmptyFile} :
             StoreInit([k \in Keys |-> IF k = "file" THEN o ELSE Absent])
      BY DEF Init
    <2>2. o \in Contents /\ Absent \in Contents /\ Absent \in LockETags
      BY ConstantTypes DEF Contents, LockETags
    <2>3. /\ store \in [Keys -> Contents \union LockETags] /\ object \in Contents
          /\ lock \in LockETags /\ faults = 0
      BY <2>1, <2>2, LeaseAssumption, ManagerAssumption DEF StoreInit, object, lock
    <2>4. used \in UsedType
      BY ManagerAssumption DEF Init, UsedType
    <2> QED BY <2>3, <2>4, StoreAssumption, LeaseAssumption, ManagerAssumption
            DEF Init, LeaseInit, SharedTypes
  <1>4. ASSUME NEW t \in Tasks PROVE TaskOK(t)
    <2>1. /\ task[t] = Idle /\ call[t] = NoCall /\ req[t] = NoRequest /\ resp[t] = NoResponse
      BY DEF Init, StoreInit, LeaseInit
    <2>2. ControlOK(t)
      BY <2>1 DEF ControlOK, Idle, NoCall, Pc, LockPcs, PushPcs
    <2>3. RequestOK(t)
      BY <2>1 DEF RequestOK, NoRequest
    <2>4. AnswerOK(t)
      BY <2>1 DEF AnswerOK, NoRequest, NoResponse, Values, Contents, LockETags
    <2>5. OwnOK(t)
      BY <2>1 DEF OwnOK, NoRequest, NoCall, Pc, Idle
    <2> QED BY <2>2, <2>3, <2>4, <2>5 DEF TaskOK
  <1>5. ASSUME NEW i \in Instances PROVE InstanceOK(i)
    <2>1. OneDelete(<<>>)
      BY DEF OneDelete
    <2> QED BY <2>1 DEF Init, InstanceOK, NoLease
  <1> QED BY <1>1, <1>2, <1>3, <1>4, <1>5 DEF BaseInv, Types

LEMMA BaseStutter ==
    ASSUME BaseInv, UNCHANGED vars
    PROVE  BaseInv'
  BY DEF vars, leaseVars, storeVars, localVars, BaseInv, Types, TaskTypes, InstanceTypes,
         SharedTypes, TaskOK, ControlOK, RequestOK, AnswerOK, OwnOK, InstanceOK, Live, Pc, KeyOf,
         object, lock, IsExpired

LEMMA BaseNext ==
    ASSUME BaseInv, [Next]_vars
    PROVE  BaseInv'
  <1>1. CASE UNCHANGED vars
    BY <1>1, BaseStutter
  <1>2. CASE Next
    <2>1. UNCHANGED fileLock
      BY <1>2 DEF Next
    <2>2. CASE Tick
      BY <2>1, <2>2, TickBase
    <2>3. ASSUME NEW i \in Instances, Crash(i) PROVE BaseInv'
      BY <2>1, <2>3, CrashBase
    <2>4. ASSUME NEW t \in Tasks, Boot(t) \/ AppStep(t) PROVE BaseInv'
      BY <2>1, <2>4, BootBase, OpenWriteBase, WriteBase, UnlinkBase, FsyncBase, CloseBase,
         ReadBase, CheckBase DEF AppStep
    <2>5. ASSUME NEW t \in Tasks, TickStep(t) \/ LowerStep(t) PROVE BaseInv'
      BY <2>1, <2>5, RenewBase, FlushBase, PollBase, LowerBase DEF TickStep
    <2>6. ASSUME NEW t \in Tasks, ManagerStep(t) PROVE BaseInv'
      <3>1. CASE \/ UploadPut(t) \/ UploadHead(t) \/ UploadRecreate(t) \/ UploadVerified(t)
                 \/ Refreshed(t) \/ OpenFailed(t) \/ OpenAcquired(t) \/ HeadAnswered(t)
        BY <2>1, <3>1, UploadPutBase, UploadHeadBase, UploadRecreateBase, UploadVerifiedBase,
           RefreshedBase, OpenFailedBase, OpenAcquiredBase, HeadAnsweredBase
      <3>2. CASE \/ HeadGot(t) \/ Released(t) \/ LeaseDeleted(t) \/ Renewed(t)
                 \/ QueueDeleted(t) \/ PollListed(t) \/ BootListed(t) \/ Got(t)
        BY <2>1, <3>2, HeadGotBase, ReleasedBase, LeaseDeletedBase, RenewedBase,
           QueueDeletedBase, PollListedBase, BootListedBase, GotBase
      <3> QED BY <2>6, <3>1, <3>2 DEF ManagerStep
    <2> QED BY <1>2, <2>2, <2>3, <2>4, <2>5, <2>6 DEF Next
  <1> QED BY <1>1, <1>2

\* BaseInv is an invariant of the specification.
THEOREM BaseIsInvariant == Spec => []BaseInv
  <1>1. Init => BaseInv
    BY BaseInit
  <1>2. BaseInv /\ [Next]_vars => BaseInv'
    BY BaseNext
  <1> QED BY <1>1, <1>2, PTL DEF Spec

\* Only the store changes what it holds.
LEMMA StoreChanges ==
    ASSUME [Next]_vars, store' # store
    PROVE  \E t \in Tasks : StoreStep(t) /\ UNCHANGED <<now, call, localVars, task, used, synced>>
  <1>1. Next
    BY DEF vars, leaseVars, storeVars
  <1>2. ~Tick /\ \A i \in Instances : ~Crash(i)
    BY DEF Tick, Crash, storeVars
  <1>3. ASSUME NEW t \in Tasks, Boot(t) \/ AppStep(t) PROVE FALSE
    BY <1>3 DEF Boot, AppStep, OpenWrite, Write, Unlink, Fsync, Close, Read, Check
  <1>4. ASSUME NEW t \in Tasks, TickStep(t) PROVE FALSE
    BY <1>4 DEF TickStep, Renew, Flush, Poll
  <1>5. ASSUME NEW t \in Tasks, ManagerStep(t) PROVE FALSE
    BY <1>5 DEF ManagerStep, UploadPut, UploadHead, UploadRecreate, UploadVerified, Refreshed,
                OpenFailed, OpenAcquired, HeadAnswered, HeadGot, Released, LeaseDeleted, Renewed,
                QueueDeleted, PollListed, BootListed, Got
  <1>6. ASSUME NEW t \in Tasks, LeaseStep(t) PROVE FALSE
    BY <1>6 DEF LeaseStep, AcquireGot, AcquirePut, AcquireVerified, AcquireWake, RenewDone,
                ReleaseDone
  <1> QED BY <1>1, <1>2, <1>3, <1>4, <1>5, <1>6 DEF Next, LowerStep

\* An unexpired lock object is only replaced or removed on behalf of the
\* instance that it names, with any number of threads, crashes and faults.
THEOREM LockIsRespectedHolds ==
    ASSUME ConditionalDelete PROVE Spec => LockIsRespected
  <1> DEFINE Respected ==
               lock # Absent /\ lock' # lock /\ ~IsExpired(lock) =>
                  \E t \in Tasks : /\ InstanceOf[t] = lock.instance
                                   /\ req[t].op \in {"put", "delete"} /\ req[t].key = "lock"
                                   /\ req'[t] # req[t]
  <1>1. BaseInv /\ [Next]_vars => [Respected]_vars
    <2> SUFFICES ASSUME BaseInv, [Next]_vars, lock # Absent, lock' # lock, ~IsExpired(lock)
                 PROVE  \E t \in Tasks : /\ InstanceOf[t] = lock.instance
                                         /\ req[t].op \in {"put", "delete"} /\ req[t].key = "lock"
                                         /\ req'[t] # req[t]
      OBVIOUS
    <2>1. PICK t \in Tasks : StoreStep(t)
      BY StoreChanges DEF lock
    <2> DEFINE r == req[t]
    <2>2. PICK obj, a : Handled(t, obj, a)
      BY <2>1, StoreStepEffect DEF Downgraded, lock
    <2>3. /\ r \in RequestType /\ r.op # "none" /\ r.key \in {"file", "lock"}
          /\ r.etag \in Values(r.key) /\ r.body \in Values(r.key)
          /\ r.op = "put" => r.body # Absent
      BY <2>1, StoreStepEffect, Facts DEF TaskOK, RequestOK
    <2>4. r.key = "lock" /\ obj = lock' /\ store[r.key] = lock
      BY <2>2, <2>3, ServedTo, LeaseAssumption DEF Handled, lock
    <2>5. /\ r.op # "get"
          /\ r.cond = "ifMatch" => lock = r.etag
          /\ r.cond = "ifNoneMatch" => lock = Absent
      BY <2>2, <2>3, <2>4, KeyValues, HandledEffect DEF Handled
    <2>6. r.op \in {"put", "delete"} /\ req'[t] # r
      BY <2>2, <2>3, <2>5, ServedTo DEF RequestType, Handled, NoRequest
    <2>7. I(t) = lock.instance
      BY <2>4, <2>5, <2>6, Facts DEF TaskOK, OwnOK
    <2> QED BY <2>4, <2>6, <2>7, InstanceType
  <1>2. Spec => [][Respected]_vars
    BY <1>1, BaseIsInvariant, PTL DEF Spec
  <1> QED BY <1>2 DEF LockIsRespected

-----------------------------------------------------------------------------
(***************************************************************************)
(* References are counted: for any number of threads.                      *)
(***************************************************************************)

\* t is an open that is going to take a reference.
Opens(t) == task[t].op = "open" /\ task[t].pc \notin {"release", "giveback"}
Weight(t) == IF Opens(t) THEN 1 ELSE 0

\* What a step of t adds to the references and opens of its instance has been
\* counted.
Counts(t) ==
    /\ used'.open >= used.open
    /\ leases'[I(t)].refcount + Weight(t)' + used.open
          <= leases[I(t)].refcount + Weight(t) + used'.open

LEMMA OpeningWeight ==
    ASSUME NEW t \in Tasks, IsFiniteSet(Opening(I(t)))
    PROVE  /\ IsFiniteSet(Opening(I(t)) \ {t})
           /\ Cardinality(Opening(I(t))) \in Nat
           /\ Cardinality(Opening(I(t)) \ {t}) \in Nat
           /\ Cardinality(Opening(I(t))) = Cardinality(Opening(I(t)) \ {t}) + Weight(t)
  <1>1. t \in Opening(I(t)) <=> Opens(t)
    BY DEF Opening, Opens
  <1>2. /\ IsFiniteSet(Opening(I(t)) \ {t})
        /\ Cardinality(Opening(I(t)) \ {t}) =
              IF t \in Opening(I(t)) THEN Cardinality(Opening(I(t))) - 1 ELSE Cardinality(Opening(I(t)))
    BY FS_RemoveElement
  <1>3. Cardinality(Opening(I(t))) \in Nat /\ Cardinality(Opening(I(t)) \ {t}) \in Nat
    BY <1>2, FS_CardinalityType
  <1> QED BY <1>1, <1>2, <1>3 DEF Weight

LEMMA CountStep ==
    ASSUME BaseInv, BaseInv', CountInv, NEW t \in Tasks, TaskFrame(t), Counts(t),
           \A j \in Instances \ {I(t)} : leases'[j] = leases[j]
    PROVE  CountInv'
  <1> SUFFICES ASSUME NEW i \in Instances
               PROVE  /\ IsFiniteSet(Opening(i)')
                      /\ leases'[i].refcount + Cardinality(Opening(i)') <= used'.open
    BY DEF CountInv
  <1>1. /\ IsFiniteSet(Opening(i)) /\ Cardinality(Opening(i)) \in Nat
        /\ leases[i].refcount + Cardinality(Opening(i)) <= used.open
    BY FS_CardinalityType DEF CountInv
  <1>2. /\ leases[i].refcount \in Nat /\ leases'[i].refcount \in Nat
        /\ used.open \in Nat /\ used'.open \in Nat
    <2>1. leases[i].refcount \in Nat /\ leases'[i].refcount \in Nat
      BY DEF BaseInv, Types, InstanceTypes, EntryType
    <2>2. used.open \in 0 .. MaxOpens /\ used'.open \in 0 .. MaxOpens
      BY DEF BaseInv, Types, SharedTypes, UsedType
    <2> QED BY <2>1, <2>2, ManagerAssumption
  <1>3. CASE i # I(t)
    <2>1. Opening(i)' = Opening(i)
      BY <1>3 DEF Opening, TaskFrame
    <2> QED BY <1>1, <1>2, <1>3, <2>1 DEF Counts
  <1>4. CASE i = I(t)
    <2>1. Opening(i)' \ {t} = Opening(i) \ {t}
      BY DEF Opening, TaskFrame
    <2>2. /\ IsFiniteSet(Opening(i) \ {t}) /\ Cardinality(Opening(i) \ {t}) \in Nat
          /\ Cardinality(Opening(i)) = Cardinality(Opening(i) \ {t}) + Weight(t)
      BY <1>1, <1>4, OpeningWeight
    <2>3. IsFiniteSet(Opening(i)')
      <3>1. IsFiniteSet((Opening(i) \ {t}) \union {t})
        BY <2>2, FS_AddElement
      <3>2. Opening(i)' \subseteq (Opening(i) \ {t}) \union {t}
        BY <2>1
      <3> QED BY <3>1, <3>2, FS_Subset
    <2>4. t \in Opening(i)' <=> Opens(t)'
      BY <1>4 DEF Opening, Opens
    <2>5. Cardinality(Opening(i)' \ {t}) =
              IF t \in Opening(i)' THEN Cardinality(Opening(i)') - 1 ELSE Cardinality(Opening(i)')
      BY <2>3, FS_RemoveElement
    <2>6. Cardinality(Opening(i)') \in Nat
      BY <2>3, FS_CardinalityType
    <2>7. Cardinality(Opening(i)') = Cardinality(Opening(i) \ {t}) + Weight(t)'
      <3>1. Cardinality(Opening(i)' \ {t}) = Cardinality(Opening(i) \ {t})
        BY <2>1
      <3>2. CASE Opens(t)'
        <4>1. Weight(t)' = 1
          BY <3>2 DEF Weight
        <4> QED BY <2>2, <2>4, <2>5, <2>6, <3>1, <3>2, <4>1
      <3>3. CASE ~Opens(t)'
        <4>1. Weight(t)' = 0
          BY <3>3 DEF Weight
        <4> QED BY <2>2, <2>4, <2>5, <2>6, <3>1, <3>3, <4>1
      <3> QED BY <3>2, <3>3
    <2>8. Weight(t) \in {0, 1} /\ Weight(t)' \in {0, 1}
      BY DEF Weight
    <2> QED BY <1>1, <1>2, <1>4, <2>2, <2>3, <2>7, <2>8 DEF Counts
  <1> QED BY <1>3, <1>4

\* What an instance's entry counts after the operators that change it.
Refs(i) == leases[i].refcount

LEMMA RefsAfter ==
    ASSUME BaseInv, NEW i \in Instances
    PROVE  /\ Refs(i) \in Nat /\ (~leases[i].held => Refs(i) = 0)
           /\ UNCHANGED leases => Refs(i)' = Refs(i)
           /\ \A etag : Rebase(i, etag) => Refs(i)' = Refs(i)
           /\ EnqueueUpload(i) => Refs(i)' = Refs(i)
           /\ EnqueueDelete(i) => Refs(i)' = Refs(i)
           /\ \A etag : leases' = [leases EXCEPT ![i].base = etag] => Refs(i)' = Refs(i)
           /\ leases' = [leases EXCEPT ![i].releasing = TRUE] => Refs(i)' = Refs(i)
           /\ leases' = [leases EXCEPT ![i].refcount = @ - 1] => Refs(i)' = Refs(i) - 1
           /\ leases' = [leases EXCEPT ![i].refcount = @ + 1] => Refs(i)' = Refs(i) + 1
           /\ leases' = [leases EXCEPT ![i] = NoLease] => Refs(i)' = 0
  <1>1. leases \in [Instances -> EntryType] /\ leases[i] \in EntryType /\ InstanceOK(i)
    BY DEF BaseInv, Types, InstanceTypes
  <1>2. \A etag : Rebase(i, etag) => Refs(i)' = Refs(i)
    BY <1>1 DEF Rebase, Refs, EntryType
  <1>3. EnqueueUpload(i) => Refs(i)' = Refs(i)
    BY <1>1 DEF EnqueueUpload, Refs, EntryType
  <1>4. EnqueueDelete(i) => Refs(i)' = Refs(i)
    BY <1>1 DEF EnqueueDelete, Refs, EntryType
  <1> QED BY <1>1, <1>2, <1>3, <1>4 DEF Refs, EntryType, InstanceOK, NoLease

LEMMA InsertRefs ==
    ASSUME BaseInv, NEW t \in Tasks, NEW base, OpenInsert(t, base)
    PROVE  Refs(I(t))' = 1
  <1>1. leases \in [Instances -> EntryType] /\ I(t) \in Instances
    BY InstanceType DEF BaseInv, Types, InstanceTypes
  <1> QED BY <1>1 DEF OpenInsert, NoLease, Refs

\* Steps that neither start an open nor take a reference.
LEMMA CountsLess ==
    ASSUME BaseInv, NEW t \in Tasks, UNCHANGED used \/ used'.open = used.open,
           Refs(I(t))' \in Nat, Refs(I(t))' <= Refs(I(t)), Opens(t)' => Opens(t)
    PROVE  Counts(t)
  <1>1. used.open \in Nat /\ Refs(I(t)) \in Nat
    BY RefsAfter, InstanceType, ManagerAssumption DEF BaseInv, Types, SharedTypes, UsedType
  <1> QED BY <1>1 DEF Counts, Weight, Refs

\* The open of t takes its reference.
LEMMA CountsTaken ==
    ASSUME BaseInv, NEW t \in Tasks, UNCHANGED used, Opens(t), ~Opens(t)',
           Refs(I(t))' \in Nat, Refs(I(t))' <= Refs(I(t)) + 1
    PROVE  Counts(t)
  <1>1. used.open \in Nat /\ Refs(I(t)) \in Nat
    BY RefsAfter, InstanceType, ManagerAssumption DEF BaseInv, Types, SharedTypes, UsedType
  <1> QED BY <1>1 DEF Counts, Weight, Refs

\* How the shared steps leave the task.
LEMMA OpensAfter ==
    ASSUME BaseInv, NEW t \in Tasks
    PROVE  /\ Finish(t) => ~Opens(t)'
           /\ Proceed(t) => ~Opens(t)'
           /\ \A op, etag : StartRelease(t, op, etag) => ~Opens(t)'
           /\ UNCHANGED task => (Opens(t)' <=> Opens(t))
           /\ \A op, content, base, snap : StartUpload(t, op, content, base, snap) =>
                 (Opens(t)' <=> op = "open")
           /\ \A op, pc : task' = [task EXCEPT ![t].op = op, ![t].pc = pc] /\ op # "open" => ~Opens(t)'
           /\ \A pc, r : Await(t, pc, r) => (Opens(t)' => task[t].op = "open")
  <1>1. task \in [Tasks -> TaskType] /\ task[t] \in TaskType
    BY DEF BaseInv, Types, TaskTypes
  <1>2. Finish(t) => ~Opens(t)'
    BY <1>1 DEF Finish, Opens, Idle
  <1>3. \A op, etag : StartRelease(t, op, etag) => ~Opens(t)'
    BY <1>1 DEF StartRelease, Opens, TaskType
  <1>4. Proceed(t) => ~Opens(t)'
    BY <1>2, <1>3 DEF Proceed, OpenAbort
  <1>5. \A op, content, base, snap : StartUpload(t, op, content, base, snap) =>
                 (Opens(t)' <=> op = "open")
    BY <1>1 DEF StartUpload, Opens, TaskType
  <1>6. \A op, pc : task' = [task EXCEPT ![t].op = op, ![t].pc = pc] /\ op # "open" => ~Opens(t)'
    BY <1>1 DEF Opens, TaskType
  <1>7. \A pc, r : Await(t, pc, r) => (Opens(t)' => task[t].op = "open")
    BY <1>1 DEF Await, Opens, TaskType
  <1> QED BY <1>2, <1>3, <1>4, <1>5, <1>6, <1>7 DEF Opens

-----------------------------------------------------------------------------
(***************************************************************************)
(* A step of t leaves other tasks and other instances alone.               *)
(***************************************************************************)

StepOf(t) == Boot(t) \/ AppStep(t) \/ TickStep(t) \/ ManagerStep(t) \/ LowerStep(t)

\* f changes at most at x.
At(f, g, x, S) == \A y \in S \ {x} : g[y] = f[y]
TaskAt(t) == At(task, task', t, Tasks) /\ At(req, req', t, Tasks) /\ At(resp, resp', t, Tasks)
CallAt(t) == At(call, call', t, Tasks)
FilesAt(i) == At(local, local', i, Instances) /\ At(fds, fds', i, Instances)
CacheAt(i) == At(cache, cache', i, Instances)
LeasesAt(i) == At(leases, leases', i, Instances)
QueueAt(i) == At(queue, queue', i, Instances)
StatusAt(i) == At(status, status', i, Instances)

LEMMA FrameOfParts ==
    ASSUME NEW t, NEW i
    PROVE  /\ TaskAt(t) /\ CallAt(t) <=> TaskFrame(t)
           /\ FilesAt(i) /\ CacheAt(i) /\ LeasesAt(i) /\ QueueAt(i) /\ StatusAt(i)
                 <=> InstanceFrame(i)
           /\ UNCHANGED <<task, req, resp>> => TaskAt(t)
           /\ UNCHANGED call => CallAt(t)
           /\ UNCHANGED <<local, fds>> => FilesAt(i)
           /\ UNCHANGED cache => CacheAt(i)
           /\ UNCHANGED leases => LeasesAt(i)
           /\ UNCHANGED queue => QueueAt(i)
           /\ UNCHANGED status => StatusAt(i)
           /\ UNCHANGED localVars =>
                 FilesAt(i) /\ CacheAt(i) /\ LeasesAt(i) /\ QueueAt(i) /\ StatusAt(i)
  BY DEF TaskFrame, InstanceFrame, At, TaskAt, CallAt, FilesAt, CacheAt, LeasesAt, QueueAt,
         StatusAt, localVars

LEMMA FrameOfTask ==
    ASSUME BaseInv, NEW t \in Tasks
    PROVE  /\ Finish(t) => TaskAt(t)
           /\ \A pc, r : Await(t, pc, r) => TaskAt(t)
           /\ \A op, pc, r : task' = [task EXCEPT ![t].op = op, ![t].pc = pc] /\ Send(t, r) => TaskAt(t)
           /\ \A op, content, base, snap : StartUpload(t, op, content, base, snap) => TaskAt(t)
           /\ \A op, etag : StartRelease(t, op, etag) => TaskAt(t) /\ CallAt(t)
           /\ Proceed(t) => TaskAt(t) /\ CallAt(t)
           /\ \A ca : call' = [call EXCEPT ![t] = ca] => CallAt(t)
  <1>1. Finish(t) => TaskAt(t)
    BY DEF Finish, Send, TaskAt, At, BaseInv, Types, TaskTypes
  <1>2. \A pc, r : Await(t, pc, r) => TaskAt(t)
    BY DEF Await, Send, TaskAt, At, BaseInv, Types, TaskTypes
  <1>3. \A op, pc, r : task' = [task EXCEPT ![t].op = op, ![t].pc = pc] /\ Send(t, r) => TaskAt(t)
    BY DEF Send, TaskAt, At, BaseInv, Types, TaskTypes
  <1>4. \A op, content, base, snap : StartUpload(t, op, content, base, snap) => TaskAt(t)
    BY DEF StartUpload, Send, TaskAt, At, BaseInv, Types, TaskTypes
  <1>5. \A op, etag : StartRelease(t, op, etag) => TaskAt(t) /\ CallAt(t)
    BY DEF StartRelease, CallRelease, Send, TaskAt, CallAt, At, BaseInv, Types, TaskTypes
  <1>6. \A ca : call' = [call EXCEPT ![t] = ca] => CallAt(t)
    BY DEF CallAt, At, BaseInv, Types, TaskTypes
  <1>7. Proceed(t) => TaskAt(t) /\ CallAt(t)
    BY <1>1, <1>5, FrameOfParts DEF Proceed, OpenAbort
  <1> QED BY <1>1, <1>2, <1>3, <1>4, <1>5, <1>6, <1>7

LEMMA FrameOfInstance ==
    ASSUME BaseInv, NEW i \in Instances
    PROVE  /\ \A mode : LocalOpen(i, mode) => FilesAt(i)
           /\ LocalUnlink(i) => FilesAt(i)
           /\ \A v : local' = [local EXCEPT ![i] = v] /\ UNCHANGED fds => FilesAt(i)
           /\ \A etag : Rebase(i, etag) => LeasesAt(i)
           /\ \A etag : cache' = [cache EXCEPT ![i] = etag] => CacheAt(i)
           /\ \A e : leases' = [leases EXCEPT ![i] = e] => LeasesAt(i)
           /\ \A n : leases' = [leases EXCEPT ![i].refcount = n] => LeasesAt(i)
           /\ \A v : leases' = [leases EXCEPT ![i].base = v] => LeasesAt(i)
           /\ leases' = [leases EXCEPT ![i].releasing = TRUE] => LeasesAt(i)
           /\ \A q : queue' = [queue EXCEPT ![i] = q] => QueueAt(i)
           /\ \A s : status' = [status EXCEPT ![i] = s] => StatusAt(i)
           /\ EnqueueUpload(i) => LeasesAt(i) /\ QueueAt(i)
           /\ EnqueueDelete(i) => LeasesAt(i) /\ QueueAt(i) /\ CacheAt(i)
  <1> USE DEF At, FilesAt, CacheAt, LeasesAt, QueueAt, StatusAt
  <1>1. \A mode : LocalOpen(i, mode) => FilesAt(i)
    BY DEF LocalOpen, BaseInv, Types, InstanceTypes
  <1>2. LocalUnlink(i) => FilesAt(i)
    BY DEF LocalUnlink, BaseInv, Types, InstanceTypes
  <1>3. \A etag : Rebase(i, etag) => LeasesAt(i)
    BY DEF Rebase, BaseInv, Types, InstanceTypes
  <1>4. EnqueueUpload(i) => LeasesAt(i) /\ QueueAt(i)
    BY DEF EnqueueUpload, BaseInv, Types, InstanceTypes
  <1>5. EnqueueDelete(i) => LeasesAt(i) /\ QueueAt(i) /\ CacheAt(i)
    BY DEF EnqueueDelete, BaseInv, Types, InstanceTypes
  <1> QED BY <1>1, <1>2, <1>3, <1>4, <1>5 DEF BaseInv, Types, InstanceTypes

LEMMA FrameOfPush ==
    ASSUME BaseInv, NEW t \in Tasks
    PROVE  /\ \A etag : UploadOk(t, etag) /\ UNCHANGED status => TaskFrame(t) /\ InstanceFrame(I(t))
           /\ UploadError(t) /\ UNCHANGED status => TaskFrame(t) /\ InstanceFrame(I(t))
           /\ UploadConflict(t) => TaskFrame(t) /\ InstanceFrame(I(t))
           /\ \A pc, r : Await(t, pc, r) /\ UNCHANGED <<localVars, call>> =>
                 TaskFrame(t) /\ InstanceFrame(I(t))
  <1>1. I(t) \in Instances
    BY InstanceType
  <1>2. ASSUME NEW etag, UploadOk(t, etag), UNCHANGED status
        PROVE  TaskFrame(t) /\ InstanceFrame(I(t))
    <2>1. CacheAt(I(t)) /\ QueueAt(I(t)) /\ StatusAt(I(t))
      BY <1>1, <1>2, FrameOfInstance, FrameOfParts DEF UploadOk
    <2>2. CASE task[t].op = "open"
      <3>1. OpenInsert(t, etag) /\ LocalOpen(I(t), task[t].mode)
        BY <1>2, <2>2 DEF UploadOk
      <3>2. FilesAt(I(t)) /\ LeasesAt(I(t))
        BY <1>1, <3>1, FrameOfInstance DEF OpenInsert
      <3>3. TaskAt(t) /\ CallAt(t)
        BY <3>1, FrameOfTask DEF OpenInsert
      <3> QED BY <2>1, <3>2, <3>3, FrameOfParts
    <2>3. CASE task[t].op # "open"
      <3>1. Rebase(I(t), etag) /\ Proceed(t) /\ UNCHANGED <<local, fds>>
        BY <1>2, <2>3 DEF UploadOk
      <3> QED BY <1>1, <2>1, <3>1, FrameOfInstance, FrameOfTask, FrameOfParts
    <2> QED BY <2>2, <2>3
  <1>3. UploadError(t) /\ UNCHANGED status => TaskFrame(t) /\ InstanceFrame(I(t))
    BY <1>1, FrameOfInstance, FrameOfTask, FrameOfParts DEF UploadError
  <1>4. \A pc, r : Await(t, pc, r) /\ UNCHANGED <<localVars, call>> =>
           TaskFrame(t) /\ InstanceFrame(I(t))
    BY FrameOfTask, FrameOfParts
  <1>5. ASSUME UploadConflict(t) PROVE TaskFrame(t) /\ InstanceFrame(I(t))
    <2>1. CASE /\ task' = [task EXCEPT ![t].pc = "upload", ![t].content = local[I(t)],
                                       ![t].force = TRUE]
               /\ Send(t, PutAlways("file", local[I(t)]))
               /\ UNCHANGED <<localVars, call, synced>>
      <3>1. TaskAt(t)
        BY <2>1 DEF Send, TaskAt, At, BaseInv, Types, TaskTypes
      <3> QED BY <2>1, <3>1, FrameOfParts
    <2> QED BY <1>3, <1>4, <1>5, <2>1 DEF UploadConflict
  <1> QED BY <1>2, <1>3, <1>4, <1>5

LEMMA FrameOfFlush ==
    ASSUME BaseInv, NEW t \in Tasks, NEW op, NEW l, FlushLease(t, op, l)
    PROVE  TaskFrame(t) /\ CacheAt(I(t))
  <1>1. I(t) \in Instances
    BY InstanceType
  <1>2. CASE l.pendingDelete /\ l.base # Absent
    <2>1. TaskAt(t)
      BY <1>2 DEF FlushLease, Send, TaskAt, At, BaseInv, Types, TaskTypes
    <2> QED BY <1>2, <2>1, FrameOfParts DEF FlushLease
  <1>3. ASSUME IF op = "close" THEN StartRelease(t, op, l.etag) ELSE Finish(t) /\ UNCHANGED call
        PROVE  TaskAt(t) /\ CallAt(t)
    BY <1>3, FrameOfTask, FrameOfParts
  <1>4. CASE l.pendingDelete /\ l.base = Absent
    <2>1. cache' = [cache EXCEPT ![I(t)] = Absent]
      BY <1>4 DEF FlushLease
    <2> QED BY <1>1, <1>3, <1>4, <2>1, FrameOfInstance, FrameOfParts DEF FlushLease
  <1>5. CASE ~l.pendingDelete /\ l.dirty /\ local[I(t)] # Absent
    BY <1>5, FrameOfTask, FrameOfParts DEF FlushLease
  <1>6. CASE ~l.pendingDelete /\ ~(l.dirty /\ local[I(t)] # Absent)
    BY <1>3, <1>6, FrameOfParts DEF FlushLease
  <1> QED BY <1>2, <1>4, <1>5, <1>6

LEMMA FrameOfLower ==
    ASSUME BaseInv, NEW t \in Tasks, LowerStep(t)
    PROVE  TaskFrame(t) /\ InstanceFrame(I(t))
  <1>1. CASE StoreStep(t) /\ UNCHANGED call
    <2>1. At(req, req', t, Tasks) /\ At(resp, resp', t, Tasks)
      BY <1>1 DEF StoreStep, Serve, TransportError, ServeTwice, HeadCheck, Served, At,
                  BaseInv, Types, TaskTypes
    <2>2. TaskAt(t)
      BY <2>1 DEF TaskAt, At, LowerStep
    <2> QED BY <1>1, <2>2, FrameOfParts DEF LowerStep
  <1>2. CASE LeaseStep(t)
    <2>1. At(req, req', t, Tasks) /\ At(resp, resp', t, Tasks) /\ At(call, call', t, Tasks)
      BY <1>2 DEF LeaseStep, AcquireGot, AcquirePut, AcquireVerified, AcquireWake, RenewDone,
                  ReleaseDone, PutRecord, RetryOrBusy, Goto, Send, At, BaseInv, Types, TaskTypes
    <2>2. TaskAt(t) /\ CallAt(t)
      BY <2>1 DEF TaskAt, CallAt, At, LowerStep
    <2> QED BY <2>2, FrameOfParts DEF LowerStep
  <1> QED BY <1>1, <1>2 DEF LowerStep

LEMMA FrameOfApp ==
    ASSUME BaseInv, NEW t \in Tasks, AppStep(t)
    PROVE  TaskFrame(t) /\ InstanceFrame(I(t))
  <1> DEFINE i == I(t)
  <1>1. i \in Instances
    BY InstanceType
  <1>2. CASE OpenWrite(t)
    <2>1. CacheAt(i) /\ QueueAt(i) /\ StatusAt(i)
      BY <1>2, FrameOfParts DEF OpenWrite
    <2>2. FilesAt(i) /\ LeasesAt(i)
      BY <1>1, <1>2, FrameOfParts, FrameOfInstance DEF OpenWrite
    <2>3. TaskAt(t) /\ CallAt(t)
      <3>1. CASE UNCHANGED <<task, call, req, resp>>
        BY <3>1, FrameOfParts
      <3>2. ASSUME NEW mode, CallAcquire(t),
                   task' = [task EXCEPT ![t] = [Idle EXCEPT !.op = "open", !.pc = "acquire",
                                                            !.mode = mode]]
            PROVE  TaskAt(t) /\ CallAt(t)
        BY <3>2 DEF CallAcquire, Send, TaskAt, CallAt, At, BaseInv, Types, TaskTypes
      <3> QED BY <1>2, <3>1, <3>2 DEF OpenWrite
    <2> QED BY <2>1, <2>2, <2>3, FrameOfParts
  <1>3. CASE Write(t)
    <2>1. CallAt(t) /\ CacheAt(i) /\ StatusAt(i)
      BY <1>3, FrameOfParts DEF Write
    <2>2. PICK content : local' = [local EXCEPT ![i] = content] /\ UNCHANGED fds
      BY <1>3 DEF Write
    <2>3. FilesAt(i)
      BY <1>1, <2>2, FrameOfInstance
    <2>4. TaskAt(t) /\ LeasesAt(i) /\ QueueAt(i)
      BY <1>1, <1>3, FrameOfParts, FrameOfInstance, FrameOfTask DEF Write
    <2> QED BY <2>1, <2>3, <2>4, FrameOfParts
  <1>4. CASE Unlink(t)
    BY <1>1, <1>4, FrameOfParts, FrameOfInstance DEF Unlink
  <1>5. CASE Fsync(t)
    <2>1. FilesAt(i) /\ StatusAt(i) /\ LeasesAt(i) /\ QueueAt(i)
      BY <1>1, <1>5, FrameOfParts, FrameOfInstance DEF Fsync
    <2>2. TaskFrame(t) /\ CacheAt(i)
      BY <1>5, FrameOfParts, FrameOfFlush, FrameOfTask DEF Fsync
    <2> QED BY <2>1, <2>2, FrameOfParts
  <1>6. CASE Close(t)
    <2>1. FilesAt(i)
      BY <1>1, <1>6 DEF Close, FilesAt, At, BaseInv, Types, InstanceTypes
    <2>2. QueueAt(i) /\ StatusAt(i)
      BY <1>6, FrameOfParts DEF Close
    <2>3. LeasesAt(i) /\ TaskFrame(t) /\ CacheAt(i)
      BY <1>1, <1>6, FrameOfParts, FrameOfInstance, FrameOfFlush DEF Close
    <2> QED BY <2>1, <2>2, <2>3, FrameOfParts
  <1>7. CASE Read(t) \/ Check(t)
    BY <1>7, FrameOfParts, FrameOfTask DEF Read, Check
  <1> QED BY <1>2, <1>3, <1>4, <1>5, <1>6, <1>7 DEF AppStep

LEMMA FrameOfManager ==
    ASSUME BaseInv, NEW t \in Tasks, ManagerStep(t)
    PROVE  TaskFrame(t) /\ InstanceFrame(I(t))
  <1> DEFINE i == I(t)
  <1>1. i \in Instances
    BY InstanceType
  <1>2. CASE UploadPut(t) \/ UploadHead(t) \/ UploadRecreate(t) \/ UploadVerified(t)
    BY <1>2, FrameOfPush DEF UploadPut, UploadHead, UploadRecreate, UploadVerified
  <1>3. CASE Refreshed(t)
    <2>1. QueueAt(i) /\ StatusAt(i) /\ TaskFrame(t)
      BY <1>3, FrameOfParts, FrameOfTask DEF Refreshed
    <2>2. FilesAt(i) /\ CacheAt(i) /\ LeasesAt(i)
      BY <1>1, <1>3, FrameOfParts, FrameOfInstance DEF Refreshed, Download
    <2> QED BY <2>1, <2>2, FrameOfParts
  <1>4. CASE OpenFailed(t)
    BY <1>4, FrameOfParts, FrameOfTask DEF OpenFailed
  <1>5. CASE OpenAcquired(t)
    <2>1. FilesAt(i) /\ CacheAt(i) /\ StatusAt(i)
      BY <1>5, FrameOfParts DEF OpenAcquired
    <2>2. LeasesAt(i) /\ QueueAt(i)
      BY <1>1, <1>5, FrameOfParts, FrameOfInstance DEF OpenAcquired
    <2>3. TaskAt(t) /\ CallAt(t)
      <3>1. CASE task' = [task EXCEPT ![t].pc = "giveback"] /\ CallRelease(t, call[t].etag)
        BY <3>1 DEF CallRelease, Send, TaskAt, CallAt, At, BaseInv, Types, TaskTypes
      <3>2. CASE \/ OpenAbort(t)
                 \/ StartUpload(t, "open", local[i], cache[i], Absent) /\ UNCHANGED call
                 \/ Await(t, "head", Get("file")) /\ UNCHANGED call
        BY <3>2, FrameOfTask, FrameOfParts DEF OpenAbort
      <3> QED BY <1>5, <3>1, <3>2 DEF OpenAcquired
    <2> QED BY <2>1, <2>2, <2>3, FrameOfParts
  <1>6. ASSUME NEW base, HeadDone(t, base) PROVE TaskFrame(t) /\ LeasesAt(i)
    BY <1>1, <1>6, FrameOfParts, FrameOfInstance, FrameOfTask DEF HeadDone, OpenInsert
  <1>7. CASE HeadAnswered(t)
    <2>1. CacheAt(i) /\ QueueAt(i) /\ StatusAt(i)
      BY <1>7, FrameOfParts DEF HeadAnswered
    <2>2. FilesAt(i)
      BY <1>1, <1>7, FrameOfParts, FrameOfInstance DEF HeadAnswered
    <2>3. TaskFrame(t) /\ LeasesAt(i)
      BY <1>6, <1>7, FrameOfParts, FrameOfTask DEF HeadAnswered
    <2> QED BY <2>1, <2>2, <2>3, FrameOfParts
  <1>8. CASE HeadGot(t)
    <2>1. QueueAt(i) /\ StatusAt(i)
      BY <1>8, FrameOfParts DEF HeadGot
    <2>2. CacheAt(i)
      BY <1>1, <1>8, FrameOfParts, FrameOfInstance DEF HeadGot
    <2>3. FilesAt(i)
      <3>1. ASSUME NEW v, NEW n, local' = [local EXCEPT ![i] = v],
                   fds' = [fds EXCEPT ![i].linked = n]
            PROVE  FilesAt(i)
        BY <3>1 DEF FilesAt, At, BaseInv, Types, InstanceTypes
      <3> QED BY <1>1, <1>8, <3>1, FrameOfParts, FrameOfInstance DEF HeadGot
    <2>4. TaskFrame(t) /\ LeasesAt(i)
      BY <1>6, <1>8, FrameOfParts, FrameOfTask DEF HeadGot
    <2> QED BY <2>1, <2>2, <2>3, <2>4, FrameOfParts
  <1>9. CASE Released(t)
    <2>1. CacheAt(i) /\ QueueAt(i) /\ StatusAt(i) /\ TaskFrame(t)
      BY <1>9, FrameOfParts, FrameOfTask DEF Released
    <2>2. FilesAt(i) /\ LeasesAt(i)
      BY <1>1, <1>9, FrameOfParts, FrameOfInstance DEF Released
    <2> QED BY <2>1, <2>2, FrameOfParts
  <1>10. CASE LeaseDeleted(t)
    BY <1>1, <1>10, FrameOfParts, FrameOfInstance, FrameOfTask DEF LeaseDeleted
  <1>11. CASE Renewed(t)
    <2>1. TaskFrame(t) /\ FilesAt(i) /\ CacheAt(i) /\ QueueAt(i) /\ StatusAt(i)
      BY <1>11, FrameOfParts, FrameOfTask DEF Renewed
    <2>2. \E e : leases' = [leases EXCEPT ![i] = e]
      BY <1>11 DEF Renewed
    <2> QED BY <1>1, <2>1, <2>2, FrameOfParts, FrameOfInstance
  <1>12. CASE QueueDeleted(t)
    BY <1>12, FrameOfParts, FrameOfTask DEF QueueDeleted
  <1>13. CASE PollListed(t)
    BY <1>1, <1>13, FrameOfParts, FrameOfInstance, FrameOfTask DEF PollListed
  <1>14. CASE BootListed(t)
    BY <1>1, <1>14, FrameOfParts, FrameOfInstance, FrameOfTask DEF BootListed
  <1>15. CASE Got(t)
    BY <1>1, <1>15, FrameOfParts, FrameOfInstance, FrameOfTask DEF Got, Download
  <1> QED BY <1>2, <1>3, <1>4, <1>5, <1>7, <1>8, <1>9, <1>10, <1>11, <1>12, <1>13, <1>14, <1>15
          DEF ManagerStep

LEMMA FrameOfStep ==
    ASSUME BaseInv, NEW t \in Tasks, StepOf(t)
    PROVE  TaskFrame(t) /\ InstanceFrame(I(t))
  <1>1. CASE Boot(t)
    BY <1>1, FrameOfParts, FrameOfTask DEF Boot
  <1>2. CASE TickStep(t)
    <2>1. CASE Renew(t)
      <3>1. TaskAt(t) /\ CallAt(t)
        BY <2>1 DEF Renew, CallRenew, Send, TaskAt, CallAt, At, BaseInv, Types, TaskTypes
      <3> QED BY <2>1, <3>1, FrameOfParts DEF Renew
    <2>2. CASE Flush(t)
      BY <2>2, InstanceType, FrameOfParts, FrameOfInstance, FrameOfTask DEF Flush
    <2>3. CASE Poll(t)
      BY <2>3, FrameOfParts, FrameOfTask DEF Poll
    <2> QED BY <1>2, <2>1, <2>2, <2>3 DEF TickStep
  <1> QED BY <1>1, <1>2, FrameOfApp, FrameOfManager, FrameOfLower DEF StepOf

-----------------------------------------------------------------------------
(***************************************************************************)
(* References are counted: the actions.                                    *)
(***************************************************************************)

\* A suspended open that is not giving the lock back is going to take one.
LEMMA OpensMeans ==
    ASSUME NEW t \in Tasks, task[t].pc \notin {"release", "giveback"}
    PROVE  task[t].op = "open" <=> Opens(t)
  BY DEF Opens

LEMMA CountsFinish ==
    ASSUME BaseInv, NEW t \in Tasks, ~Opens(t)', UNCHANGED used,
           Refs(I(t))' = Refs(I(t)) \/ Refs(I(t))' = 0
    PROVE  Counts(t)
  <1>1. Refs(I(t)) \in Nat
    BY RefsAfter, InstanceType
  <1> QED BY <1>1, CountsLess

LEMMA CountsPush ==
    ASSUME BaseInv, NEW t \in Tasks, task[t].pc \in PushPcs, UNCHANGED used
    PROVE  /\ \A etag : UploadOk(t, etag) => Counts(t)
           /\ UploadError(t) => Counts(t)
           /\ UploadConflict(t) => Counts(t)
           /\ \A pc, r : Await(t, pc, r) /\ UNCHANGED leases => Counts(t)
  <1>1. I(t) \in Instances /\ Refs(I(t)) \in Nat
    BY InstanceType, RefsAfter
  <1>2. task[t].op = "open" <=> Opens(t)
    BY OpensMeans DEF PushPcs
  <1>3. ASSUME NEW etag, UploadOk(t, etag) PROVE Counts(t)
    <2>1. CASE task[t].op = "open"
      <3>1. OpenInsert(t, etag)
        BY <1>3, <2>1 DEF UploadOk
      <3>2. Refs(I(t))' = 1 /\ ~Opens(t)'
        BY <3>1, InsertRefs, OpensAfter DEF OpenInsert
      <3> QED BY <1>1, <1>2, <2>1, <3>2, CountsTaken
    <2>2. CASE task[t].op # "open"
      <3>1. Refs(I(t))' = Refs(I(t)) /\ ~Opens(t)'
        BY <1>1, <1>3, <2>2, RefsAfter, OpensAfter DEF UploadOk
      <3> QED BY <3>1, CountsFinish
    <2> QED BY <2>1, <2>2
  <1>4. ASSUME UploadError(t) PROVE Counts(t)
    <2>1. Refs(I(t))' = Refs(I(t)) /\ ~Opens(t)'
      BY <1>1, <1>4, RefsAfter, OpensAfter DEF UploadError
    <2> QED BY <2>1, CountsFinish
  <1>5. ASSUME NEW pc, NEW r, Await(t, pc, r), UNCHANGED leases PROVE Counts(t)
    <2>1. Refs(I(t))' = Refs(I(t)) /\ (Opens(t)' => Opens(t))
      BY <1>1, <1>2, <1>5, RefsAfter, OpensAfter
    <2> QED BY <1>1, <2>1, CountsLess
  <1>6. ASSUME UploadConflict(t) PROVE Counts(t)
    <2>1. CASE /\ task' = [task EXCEPT ![t].pc = "upload", ![t].content = local[I(t)],
                                       ![t].force = TRUE]
               /\ UNCHANGED <<localVars, call, synced>>
      <3>1. task'[t].op = task[t].op
        BY <2>1 DEF BaseInv, Types, TaskTypes, TaskType
      <3>2. Refs(I(t))' = Refs(I(t)) /\ (Opens(t)' => Opens(t))
        BY <1>1, <1>2, <2>1, <3>1, RefsAfter DEF localVars, Opens
      <3> QED BY <1>1, <3>2, CountsLess
    <2> QED BY <1>4, <1>5, <1>6, <2>1 DEF UploadConflict, localVars
  <1> QED BY <1>3, <1>4, <1>5, <1>6

LEMMA CountsHead ==
    ASSUME BaseInv, NEW t \in Tasks, task[t].pc \in {"head", "get"}, UNCHANGED used,
           NEW base, HeadDone(t, base)
    PROVE  Counts(t)
  <1>1. I(t) \in Instances /\ Refs(I(t)) \in Nat
    BY InstanceType, RefsAfter
  <1>2. CASE task[t].op = "open"
    <2>1. Opens(t) /\ OpenInsert(t, base)
      BY <1>2 DEF Opens, HeadDone
    <2>2. Refs(I(t))' = 1 /\ ~Opens(t)'
      BY <2>1, InsertRefs, OpensAfter DEF OpenInsert
    <2> QED BY <1>1, <2>1, <2>2, CountsTaken
  <1>3. CASE task[t].op # "open"
    <2>1. Refs(I(t))' = Refs(I(t)) /\ ~Opens(t)'
      BY <1>1, <1>3, RefsAfter, OpensAfter DEF HeadDone
    <2> QED BY <2>1, CountsFinish
  <1> QED BY <1>2, <1>3

LEMMA CountsApp ==
    ASSUME BaseInv, NEW t \in Tasks, AppStep(t) \/ Boot(t)
    PROVE  Counts(t)
  <1> DEFINE i == I(t)
  <1>1. i \in Instances /\ Refs(i) \in Nat /\ used.open \in Nat /\ task[t] \in TaskType
    BY InstanceType, RefsAfter, ManagerAssumption, Facts DEF UsedType
  <1>2. Ready(t) => ~Opens(t)
    BY Alive DEF Opens
  <1>3. CASE OpenWrite(t)
    <2>1. Ready(t) /\ used'.open = used.open + 1
      BY <1>3, Facts DEF OpenWrite, UsedType
    <2>2. CASE UNCHANGED task /\ (UNCHANGED leases \/ leases' = [leases EXCEPT ![i].refcount = @ + 1])
      <3>1. ~Opens(t)' /\ Refs(i)' \in Nat /\ Refs(i)' <= Refs(i) + 1
        BY <1>1, <1>2, <2>1, <2>2, RefsAfter DEF Opens
      <3> QED BY <1>1, <1>2, <2>1, <3>1 DEF Counts, Weight, Refs
    <2>3. CASE UNCHANGED leases
      <3>1. Refs(i)' = Refs(i)
        BY <1>1, <2>3, RefsAfter
      <3> QED BY <1>1, <1>2, <2>1, <3>1 DEF Counts, Weight, Refs
    <2> QED BY <1>3, <2>2, <2>3 DEF OpenWrite
  <1>4. ASSUME used'.open = used.open, Refs(i)' \in Nat, Refs(i)' <= Refs(i), ~Opens(t)'
        PROVE  Counts(t)
    BY <1>4, CountsLess
  <1>5. CASE Write(t)
    <2>1. Refs(i)' = Refs(i)
      BY <1>1, <1>5, RefsAfter DEF Write
    <2>2. ~Opens(t)'
      BY <1>2, <1>5, OpensAfter DEF Write
    <2>3. used'.open = used.open
      BY <1>5, Facts DEF Write, UsedType
    <2> QED BY <1>1, <1>4, <2>1, <2>2, <2>3
  <1>6. CASE Unlink(t)
    <2>1. Refs(i)' = Refs(i) /\ ~Opens(t)'
      BY <1>1, <1>2, <1>6, RefsAfter, OpensAfter DEF Unlink
    <2>2. used'.open = used.open
      BY <1>6, Facts DEF Unlink, UsedType
    <2> QED BY <1>1, <1>4, <2>1, <2>2
  <1>7. ASSUME NEW op \in {"close", "fsync"}, NEW l, FlushLease(t, op, l) PROVE ~Opens(t)'
    <2>1. CASE l.pendingDelete /\ l.base # Absent
      BY <1>1, <1>7, <2>1 DEF FlushLease, Opens, TaskType, BaseInv, Types, TaskTypes
    <2>2. CASE ~(l.pendingDelete /\ l.base # Absent)
      BY <1>7, <2>2, OpensAfter DEF FlushLease
    <2> QED BY <2>1, <2>2
  <1>8. CASE Fsync(t)
    <2>1. Refs(i)' = Refs(i) /\ used' = used
      BY <1>1, <1>8, RefsAfter DEF Fsync
    <2>2. ~Opens(t)'
      BY <1>2, <1>7, <1>8, OpensAfter DEF Fsync
    <2> QED BY <1>1, <1>4, <2>1, <2>2
  <1>9. CASE Close(t)
    <2>1. used' = used /\ Ready(t)
      BY <1>9 DEF Close
    <2>2. CASE UNCHANGED <<leases, task>>
      BY <1>1, <1>2, <1>4, <2>1, <2>2, RefsAfter, OpensAfter
    <2>3. CASE leases[i].refcount > 1 /\ leases' = [leases EXCEPT ![i].refcount = @ - 1] /\ UNCHANGED task
      <3>1. Refs(i)' = Refs(i) - 1 /\ ~Opens(t)'
        BY <1>1, <1>2, <2>1, <2>3, RefsAfter, OpensAfter
      <3> QED BY <1>1, <1>4, <2>1, <2>3, <3>1 DEF Refs
    <2>4. CASE leases' = [leases EXCEPT ![i].releasing = TRUE] /\ FlushLease(t, "close", leases[i])
      <3>1. Refs(i)' = Refs(i) /\ ~Opens(t)'
        BY <1>1, <1>7, <2>4, RefsAfter
      <3> QED BY <1>1, <1>4, <2>1, <3>1
    <2> QED BY <1>9, <2>2, <2>3, <2>4 DEF Close
  <1>10. CASE Read(t) \/ Check(t) \/ Boot(t)
    <2>1. Refs(i)' = Refs(i) /\ ~Opens(t)' /\ used' = used
      BY <1>1, <1>10, RefsAfter, OpensAfter DEF Read, Check, Boot, localVars
    <2> QED BY <1>1, <1>4, <2>1
  <1> QED BY <1>3, <1>5, <1>6, <1>8, <1>9, <1>10 DEF AppStep

LEMMA CountsTick ==
    ASSUME BaseInv, NEW t \in Tasks, TickStep(t)
    PROVE  Counts(t)
  <1>1. I(t) \in Instances /\ Refs(I(t)) \in Nat
    BY InstanceType, RefsAfter
  <1>2. Ready(t) => ~Opens(t)
    BY Alive DEF Opens
  <1>3. UNCHANGED <<leases, used>>
    BY DEF TickStep, Renew, Flush, Poll, localVars
  <1>4. Refs(I(t))' = Refs(I(t))
    BY <1>1, <1>3, RefsAfter
  <1>5. ~Opens(t)'
    <2>1. CASE UNCHANGED task
      BY <1>2, <2>1, OpensAfter DEF TickStep, Renew, Flush, Poll
    <2>2. CASE \E content, base : StartUpload(t, "flush", content, base, Absent)
      BY <2>2, OpensAfter
    <2>3. CASE \E op \in {"renew", "flush", "poll"}, pc \in Pcs :
                  task' = [task EXCEPT ![t].op = op, ![t].pc = pc]
      BY <2>3, OpensAfter
    <2> QED BY <2>1, <2>2, <2>3 DEF TickStep, Renew, Flush, Poll, Pcs
  <1> QED BY <1>3, <1>4, <1>5, CountsFinish

LEMMA CountsManager ==
    ASSUME BaseInv, NEW t \in Tasks, ManagerStep(t)
    PROVE  Counts(t)
  <1> DEFINE i == I(t)
  <1>1. i \in Instances /\ Refs(i) \in Nat
    BY InstanceType, RefsAfter
  <1>2. UNCHANGED used
    BY DEF ManagerStep, UploadPut, UploadHead, UploadRecreate, UploadVerified, Refreshed,
           OpenFailed, OpenAcquired, HeadAnswered, HeadGot, Released, LeaseDeleted, Renewed,
           QueueDeleted, PollListed, BootListed, Got
  <1>3. CASE UploadPut(t) \/ UploadHead(t) \/ UploadRecreate(t) \/ UploadVerified(t)
    BY <1>2, <1>3, CountsPush
       DEF UploadPut, UploadHead, UploadRecreate, UploadVerified, Resumes, PushPcs, localVars
  <1>4. CASE Refreshed(t)
    <2>1. Refs(i)' = Refs(i) /\ ~Opens(t)'
      BY <1>1, <1>4, RefsAfter, OpensAfter DEF Refreshed
    <2> QED BY <1>2, <2>1, CountsFinish
  <1>5. CASE OpenFailed(t)
    <2>1. Refs(i)' = Refs(i) /\ ~Opens(t)'
      BY <1>1, <1>5, RefsAfter, OpensAfter DEF OpenFailed, localVars
    <2> QED BY <1>2, <2>1, CountsFinish
  <1>6. CASE OpenAcquired(t)
    <2>1. Opens(t) /\ task[t] \in TaskType
      BY <1>6, Facts DEF OpenAcquired, TaskOK, ControlOK, Opens
    <2>2. CASE /\ leases' = [leases EXCEPT ![i].refcount = @ + 1]
               /\ task' = [task EXCEPT ![t].pc = "giveback"]
      <3>1. Refs(i)' = Refs(i) + 1
        BY <1>1, <2>2, RefsAfter
      <3>2. ~Opens(t)'
        BY <2>1, <2>2 DEF Opens, TaskType, BaseInv, Types, TaskTypes
      <3> QED BY <1>1, <1>2, <2>1, <3>1, <3>2, CountsTaken
    <2>3. CASE UNCHANGED leases
      <3>1. Refs(i)' = Refs(i)
        BY <1>1, <2>3, RefsAfter
      <3> QED BY <1>1, <1>2, <2>1, <3>1, CountsLess
    <2> QED BY <1>6, <2>2, <2>3 DEF OpenAcquired
  <1>7. CASE HeadAnswered(t)
    <2>1. task[t].pc = "head"
      BY <1>7 DEF HeadAnswered, Resumes
    <2>2. CASE HeadDone(t, resp[t].val)
      BY <1>2, <2>1, <2>2, CountsHead
    <2>3. CASE (Await(t, "get", Get("file")) \/ Proceed(t)) /\ UNCHANGED leases
      <3>1. Refs(i)' = Refs(i) /\ (Opens(t)' => Opens(t))
        BY <1>1, <2>1, <2>3, RefsAfter, OpensAfter, OpensMeans
      <3> QED BY <1>1, <1>2, <3>1, CountsLess
    <2> QED BY <1>7, <2>2, <2>3 DEF HeadAnswered
  <1>8. CASE HeadGot(t)
    <2>1. task[t].pc = "get"
      BY <1>8 DEF HeadGot, Resumes
    <2>2. CASE HeadDone(t, resp[t].val) \/ HeadDone(t, Absent)
      BY <1>2, <2>1, <2>2, CountsHead
    <2>3. CASE Proceed(t) /\ UNCHANGED leases
      <3>1. Refs(i)' = Refs(i) /\ ~Opens(t)'
        BY <1>1, <2>3, RefsAfter, OpensAfter
      <3> QED BY <1>2, <3>1, CountsFinish
    <2> QED BY <1>8, <2>2, <2>3 DEF HeadGot
  <1>9. CASE Released(t)
    <2>1. (Refs(i)' = Refs(i) \/ Refs(i)' = 0) /\ ~Opens(t)'
      BY <1>1, <1>9, RefsAfter, OpensAfter DEF Released
    <2> QED BY <1>2, <2>1, CountsFinish
  <1>10. CASE LeaseDeleted(t)
    <2>1. Refs(i)' = Refs(i) /\ (Opens(t)' => Opens(t))
      BY <1>1, <1>10, RefsAfter, OpensAfter, OpensMeans DEF LeaseDeleted, Resumes
    <2> QED BY <1>1, <1>2, <2>1, CountsLess
  <1>11. CASE Renewed(t)
    <2>1. ~Opens(t)'
      BY <1>11, OpensAfter DEF Renewed
    <2>2. Refs(i)' = Refs(i)
      <3>1. leases \in [Instances -> EntryType] /\ leases[i] \in EntryType
        BY <1>1 DEF BaseInv, Types, InstanceTypes
      <3> QED BY <1>1, <1>11, <3>1 DEF Renewed, Refs, EntryType
    <2> QED BY <1>2, <2>1, <2>2, CountsFinish
  <1>12. CASE QueueDeleted(t) \/ PollListed(t) \/ BootListed(t) \/ Got(t)
    <2>1. Refs(i)' = Refs(i)
      BY <1>1, <1>12, RefsAfter DEF QueueDeleted, PollListed, BootListed, Got, localVars
    <2>2. task[t].op # "open"
      BY <1>12, Facts DEF QueueDeleted, PollListed, BootListed, Got, Resumes, TaskOK, ControlOK
    <2>3. ~Opens(t)'
      BY <1>12, <2>2, OpensAfter DEF QueueDeleted, PollListed, BootListed, Got
    <2> QED BY <1>2, <2>1, <2>3, CountsFinish
  <1> QED BY <1>3, <1>4, <1>5, <1>6, <1>7, <1>8, <1>9, <1>10, <1>11, <1>12 DEF ManagerStep

LEMMA CountsLower ==
    ASSUME BaseInv, NEW t \in Tasks, LowerStep(t)
    PROVE  Counts(t)
  <1>1. /\ Refs(I(t))' = Refs(I(t)) /\ (Opens(t)' => Opens(t)) /\ UNCHANGED used /\ Refs(I(t)) \in Nat
    BY InstanceType, RefsAfter DEF LowerStep, localVars, Opens
  <1> QED BY <1>1, CountsLess

LEMMA CountNext ==
    ASSUME BaseInv, BaseInv', CountInv, [Next]_vars
    PROVE  CountInv'
  <1>1. ASSUME NEW t \in Tasks, StepOf(t) PROVE CountInv'
    <2>1. Counts(t)
      BY <1>1, CountsApp, CountsTick, CountsManager, CountsLower DEF StepOf
    <2>2. TaskFrame(t) /\ \A j \in Instances \ {I(t)} : leases'[j] = leases[j]
      BY <1>1, FrameOfStep DEF InstanceFrame
    <2> QED BY <2>1, <2>2, CountStep
  <1>2. CASE UNCHANGED <<leases, task, used>>
    <2>1. \A i : Opening(i)' = Opening(i)
      BY <1>2 DEF Opening
    <2> QED BY <1>2, <2>1 DEF CountInv
  <1>3. ASSUME NEW i \in Instances, Crash(i) PROVE CountInv'
    <2> SUFFICES ASSUME NEW j \in Instances
                 PROVE  /\ IsFiniteSet(Opening(j)')
                        /\ leases'[j].refcount + Cardinality(Opening(j)') <= used'.open
      BY DEF CountInv
    <2>1. used'.open = used.open /\ used.open \in Nat
      <3>1. used \in UsedType
        BY DEF BaseInv, Types, SharedTypes
      <3> QED BY <1>3, <3>1, ManagerAssumption DEF Crash, UsedType
    <2>2. CASE j = i
      <3>1. Opening(j)' = {}
        BY <1>3, <2>2 DEF Crash, Opening, Idle
      <3>2. leases'[j].refcount = 0
        BY <1>3, <2>2 DEF Crash, NoLease, BaseInv, Types, InstanceTypes
      <3>3. IsFiniteSet({}) /\ Cardinality({}) = 0
        BY FS_EmptySet
      <3> QED BY <2>1, <3>1, <3>2, <3>3
    <2>3. CASE j # i
      <3>1. Opening(j)' = Opening(j)
        BY <1>3, <2>3 DEF Crash, Opening
      <3>2. leases'[j] = leases[j]
        BY <1>3, <2>3 DEF Crash, BaseInv, Types, InstanceTypes
      <3> QED BY <2>1, <3>1, <3>2 DEF CountInv
    <2> QED BY <2>2, <2>3
  <1> QED BY <1>1, <1>2, <1>3 DEF Next, StepOf, Tick, vars, localVars

LEMMA CountInit ==
    ASSUME Init
    PROVE  CountInv
  <1> SUFFICES ASSUME NEW i \in Instances
               PROVE  /\ IsFiniteSet(Opening(i))
                      /\ leases[i].refcount + Cardinality(Opening(i)) <= used.open
    BY DEF CountInv
  <1>1. Opening(i) = {}
    BY DEF Init, Opening, Idle
  <1>2. leases[i].refcount = 0 /\ used.open = 0
    BY DEF Init, NoLease
  <1>3. IsFiniteSet({}) /\ Cardinality({}) = 0
    BY FS_EmptySet
  <1> QED BY <1>1, <1>2, <1>3

\* The variables keep their types, requests go to the right keys with the right
\* values, an entry exists exactly as long as it has references, of which there
\* are never more than opens, and write descriptors have a file.
THEOREM TypeCorrect == Spec => []TypeOK
  <1>1. Init => CountInv
    BY CountInit
  <1>2. BaseInv /\ BaseInv' /\ CountInv /\ [Next]_vars => CountInv'
    BY CountNext
  <1>3. BaseInv /\ CountInv => TypeOK
    <2> SUFFICES ASSUME BaseInv, CountInv PROVE TypeOK
      OBVIOUS
    <2>1. \A i \in Instances : leases[i].refcount \in 0 .. MaxOpens
      <3> TAKE i \in Instances
      <3>1. IsFiniteSet(Opening(i)) /\ leases[i].refcount + Cardinality(Opening(i)) <= used.open
        BY DEF CountInv
      <3>2. Cardinality(Opening(i)) \in Nat
        BY <3>1, FS_CardinalityType
      <3>3. leases[i].refcount \in Nat /\ used.open \in 0 .. MaxOpens
        BY DEF BaseInv, Types, InstanceTypes, SharedTypes, EntryType, UsedType
      <3> QED BY <3>1, <3>2, <3>3, ManagerAssumption
    <2>2. ASSUME NEW i \in Instances
          PROVE  /\ local[i] \in Contents /\ cache[i] \in Contents
                 /\ leases[i].base \in Contents /\ leases[i].etag \in LockETags
                 /\ leases[i].held <=> leases[i].refcount > 0
                 /\ \A n \in 1 .. Len(queue[i]) : queue[i][n].etag \in Contents
                 /\ fds[i].linked \in Nat /\ fds[i].orphan \in Nat
                 /\ fds[i].linked > 0 => local[i] # Absent
      <3>1. queue[i] \in Seq(OperationType)
        BY DEF BaseInv, Types, InstanceTypes
      <3>2. \A n \in 1 .. Len(queue[i]) : queue[i][n].etag \in Contents
        <4> TAKE n \in 1 .. Len(queue[i])
        <4>1. queue[i][n] \in OperationType
          BY <3>1
        <4> QED BY <4>1 DEF OperationType
      <3> QED BY <3>2 DEF BaseInv, Types, InstanceTypes, EntryType, DescriptorType, InstanceOK
    <2>3. ASSUME NEW t \in Tasks
          PROVE  /\ req[t].op \in {"none", "get", "put", "delete"}
                 /\ req[t].op # "none" => req[t].key \in {"file", "lock"}
                 /\ req[t].op = "put" => req[t].body \in (IF req[t].key = "file" THEN Contents
                                                         ELSE Records) \ {Absent}
                 /\ resp[t].status \in Statuses
                 /\ call[t].pc \in AwaitPcs \union ResultPcs \union {"none"}
                 /\ call[t].etag \in LockETags /\ call[t].body \in Records
                 /\ task[t].op \in Ops /\ task[t].pc \in Pcs
                 /\ task[t].content \in Contents \ {Absent} /\ task[t].base \in Contents
                 /\ task[t].snap \in LockETags
      <3>1. req[t].op = "put" => req[t].body \in (IF req[t].key = "file" THEN Contents
                                                 ELSE Records) \ {Absent}
        BY Facts DEF TaskOK, RequestOK, Values, LockETags
      <3>2. task[t].content \in Contents \ {Absent}
        BY Facts, AbsentAssumption DEF TaskType, Contents
      <3> QED BY <3>1, <3>2, Facts
              DEF TaskOK, RequestOK, RequestType, ResponseType, CallType, TaskType
    <2>4. /\ store["file"] \in Contents /\ store["lock"] \in LockETags
          /\ now \in 0 .. MaxTime /\ faults \in 0 .. MaxFaults
          /\ synced \subseteq 1 .. MaxWrites
      BY DEF BaseInv, Types, SharedTypes, object, lock
    <2> QED BY <2>1, <2>2, <2>3, <2>4 DEF TypeOK
  <1> QED BY <1>1, <1>2, <1>3, BaseIsInvariant, PTL DEF Spec

-----------------------------------------------------------------------------
(***************************************************************************)
(* The lock object: the tasks and the entries that a step leaves alone.    *)
(***************************************************************************)

\* As far as the lock goes, the entry of i stays.
EntryStays(i) ==
    /\ leases'[i].held = leases[i].held
    /\ leases'[i].releasing = leases[i].releasing
    /\ leases'[i].etag = leases[i].etag
    /\ leases'[i].epoch = leases[i].epoch
    /\ leases'[i].expires = leases[i].expires

LEMMA EntryStaysAfter ==
    ASSUME BaseInv, NEW i \in Instances
    PROVE  /\ UNCHANGED leases => EntryStays(i)
           /\ \A etag : Rebase(i, etag) => EntryStays(i)
           /\ EnqueueUpload(i) => EntryStays(i)
           /\ EnqueueDelete(i) => EntryStays(i)
           /\ \A etag : leases' = [leases EXCEPT ![i].base = etag] => EntryStays(i)
           /\ leases' = [leases EXCEPT ![i].refcount = @ - 1] => EntryStays(i)
           /\ leases' = [leases EXCEPT ![i].refcount = @ + 1] => EntryStays(i)
  <1>1. leases \in [Instances -> EntryType] /\ leases[i] \in EntryType
    BY DEF BaseInv, Types, InstanceTypes
  <1>2. UNCHANGED leases => EntryStays(i)
    BY DEF EntryStays
  <1>3. \A etag : Rebase(i, etag) => EntryStays(i)
    BY <1>1 DEF EntryStays, Rebase, EntryType
  <1>4. EnqueueUpload(i) => EntryStays(i)
    BY <1>1, <1>2 DEF EntryStays, EnqueueUpload, EntryType
  <1>5. EnqueueDelete(i) => EntryStays(i)
    BY <1>1, <1>2 DEF EntryStays, EnqueueDelete, EntryType
  <1>6. \A etag : leases' = [leases EXCEPT ![i].base = etag] => EntryStays(i)
    BY <1>1 DEF EntryStays, EntryType
  <1>7. /\ leases' = [leases EXCEPT ![i].refcount = @ - 1] => EntryStays(i)
        /\ leases' = [leases EXCEPT ![i].refcount = @ + 1] => EntryStays(i)
    BY <1>1 DEF EntryStays, EntryType
  <1> QED BY <1>2, <1>3, <1>4, <1>5, <1>6, <1>7

\* t goes on without a change of its standing: it holds what it held, its call
\* has not obtained anything, and it writes no record.
QuietMove(t) ==
    /\ \/ call'[t] = call[t] /\ Pc(t) \in {"none", "acquired"}
       \/ Pc(t)' \in {"none", "release"}
    /\ req'[t].op # "none" /\ req'[t].key = "lock" =>
          req'[t].op = "delete" /\ Pc(t)' = "release"
    /\ \/ task'[t].op = task[t].op
       \/ task[t].op # "close" /\ task'[t].op \notin {"open", "close", "renew"}
    /\ task'[t].pc # "giveback"

LEMMA QuietLease ==
    ASSUME NEW t \in Tasks, LeaseOK(t), UNCHANGED <<lock, now>>,
           QuietMove(t), EntryStays(I(t))
    PROVE  LeaseOK(t)'
  <1>1. StageOK(t)'
    BY DEF LeaseOK, StageOK, QuietMove, EntryStays, Entry
  <1>2. AskOK(t)'
    BY DEF AskOK, QuietMove
  <1>3. EpochOK(t)'
    BY DEF EpochOK, QuietMove
  <1>4. MemoryOK(t)'
    BY DEF LeaseOK, MemoryOK, QuietMove, EntryStays, Entry, Pc
  <1>5. BackedOK(t)'
    <2>1. Granted(t)' => Pc(t) = "acquired" /\ call'[t] = call[t]
      BY DEF QuietMove, Granted, Pc
    <2>2. Granted(t)' => Granted(t)
      BY <2>1 DEF Granted
    <2>3. Pc(t)' \notin {"get", "put", "verify"}
      BY DEF QuietMove, Pc
    <2> QED BY <2>1, <2>2, <2>3 DEF LeaseOK, BackedOK, EntryStays, Entry, Owns
  <1> QED BY <1>1, <1>2, <1>3, <1>4, <1>5 DEF LeaseOK

\* A task of another instance, when the lock object stays as it is.
LEMMA LeaseUntouched ==
    ASSUME NEW u \in Tasks, LeaseOK(u), UNCHANGED <<lock, now>>, Live(u)' <=> Live(u),
           task'[u] = task[u], call'[u] = call[u], req'[u] = req[u], resp'[u] = resp[u],
           leases'[I(u)] = leases[I(u)]
    PROVE  LeaseOK(u)'
  <1>1. StageOK(u)' /\ AskOK(u)' /\ EpochOK(u)' /\ MemoryOK(u)'
    BY DEF LeaseOK, StageOK, AskOK, EpochOK, MemoryOK, Entry, Pc, IsExpired
  <1>2. BackedOK(u)'
    BY DEF LeaseOK, BackedOK, Granted, LeaseLanded, Owns, Entry, Pc
  <1> QED BY <1>1, <1>2 DEF LeaseOK

\* An instance does not come back, and only requests in flight outlive it.
LEMMA DeadStays ==
    ASSUME BaseInv, NEW t \in Tasks, StepOf(t), status'[I(t)] = "dead"
    PROVE  status[I(t)] = "dead" /\ leases'[I(t)] = leases[I(t)]
  <1>1. CASE LowerStep(t)
    BY <1>1 DEF LowerStep, localVars
  <1>2. CASE Boot(t)
    BY <1>2 DEF Boot, localVars
  <1>3. CASE AppStep(t) \/ TickStep(t)
    <2>1. UNCHANGED status /\ status[I(t)] = "up"
      BY <1>3 DEF AppStep, TickStep, OpenWrite, Write, Unlink, Fsync, Close, Read, Check, Renew,
                  Flush, Poll, Ready, localVars
    <2> QED BY <2>1
  <1>4. CASE ManagerStep(t)
    <2>1. task[t].pc # "idle"
      BY <1>4 DEF ManagerStep, UploadPut, UploadHead, UploadRecreate, UploadVerified, Refreshed,
                  OpenFailed, OpenAcquired, HeadAnswered, HeadGot, Released, LeaseDeleted, Renewed,
                  QueueDeleted, PollListed, BootListed, Got, Resumes
    <2>2. status[I(t)] # "dead"
      BY <2>1, Alive
    <2>3. UNCHANGED status \/ status' = [status EXCEPT ![I(t)] = "up"]
      BY <1>4 DEF ManagerStep, UploadPut, UploadHead, UploadRecreate, UploadVerified, Refreshed,
                  OpenFailed, OpenAcquired, HeadAnswered, HeadGot, Released, LeaseDeleted, Renewed,
                  QueueDeleted, PollListed, BootListed, Got, UploadConflict, localVars
    <2> QED BY <2>2, <2>3, Facts DEF BaseInv, Types, InstanceTypes
  <1> QED BY <1>1, <1>2, <1>3, <1>4 DEF StepOf

\* Hence only the task that moves matters.
LEMMA LeaseMover ==
    ASSUME BaseInv, SingleThreaded, LeaseInv, NEW t \in Tasks, StepOf(t),
           UNCHANGED <<lock, now>>, LeaseOK(t)'
    PROVE  LeaseInv'
  <1>1. TaskFrame(t) /\ InstanceFrame(I(t))
    BY FrameOfStep
  <1>2. ASSUME NEW u \in Tasks \ {t} PROVE LeaseOK(u)'
    <2>1. I(u) \in Instances \ {I(t)}
      BY <1>2, InstanceType DEF SingleThreaded
    <2>2. /\ task'[u] = task[u] /\ call'[u] = call[u] /\ req'[u] = req[u] /\ resp'[u] = resp[u]
          /\ leases'[I(u)] = leases[I(u)] /\ status'[I(u)] = status[I(u)]
      BY <1>1, <1>2, <2>1 DEF TaskFrame, InstanceFrame
    <2>3. LeaseOK(u) /\ (Live(u)' <=> Live(u))
      BY <2>2 DEF LeaseInv, Live
    <2> QED BY <2>2, <2>3, LeaseUntouched
  <1>3. OwnedEntries'
    BY <1>1, DeadStays DEF LeaseInv, OwnedEntries, InstanceFrame
  <1> QED BY <1>2, <1>3 DEF LeaseInv

\* The moves that leave the standing of t as it is.
LEMMA QuietMoves ==
    ASSUME BaseInv, NEW t \in Tasks
    PROVE  /\ task[t].op # "close" /\ Finish(t) /\ UNCHANGED call /\ Pc(t) = "none" => QuietMove(t)
           /\ task[t].op # "close" /\ Finish(t) /\ call' = [call EXCEPT ![t] = NoCall] => QuietMove(t)
           /\ \A op, etag : StartRelease(t, op, etag) /\ op = task[t].op => QuietMove(t)
           /\ UNCHANGED <<task, call, req, resp>> /\ Ready(t) => QuietMove(t)
  <1>0. TaskTypes /\ task[t] \in TaskType
    BY Facts
  <1>1. Idle.op = "none" /\ Idle.pc = "idle" /\ NoRequest.op = "none" /\ NoCall.pc = "none"
    BY DEF Idle, NoRequest, NoCall
  <1>2. Finish(t) => task'[t] = Idle /\ req'[t] = NoRequest
    BY <1>0 DEF Finish, Send, TaskTypes
  <1>3. task[t].op # "close" /\ Finish(t) /\ UNCHANGED call /\ Pc(t) = "none" => QuietMove(t)
    BY <1>1, <1>2 DEF QuietMove
  <1>4. task[t].op # "close" /\ Finish(t) /\ call' = [call EXCEPT ![t] = NoCall] => QuietMove(t)
    BY <1>0, <1>1, <1>2 DEF QuietMove, TaskTypes, Pc
  <1>5. ASSUME NEW op, NEW etag, StartRelease(t, op, etag), op = task[t].op
        PROVE  QuietMove(t)
    <2>1. GivesBack(t, op, etag)
      BY <1>0, <1>5, ReleaseGivesBack
    <2>2. /\ task'[t] = [task[t] EXCEPT !.op = op, !.pc = "release"]
          /\ call'[t] = [NoCall EXCEPT !.pc = "release", !.etag = etag]
          /\ req'[t] = DeleteIf("lock", etag)
      BY <1>0, <2>1, MovesTo DEF GivesBack
    <2>3. task'[t].op = op /\ task'[t].pc = "release" /\ Pc(t)' = "release" /\ req'[t].op = "delete"
      BY <1>0, <2>2 DEF TaskType, Pc, NoCall, DeleteIf
    <2> QED BY <1>5, <2>3 DEF QuietMove
  <1>6. UNCHANGED <<task, call, req, resp>> /\ Ready(t) => QuietMove(t)
    <2> SUFFICES ASSUME UNCHANGED <<task, call, req, resp>>, Ready(t) PROVE QuietMove(t)
      OBVIOUS
    <2>1. Live(t) /\ Pc(t) = "none" /\ task[t].pc = "idle"
      BY Alive DEF Ready
    <2>2. req[t].op = "none"
      BY <2>1, Facts DEF TaskOK, AnswerOK
    <2> QED BY <2>1, <2>2 DEF QuietMove
  <1>7. \A op, etag : StartRelease(t, op, etag) /\ op = task[t].op => QuietMove(t)
    BY <1>5
  <1> QED BY <1>3, <1>4, <1>6, <1>7

LEMMA QuietAwait ==
    ASSUME BaseInv, NEW t \in Tasks, NEW pc, NEW r, Await(t, pc, r), UNCHANGED call,
           Pc(t) \in {"none", "acquired"}, pc # "giveback", r.key = "file"
    PROVE  QuietMove(t)
  <1>1. TaskTypes /\ task[t] \in TaskType
    BY Facts
  <1>2. task'[t].op = task[t].op /\ task'[t].pc = pc
    BY <1>1 DEF TaskTypes, TaskType, Await
  <1>3. req'[t] = r /\ call'[t] = call[t]
    BY <1>1 DEF TaskTypes, Send, Await
  <1> QED BY <1>2, <1>3 DEF QuietMove

\* t starts an operation that is not about the lock.
LEMMA QuietStart ==
    ASSUME BaseInv, NEW t \in Tasks, Ready(t), UNCHANGED call,
           NEW op, op \notin {"open", "close", "renew"},
           NEW pc, NEW r, task' = [task EXCEPT ![t].op = op, ![t].pc = pc], Send(t, r),
           pc # "giveback", r.key = "file"
    PROVE  QuietMove(t)
  <1>0. TaskTypes /\ task[t] \in TaskType
    BY Facts
  <1>1. Pc(t) = "none" /\ task[t].op = "none"
    BY Alive
  <1>2. task'[t].op = op /\ task'[t].pc # "giveback" /\ req'[t].key = "file"
    BY <1>0 DEF TaskTypes, TaskType, Send
  <1> QED BY <1>1, <1>2 DEF QuietMove, Pc

LEMMA QuietUpload ==
    ASSUME BaseInv, NEW t \in Tasks, UNCHANGED call, Pc(t) \in {"none", "acquired"},
           NEW op, NEW content, NEW base, NEW snap, StartUpload(t, op, content, base, snap),
           \/ op = task[t].op
           \/ task[t].op # "close" /\ op \notin {"open", "close", "renew"}
    PROVE  QuietMove(t)
  <1>0. TaskTypes /\ task[t] \in TaskType
    BY Facts
  <1>1. task'[t].op = op /\ task'[t].pc = "upload"
    BY <1>0 DEF TaskTypes, TaskType, StartUpload
  <1>2. req'[t] = PutIf("file", base, content)
    BY <1>0 DEF TaskTypes, Send, StartUpload
  <1>3. req'[t].key = "file"
    BY <1>2 DEF PutIf
  <1> QED BY <1>1, <1>3 DEF QuietMove, Pc

\* What Proceed does to a task that is alive.
LEMMA QuietProceed ==
    ASSUME BaseInv, NEW t \in Tasks, task[t].pc \in Pcs \ (LockPcs \union {"idle"}), Proceed(t)
    PROVE  QuietMove(t)
  <1>1. Pc(t) = (IF task[t].op = "open" THEN "acquired" ELSE "none")
    BY FileAnswer
  <1>2. CASE task[t].op = "open"
    BY <1>2, QuietMoves DEF Proceed, OpenAbort
  <1>3. CASE task[t].op = "close"
    BY <1>3, QuietMoves DEF Proceed
  <1>4. CASE task[t].op \notin {"open", "close"}
    BY <1>1, <1>4, QuietMoves DEF Proceed
  <1> QED BY <1>2, <1>3, <1>4

-----------------------------------------------------------------------------
(***************************************************************************)
(* The lock object: the actions of the sync manager.                       *)
(***************************************************************************)

\* The entry an open inserts is the lease that its call was granted.
LEMMA InsertLease ==
    ASSUME BaseInv, NEW t \in Tasks, LeaseOK(t), Pc(t) = "acquired", NEW base,
           OpenInsert(t, base), UNCHANGED <<lock, now>>
    PROVE  LeaseOK(t)'
  <1>1. TaskTypes /\ I(t) \in Instances /\ leases \in [Instances -> EntryType]
    BY Facts DEF BaseInv, Types, InstanceTypes
  <1>2. /\ task'[t] = Idle /\ call'[t] = NoCall /\ req'[t] = NoRequest /\ resp'[t] = NoResponse
    BY <1>1, FinishEnds, MovesTo DEF OpenInsert, Ends
  <1>3. task'[t].op = "none" /\ task'[t].pc = "idle" /\ Pc(t)' = "none" /\ req'[t].op = "none"
    BY <1>2 DEF Idle, NoCall, NoRequest, Pc
  <1>4. /\ Entry(t)'.held = TRUE /\ Entry(t)'.releasing = FALSE
        /\ Entry(t)'.etag = call[t].etag /\ Entry(t)'.epoch = call[t].body.epoch
        /\ Entry(t)'.expires = call[t].body.expires
    BY <1>1 DEF OpenInsert, Entry, NoLease
  <1>5. Granted(t) /\ MemoryOK(t) /\ BackedOK(t)
    BY DEF Granted, LeaseOK
  <1>6. StageOK(t)' /\ AskOK(t)' /\ EpochOK(t)'
    BY <1>3, <1>4 DEF StageOK, AskOK, EpochOK
  <1>7. MemoryOK(t)'
    BY <1>3, <1>4, <1>5 DEF MemoryOK
  <1>8. BackedOK(t)'
    BY <1>3, <1>4, <1>5 DEF BackedOK, Granted, Owns
  <1> QED BY <1>6, <1>7, <1>8 DEF LeaseOK

\* A step of flush_lease.
LEMMA FlushMoves ==
    ASSUME BaseInv, NEW t \in Tasks, Ready(t), NEW op \in {"close", "fsync"}, NEW l,
           FlushLease(t, op, l)
    PROVE  /\ \/ call'[t] = call[t] /\ Pc(t) = "none"
              \/ Pc(t)' = "release"
           /\ req'[t].op # "none" /\ req'[t].key = "lock" =>
                 req'[t].op = "delete" /\ Pc(t)' = "release"
           /\ task'[t].op = op \/ (op = "fsync" /\ task'[t].op = "none")
           /\ task'[t].pc # "giveback"
  <1>0. TaskTypes /\ task[t] \in TaskType /\ Pc(t) = "none"
    BY Facts, Alive
  <1>1. CASE l.pendingDelete /\ l.base # Absent
    <2>1. /\ task' = [task EXCEPT ![t].op = op, ![t].pc = "leaseDelete", ![t].snap = l.etag]
          /\ Send(t, DeleteIf("file", l.base)) /\ UNCHANGED call
      BY <1>1 DEF FlushLease
    <2>2. task'[t].op = op /\ task'[t].pc = "leaseDelete"
      BY <1>0, <2>1 DEF TaskTypes, TaskType
    <2>3. req'[t] = DeleteIf("file", l.base)
      BY <1>0, <2>1 DEF TaskTypes, Send
    <2>4. req'[t].key = "file" /\ call'[t] = call[t]
      BY <2>1, <2>3 DEF DeleteIf
    <2> QED BY <1>0, <2>2, <2>4
  <1>2. ASSUME IF op = "close" THEN StartRelease(t, op, l.etag) ELSE Finish(t) /\ UNCHANGED call
        PROVE  /\ \/ call'[t] = call[t] /\ Pc(t) = "none"
                  \/ Pc(t)' = "release"
               /\ req'[t].op # "none" /\ req'[t].key = "lock" =>
                     req'[t].op = "delete" /\ Pc(t)' = "release"
               /\ task'[t].op = op \/ (op = "fsync" /\ task'[t].op = "none")
               /\ task'[t].pc # "giveback"
    <2>1. CASE op = "close"
      <3>1. GivesBack(t, op, l.etag)
        BY <1>0, <1>2, <2>1, ReleaseGivesBack
      <3>2. /\ task'[t] = [task[t] EXCEPT !.op = op, !.pc = "release"]
            /\ call'[t] = [NoCall EXCEPT !.pc = "release", !.etag = l.etag]
            /\ req'[t] = DeleteIf("lock", l.etag)
        BY <1>0, <3>1, MovesTo DEF GivesBack
      <3>3. task'[t].op = op /\ task'[t].pc = "release"
        BY <1>0, <3>2 DEF TaskType
      <3>4. Pc(t)' = "release" /\ req'[t].op = "delete"
        BY <3>2 DEF Pc, NoCall, DeleteIf
      <3> QED BY <3>3, <3>4
    <2>2. CASE op = "fsync"
      <3>1. task'[t] = Idle /\ req'[t] = NoRequest /\ UNCHANGED call
        BY <1>0, <1>2, <2>2 DEF Finish, Send, TaskTypes
      <3> QED BY <1>0, <2>2, <3>1 DEF Idle, NoRequest
    <2> QED BY <2>1, <2>2
  <1>3. CASE l.pendingDelete /\ l.base = Absent
    BY <1>2, <1>3 DEF FlushLease
  <1>4. CASE ~l.pendingDelete /\ l.dirty /\ local[I(t)] # Absent
    <2>1. StartUpload(t, op, local[I(t)], l.base, l.etag) /\ UNCHANGED call
      BY <1>4 DEF FlushLease
    <2>2. task'[t].op = op /\ task'[t].pc = "upload"
      BY <1>0, <2>1 DEF TaskTypes, TaskType, StartUpload
    <2>3. req'[t] = PutIf("file", l.base, local[I(t)])
      BY <1>0, <2>1 DEF TaskTypes, Send, StartUpload
    <2>4. req'[t].key = "file" /\ call'[t] = call[t]
      BY <2>1, <2>3 DEF PutIf
    <2> QED BY <1>0, <2>2, <2>4
  <1>5. CASE ~l.pendingDelete /\ ~(l.dirty /\ local[I(t)] # Absent)
    BY <1>2, <1>5 DEF FlushLease
  <1> QED BY <1>1, <1>3, <1>4, <1>5

LEMMA OpenWriteLease ==
    ASSUME BaseInv, NEW t \in Tasks, LeaseOK(t), OpenWrite(t)
    PROVE  LeaseOK(t)'
  <1>0. /\ TaskTypes /\ I(t) \in Instances /\ Ready(t) /\ UNCHANGED <<lock, now>>
    BY Facts DEF OpenWrite, lock
  <1>1. CASE UNCHANGED <<task, call, req, resp>>
    <2>1. EntryStays(I(t))
      BY <1>0, <1>1, EntryStaysAfter DEF OpenWrite
    <2> QED BY <1>0, <1>1, <2>1, QuietMoves, QuietLease
  <1>2. ASSUME NEW mode, ~leases[I(t)].held, CallAcquire(t), UNCHANGED leases,
               task' = [task EXCEPT ![t] = [Idle EXCEPT !.op = "open", !.pc = "acquire",
                                                        !.mode = mode]]
        PROVE  LeaseOK(t)'
    <2>1. /\ task'[t] = [Idle EXCEPT !.op = "open", !.pc = "acquire", !.mode = mode]
          /\ call'[t] = [NoCall EXCEPT !.pc = "get", !.deadline = now + LockTimeout]
          /\ req'[t] = Get("lock") /\ resp'[t] = NoResponse
      BY <1>0, <1>2 DEF CallAcquire, Send, TaskTypes
    <2>2. /\ task'[t].op = "open" /\ task'[t].pc = "acquire" /\ Pc(t)' = "get"
          /\ req'[t].op = "get" /\ resp'[t].status = "none"
      BY <2>1 DEF Idle, NoCall, Pc, Get, NoResponse
    <2>3. Entry(t)' = Entry(t) /\ ~Entry(t).held
      BY <1>2 DEF Entry
    <2>4. StageOK(t)' /\ AskOK(t)' /\ EpochOK(t)' /\ MemoryOK(t)'
      BY <2>2, <2>3 DEF StageOK, AskOK, EpochOK, MemoryOK
    <2>5. BackedOK(t)'
      BY <2>2, <2>3 DEF BackedOK, Granted
    <2> QED BY <2>4, <2>5 DEF LeaseOK
  <1> QED BY <1>1, <1>2 DEF OpenWrite

LEMMA WriteLease ==
    ASSUME BaseInv, NEW t \in Tasks, LeaseOK(t), Write(t)
    PROVE  LeaseOK(t)'
  <1>0. /\ I(t) \in Instances /\ Ready(t) /\ UNCHANGED <<lock, now, call>>
    BY Facts DEF Write, lock
  <1>1. EntryStays(I(t))
    BY <1>0, EntryStaysAfter DEF Write
  <1>2. CASE UNCHANGED <<task, req, resp>>
    BY <1>0, <1>1, <1>2, QuietMoves, QuietLease
  <1>3. ASSUME NEW content, StartUpload(t, "write", content, CondForUpload(I(t)), Absent)
        PROVE  LeaseOK(t)'
    <2>1. Pc(t) = "none" /\ task[t].op = "none"
      BY <1>0, Alive
    <2>2. QuietMove(t)
      BY <1>0, <1>3, <2>1, QuietUpload
    <2> QED BY <1>0, <1>1, <2>2, QuietLease
  <1> QED BY <1>2, <1>3 DEF Write

LEMMA UnlinkLease ==
    ASSUME BaseInv, NEW t \in Tasks, LeaseOK(t), Unlink(t)
    PROVE  LeaseOK(t)'
  <1>0. /\ I(t) \in Instances /\ Ready(t) /\ UNCHANGED <<lock, now, task, call, req, resp>>
    BY Facts DEF Unlink, lock
  <1>1. EntryStays(I(t))
    BY <1>0, EntryStaysAfter DEF Unlink
  <1> QED BY <1>0, <1>1, QuietMoves, QuietLease

LEMMA FsyncLease ==
    ASSUME BaseInv, NEW t \in Tasks, LeaseOK(t), Fsync(t)
    PROVE  LeaseOK(t)'
  <1>0. /\ I(t) \in Instances /\ Ready(t) /\ UNCHANGED <<lock, now>> /\ task[t].op = "none"
    BY Facts, Alive DEF Fsync, lock
  <1>1. EntryStays(I(t))
    BY <1>0, EntryStaysAfter DEF Fsync
  <1>2. CASE UNCHANGED <<task, req, resp, call>>
    BY <1>0, <1>1, <1>2, QuietMoves, QuietLease
  <1>3. CASE StartUpload(t, "fsync", local[I(t)], cache[I(t)], Absent) /\ UNCHANGED call
    <2>1. Pc(t) = "none" /\ task[t].op = "none"
      BY <1>0, Alive
    <2>2. QuietMove(t)
      BY <1>0, <1>3, <2>1, QuietUpload
    <2> QED BY <1>0, <1>1, <2>2, QuietLease
  <1>4. ASSUME NEW l, FlushLease(t, "fsync", l) PROVE LeaseOK(t)'
    <2>1. QuietMove(t)
      BY <1>0, <1>4, FlushMoves DEF QuietMove
    <2> QED BY <1>0, <1>1, <2>1, QuietLease
  <1> QED BY <1>2, <1>3, <1>4 DEF Fsync

LEMMA CloseLease ==
    ASSUME BaseInv, NEW t \in Tasks, LeaseOK(t), Close(t)
    PROVE  LeaseOK(t)'
  <1>0. /\ I(t) \in Instances /\ Ready(t) /\ UNCHANGED <<lock, now>> /\ task[t].op = "none"
        /\ leases \in [Instances -> EntryType] /\ leases[I(t)] \in EntryType
    BY Facts, Alive DEF Close, lock, BaseInv, Types, InstanceTypes
  <1>1. CASE UNCHANGED <<task, call, req, resp>> /\ EntryStays(I(t))
    BY <1>0, <1>1, QuietMoves, QuietLease
  <1>2. CASE /\ leases[I(t)].held /\ leases' = [leases EXCEPT ![I(t)].releasing = TRUE]
             /\ FlushLease(t, "close", leases[I(t)])
    <2>1. /\ Entry(t)'.held /\ Entry(t)'.releasing = TRUE
          /\ Entry(t)'.etag = Entry(t).etag /\ Entry(t)'.epoch = Entry(t).epoch
          /\ Entry(t)'.expires = Entry(t).expires /\ Entry(t).held
      BY <1>0, <1>2 DEF Entry, EntryType
    <2>2. /\ (call'[t] = call[t] /\ Pc(t) = "none") \/ Pc(t)' = "release"
          /\ req'[t].op # "none" /\ req'[t].key = "lock" =>
                req'[t].op = "delete" /\ Pc(t)' = "release"
          /\ task'[t].op = "close" /\ task'[t].pc # "giveback"
      BY <1>0, <1>2, FlushMoves
    <2>3. Pc(t)' \in {"none", "release"}
      BY <2>2 DEF Pc
    <2>4. StageOK(t)' /\ AskOK(t)' /\ EpochOK(t)'
      BY <2>1, <2>2 DEF StageOK, AskOK, EpochOK
    <2>5. MemoryOK(t)'
      BY <1>0, <2>1, <2>3 DEF LeaseOK, MemoryOK
    <2>6. BackedOK(t)'
      BY <2>1, <2>3 DEF BackedOK, Granted
    <2> QED BY <2>4, <2>5, <2>6 DEF LeaseOK
  <1> QED BY <1>0, <1>1, <1>2, EntryStaysAfter DEF Close

\* The queries: Read, Check, Poll and Boot.
LEMMA QueryLease ==
    ASSUME BaseInv, NEW t \in Tasks, LeaseOK(t), Read(t) \/ Check(t) \/ Poll(t) \/ Boot(t)
    PROVE  LeaseOK(t)'
  <1>0. /\ UNCHANGED <<lock, now, call, leases>> /\ I(t) \in Instances /\ TaskTypes
        /\ task[t].pc = "idle" /\ task[t] \in TaskType
    BY Facts DEF Read, Check, Poll, Boot, Ready, lock, localVars
  <1>1. task[t].op = "none" /\ Pc(t) = "none"
    BY <1>0, Facts DEF TaskOK, ControlOK, LockPcs
  <1>2. PICK op \in {"read", "check", "poll", "boot"}, pc \in {"get", "head", "list"} :
           task' = [task EXCEPT ![t].op = op, ![t].pc = pc] /\ Send(t, Get("file"))
    BY DEF Read, Check, Poll, Boot
  <1>3. task'[t].op = op /\ task'[t].pc = pc /\ req'[t] = Get("file")
    BY <1>0, <1>2 DEF TaskTypes, TaskType, Send
  <1>4. req'[t].key = "file"
    BY <1>3 DEF Get
  <1>5. QuietMove(t)
    BY <1>0, <1>1, <1>3, <1>4 DEF QuietMove
  <1> QED BY <1>0, <1>5, EntryStaysAfter, QuietLease

LEMMA FlushQueueLease ==
    ASSUME BaseInv, NEW t \in Tasks, LeaseOK(t), Flush(t)
    PROVE  LeaseOK(t)'
  <1> DEFINE i == I(t)
             op == Head(queue[i])
  <1>0. /\ UNCHANGED <<lock, now, call, leases>> /\ i \in Instances /\ Ready(t)
        /\ EntryStays(i)
    BY Facts, EntryStaysAfter DEF Flush, lock
  <1>1. Pc(t) = "none" /\ task[t].op = "none"
    BY <1>0, Alive
  <1>2. CASE UNCHANGED <<task, req, resp>>
    BY <1>0, <1>2, QuietMoves, QuietLease
  <1>3. CASE StartUpload(t, "flush", local[i], cache[i], Absent)
    BY <1>0, <1>1, <1>3, QuietUpload, QuietLease
  <1>4. CASE /\ task' = [task EXCEPT ![t].op = "flush", ![t].pc = "queueDelete"]
             /\ Send(t, DeleteIf("file", op.etag))
    <2>1. DeleteIf("file", op.etag).key = "file"
      BY DEF DeleteIf
    <2> QED BY <1>0, <1>4, <2>1, QuietStart, QuietLease
  <1> QED BY <1>2, <1>3, <1>4 DEF Flush

LEMMA RenewLease ==
    ASSUME BaseInv, NEW t \in Tasks, LeaseOK(t), Renew(t)
    PROVE  LeaseOK(t)'
  <1> DEFINE l == leases[I(t)]
             body == FreshRecord(t, l.epoch)
  <1>1. /\ Ready(t) /\ l.held /\ ~l.releasing /\ Entry(t)' = Entry(t)
        /\ UNCHANGED <<lock, now>> /\ CallRenew(t, l.epoch, l.etag)
        /\ task' = [task EXCEPT ![t].op = "renew", ![t].pc = "renew"]
    BY DEF Renew, lock, Entry, localVars
  <1>2. /\ TaskTypes /\ task[t] \in TaskType /\ l \in EntryType /\ InstanceOK(I(t))
        /\ now \in Nat /\ LeaseTime \in Nat
    BY Facts, LeaseAssumption DEF BaseInv, Types, SharedTypes
  <1>3. /\ l.epoch \in Nat /\ l.expires \in Nat /\ l.etag \in LockETags
        /\ l.etag # Absent /\ l.etag.instance = I(t)
    BY <1>1, <1>2 DEF EntryType, InstanceOK
  <1>4. /\ body \in Records /\ body.instance = I(t) /\ body.epoch = l.epoch
        /\ body.expires = now + LeaseTime
    BY <1>2, <1>3, InstanceType DEF FreshRecord, LockRecord, Records
  <1>5. /\ call'[t] = [NoCall EXCEPT !.pc = "renew", !.etag = l.etag, !.body = body]
        /\ req'[t] = PutIf("lock", l.etag, body) /\ resp'[t] = NoResponse
        /\ task'[t] = [task[t] EXCEPT !.op = "renew", !.pc = "renew"]
    BY <1>1, <1>2 DEF CallRenew, Send, TaskTypes
  <1> HIDE DEF body
  <1>6. /\ Pc(t)' = "renew" /\ call'[t].body = body /\ resp'[t].status = "none"
        /\ task'[t].op = "renew" /\ task'[t].pc = "renew"
    BY <1>2, <1>5 DEF NoCall, Pc, NoResponse, TaskType
  <1>7. /\ req'[t].op = "put" /\ req'[t].key = "lock" /\ req'[t].etag = l.etag
        /\ req'[t].body = body
    BY <1>5 DEF PutIf
  <1>8. ConditionalDelete =>
           /\ l.etag.epoch = l.epoch /\ l.etag.expires = l.expires
           /\ l.expires <= now + LeaseTime
    BY <1>1 DEF LeaseOK, MemoryOK, Entry
  <1>9. StageOK(t)' /\ AskOK(t)'
    BY <1>1, <1>6, <1>7 DEF StageOK, AskOK, Entry
  <1>10. EpochOK(t)'
    BY <1>3, <1>4, <1>7, <1>8 DEF EpochOK
  <1>11. MemoryOK(t)'
    BY <1>1, <1>2, <1>4, <1>6, <1>8 DEF LeaseOK, MemoryOK, Entry
  <1>12. BackedOK(t)'
    BY <1>1, <1>6 DEF LeaseOK, BackedOK, Granted, Owns
  <1> QED BY <1>9, <1>10, <1>11, <1>12 DEF LeaseOK

LEMMA RenewedLease ==
    ASSUME BaseInv, NEW t \in Tasks, LeaseOK(t), Renewed(t)
    PROVE  LeaseOK(t)'
  <1> DEFINE i == I(t)
  <1>1. /\ task[t].pc = "renew" /\ Pc(t) \in {"renewed", "lost", "renewFailed"}
        /\ call' = [call EXCEPT ![t] = NoCall] /\ Finish(t) /\ UNCHANGED <<lock, now>>
    BY DEF Renewed, lock
  <1>2. task[t].op = "renew" /\ i \in Instances /\ TaskTypes
        /\ leases \in [Instances -> EntryType] /\ leases[i] \in EntryType
    BY <1>1, Facts DEF TaskOK, ControlOK, BaseInv, Types, InstanceTypes
  <1>3. leases[i].held /\ ~leases[i].releasing
    BY <1>2 DEF LeaseOK, StageOK, Entry
  <1>4. QuietMove(t)
    BY <1>1, <1>2, QuietMoves
  <1>5. CASE Pc(t) \in {"lost", "renewFailed"}
    <2>1. CASE Pc(t) = "lost"
      <3>1. leases' = [leases EXCEPT ![i] = [leases[i] EXCEPT !.lost = TRUE]]
        BY <1>3, <2>1 DEF Renewed
      <3>2. EntryStays(i)
        BY <1>2, <3>1 DEF EntryStays, EntryType
      <3> QED BY <1>1, <1>4, <3>2, QuietLease
    <2>2. CASE Pc(t) = "renewFailed"
      <3>1. leases' = [leases EXCEPT ![i] = leases[i]]
        BY <2>2 DEF Renewed
      <3>2. EntryStays(i)
        BY <1>2, <3>1 DEF EntryStays
      <3> QED BY <1>1, <1>4, <3>2, QuietLease
    <2> QED BY <1>5, <2>1, <2>2
  <1>6. CASE Pc(t) = "renewed"
    <2>1. leases' = [leases EXCEPT ![i] = [leases[i] EXCEPT !.etag = call[t].etag,
                                                    !.expires = call[t].body.expires]]
      BY <1>3, <1>6 DEF Renewed
    <2>2. /\ Entry(t)'.held = Entry(t).held /\ Entry(t)'.releasing = Entry(t).releasing
          /\ Entry(t)'.epoch = Entry(t).epoch /\ Entry(t)'.etag = call[t].etag
          /\ Entry(t)'.expires = call[t].body.expires
      BY <1>2, <2>1 DEF Entry, EntryType
    <2>3. /\ task'[t] = Idle /\ call'[t] = NoCall /\ req'[t] = NoRequest
      BY <1>1, <1>2, FinishEnds, MovesTo DEF Ends
    <2>4. task'[t].op = "none" /\ task'[t].pc = "idle" /\ Pc(t)' = "none" /\ req'[t].op = "none"
      BY <2>3 DEF Idle, NoCall, NoRequest, Pc
    <2>5. Granted(t) /\ MemoryOK(t) /\ BackedOK(t)
      BY <1>6 DEF Granted, LeaseOK
    <2>6. StageOK(t)' /\ AskOK(t)' /\ EpochOK(t)'
      BY <1>3, <2>2, <2>4 DEF StageOK, AskOK, EpochOK, Entry
    <2>7. MemoryOK(t)'
      BY <1>1, <1>6, <2>2, <2>4, <2>5 DEF MemoryOK
    <2>8. BackedOK(t)'
      <3> SUFFICES ASSUME ConditionalDelete PROVE BackedOK(t)'
        BY DEF BackedOK
      <3>1. call[t].body.epoch = Entry(t).epoch
        BY <1>6, <2>5 DEF MemoryOK
      <3>2. now < call[t].body.expires => Owns(t, Entry(t).epoch, call[t].body.expires)
        BY <2>5, <3>1 DEF BackedOK
      <3> QED BY <1>1, <2>2, <2>4, <3>2 DEF BackedOK, Granted, Owns
    <2> QED BY <2>6, <2>7, <2>8 DEF LeaseOK
  <1> QED BY <1>1, <1>5, <1>6

\* The pushes.
LEMMA PushAwaitLease ==
    ASSUME BaseInv, NEW t \in Tasks, LeaseOK(t), task[t].pc \in PushPcs, NEW pc \in PushPcs, NEW r,
           Await(t, pc, r), UNCHANGED <<lock, now, leases, call>>, r.key = "file"
    PROVE  LeaseOK(t)'
  <1>1. I(t) \in Instances /\ Pc(t) \in {"none", "acquired"} /\ pc # "giveback"
    BY InstanceType, FileAnswer DEF PushPcs, Pcs, LockPcs
  <1>2. QuietMove(t)
    BY <1>1, QuietAwait
  <1> QED BY <1>1, <1>2, EntryStaysAfter, QuietLease

LEMMA PushLease ==
    ASSUME BaseInv, NEW t \in Tasks, LeaseOK(t), task[t].pc \in PushPcs, UNCHANGED <<lock, now>>
    PROVE  /\ \A etag : UploadOk(t, etag) => LeaseOK(t)'
           /\ UploadError(t) => LeaseOK(t)'
           /\ UploadConflict(t) => LeaseOK(t)'
  <1>0. /\ I(t) \in Instances /\ TaskTypes /\ task[t] \in TaskType
        /\ task[t].pc \in Pcs \ (LockPcs \union {"idle"})
    BY Facts DEF PushPcs, Pcs, LockPcs
  <1>1. Pc(t) = (IF task[t].op = "open" THEN "acquired" ELSE "none")
    BY <1>0, FileAnswer
  <1>2. ASSUME NEW etag, UploadOk(t, etag) PROVE LeaseOK(t)'
    <2>1. CASE task[t].op = "open"
      BY <1>1, <1>2, <2>1, InsertLease DEF UploadOk
    <2>2. CASE task[t].op # "open"
      <3>1. Rebase(I(t), etag) /\ Proceed(t)
        BY <1>2, <2>2 DEF UploadOk
      <3> QED BY <1>0, <3>1, EntryStaysAfter, QuietProceed, QuietLease
    <2> QED BY <2>1, <2>2
  <1>3. UploadError(t) => LeaseOK(t)'
    BY <1>0, EntryStaysAfter, QuietProceed, QuietLease DEF UploadError
  <1>5. ASSUME UploadConflict(t) PROVE LeaseOK(t)'
    <2>1. CASE Await(t, "refresh", Get("file")) /\ UNCHANGED <<leases, call>>
      <3>1. Get("file").key = "file" /\ "refresh" \in PushPcs
        BY DEF Get, PushPcs
      <3> QED BY <2>1, <3>1, PushAwaitLease
    <2>2. CASE /\ task' = [task EXCEPT ![t].pc = "upload", ![t].content = local[I(t)],
                                       ![t].force = TRUE]
               /\ Send(t, PutAlways("file", local[I(t)]))
               /\ UNCHANGED <<leases, call>>
      <3>1. task'[t].op = task[t].op /\ task'[t].pc = "upload"
        BY <1>0, <2>2 DEF TaskTypes, TaskType
      <3>2. req'[t] = PutAlways("file", local[I(t)])
        BY <1>0, <2>2 DEF TaskTypes, Send
      <3>3. req'[t].key = "file"
        BY <3>2 DEF PutAlways
      <3>4. QuietMove(t)
        BY <1>1, <2>2, <3>1, <3>3 DEF QuietMove
      <3> QED BY <1>0, <2>2, <3>4, EntryStaysAfter, QuietLease
    <2> QED BY <1>3, <1>5, <2>1, <2>2 DEF UploadConflict, localVars
  <1> QED BY <1>2, <1>3, <1>5

LEMMA UploadLease ==
    ASSUME BaseInv, NEW t \in Tasks, LeaseOK(t),
           UploadPut(t) \/ UploadHead(t) \/ UploadRecreate(t) \/ UploadVerified(t)
    PROVE  LeaseOK(t)'
  <1>1. task[t].pc \in PushPcs /\ UNCHANGED <<lock, now>>
    BY DEF UploadPut, UploadHead, UploadRecreate, UploadVerified, Resumes, PushPcs, lock
  <1>2. CASE \/ UploadOk(t, resp[t].val) \/ UploadError(t) \/ UploadConflict(t)
    BY <1>1, <1>2, PushLease
  <1>3. ASSUME NEW pc \in {"recreate", "uploadHead", "verify"}, NEW r, Await(t, pc, r),
               UNCHANGED <<leases, call>>, r.key = "file"
        PROVE  LeaseOK(t)'
    <2>1. pc \in PushPcs
      BY DEF PushPcs
    <2> QED BY <1>1, <1>3, <2>1, PushAwaitLease
  <1>4. Get("file").key = "file" /\ PutIf("file", Absent, task[t].content).key = "file"
    BY DEF Get, PutIf
  <1>5. CASE /\ \/ Await(t, "recreate", PutIf("file", Absent, task[t].content))
                \/ Await(t, "uploadHead", Get("file"))
                \/ Await(t, "verify", Get("file"))
             /\ UNCHANGED <<leases, call>>
    BY <1>3, <1>4, <1>5
  <1> QED BY <1>2, <1>5 DEF UploadPut, UploadHead, UploadRecreate, UploadVerified, localVars

LEMMA RefreshedLease ==
    ASSUME BaseInv, NEW t \in Tasks, LeaseOK(t), Refreshed(t)
    PROVE  LeaseOK(t)'
  <1>1. /\ task[t].pc \in Pcs \ (LockPcs \union {"idle"}) /\ UNCHANGED <<lock, now>>
        /\ I(t) \in Instances /\ Proceed(t)
    BY Facts DEF Refreshed, Resumes, Pcs, LockPcs, lock
  <1>2. EntryStays(I(t))
    BY <1>1, EntryStaysAfter DEF Refreshed
  <1> QED BY <1>1, <1>2, QuietProceed, QuietLease

LEMMA OpenFailedLease ==
    ASSUME BaseInv, NEW t \in Tasks, LeaseOK(t), OpenFailed(t)
    PROVE  LeaseOK(t)'
  <1>1. /\ task[t].op = "open" /\ Finish(t) /\ call' = [call EXCEPT ![t] = NoCall]
        /\ UNCHANGED <<lock, now, leases>> /\ I(t) \in Instances
    BY Facts DEF OpenFailed, TaskOK, ControlOK, lock, localVars
  <1> QED BY <1>1, QuietMoves, EntryStaysAfter, QuietLease

LEMMA OpenAcquiredLease ==
    ASSUME BaseInv, NEW t \in Tasks, LeaseOK(t), OpenAcquired(t)
    PROVE  LeaseOK(t)'
  <1>1. /\ task[t].op = "open" /\ Pc(t) = "acquired" /\ UNCHANGED <<lock, now>>
        /\ I(t) \in Instances
    BY Facts DEF OpenAcquired, TaskOK, ControlOK, lock
  <1>2. ~leases[I(t)].held
    BY <1>1 DEF LeaseOK, StageOK, Entry
  <1>3. EntryStays(I(t))
    BY <1>1, <1>2, EntryStaysAfter DEF OpenAcquired
  <1>4. CASE OpenAbort(t)
    BY <1>1, <1>3, <1>4, QuietMoves, QuietLease DEF OpenAbort
  <1>5. CASE StartUpload(t, "open", local[I(t)], cache[I(t)], Absent) /\ UNCHANGED call
    BY <1>1, <1>3, <1>5, QuietUpload, QuietLease
  <1>6. CASE Await(t, "head", Get("file")) /\ UNCHANGED call
    <2>1. Get("file").key = "file"
      BY DEF Get
    <2> QED BY <1>1, <1>3, <1>6, <2>1, QuietAwait, QuietLease
  <1> QED BY <1>2, <1>4, <1>5, <1>6 DEF OpenAcquired

\* head_and_refresh.
LEMMA HeadLease ==
    ASSUME BaseInv, NEW t \in Tasks, LeaseOK(t), HeadAnswered(t) \/ HeadGot(t)
    PROVE  LeaseOK(t)'
  <1>1. /\ task[t].pc \in {"head", "get"} /\ task[t].op \in {"open", "check"}
        /\ UNCHANGED <<lock, now>> /\ I(t) \in Instances
    BY Facts DEF HeadAnswered, HeadGot, Resumes, TaskOK, ControlOK, lock
  <1>2. Pc(t) = (IF task[t].op = "open" THEN "acquired" ELSE "none")
    BY <1>1, FileAnswer DEF Pcs, LockPcs
  <1>3. ASSUME NEW base, HeadDone(t, base) PROVE LeaseOK(t)'
    <2>1. CASE task[t].op = "open"
      BY <1>1, <1>2, <1>3, <2>1, InsertLease DEF HeadDone
    <2>2. CASE task[t].op = "check"
      <3>1. Finish(t) /\ UNCHANGED <<leases, call>>
        BY <1>3, <2>2 DEF HeadDone
      <3> QED BY <1>1, <1>2, <2>2, <3>1, QuietMoves, EntryStaysAfter, QuietLease
    <2> QED BY <1>1, <2>1, <2>2
  <1>4. CASE Await(t, "get", Get("file")) /\ UNCHANGED <<leases, call>>
    <2>1. Get("file").key = "file"
      BY DEF Get
    <2>2. QuietMove(t)
      BY <1>2, <1>4, <2>1, QuietAwait
    <2> QED BY <1>1, <1>4, <2>2, EntryStaysAfter, QuietLease
  <1>5. CASE Proceed(t) /\ UNCHANGED leases
    <2>1. QuietMove(t)
      BY <1>1, <1>5, QuietProceed DEF Pcs, LockPcs
    <2> QED BY <1>1, <1>5, <2>1, EntryStaysAfter, QuietLease
  <1> QED BY <1>3, <1>4, <1>5 DEF HeadAnswered, HeadGot

LEMMA ReleasedLease ==
    ASSUME BaseInv, NEW t \in Tasks, LeaseOK(t), Released(t)
    PROVE  LeaseOK(t)'
  <1>1. /\ Finish(t) /\ call' = [call EXCEPT ![t] = NoCall]
        /\ UNCHANGED <<lock, now>> /\ I(t) \in Instances /\ TaskTypes
        /\ leases \in [Instances -> EntryType]
    BY Facts DEF Released, lock, BaseInv, Types, InstanceTypes
  <1>2. CASE task[t].op # "close"
    <2>1. UNCHANGED leases
      BY <1>2 DEF Released
    <2> QED BY <1>1, <1>2, <2>1, QuietMoves, EntryStaysAfter, QuietLease
  <1>3. CASE task[t].op = "close"
    <2>1. leases'[I(t)] = NoLease
      BY <1>1, <1>3 DEF Released
    <2>2. Entry(t)'.held = FALSE
      BY <2>1 DEF Entry, NoLease
    <2>3. task'[t] = Idle /\ call'[t] = NoCall /\ req'[t] = NoRequest
      BY <1>1, FinishEnds, MovesTo DEF Ends
    <2>4. task'[t].op = "none" /\ task'[t].pc = "idle" /\ Pc(t)' = "none" /\ req'[t].op = "none"
      BY <2>3 DEF Idle, NoCall, NoRequest, Pc
    <2>5. StageOK(t)' /\ AskOK(t)' /\ EpochOK(t)' /\ MemoryOK(t)'
      BY <2>2, <2>4 DEF StageOK, AskOK, EpochOK, MemoryOK
    <2>6. BackedOK(t)'
      BY <2>2, <2>4 DEF BackedOK, Granted
    <2> QED BY <2>5, <2>6 DEF LeaseOK
  <1> QED BY <1>2, <1>3

\* The rest leaves the entries alone.
LEMMA OtherLease ==
    ASSUME BaseInv, NEW t \in Tasks, LeaseOK(t),
           LeaseDeleted(t) \/ QueueDeleted(t) \/ PollListed(t) \/ BootListed(t) \/ Got(t)
    PROVE  LeaseOK(t)'
  <1>1. /\ task[t].pc \in {"leaseDelete", "queueDelete", "list", "get"}
        /\ UNCHANGED <<lock, now, leases>> /\ I(t) \in Instances
        /\ task[t].op \in {"close", "fsync", "flush", "poll", "boot", "read"}
        /\ task[t].op = "close" => LeaseDeleted(t)
    BY Facts DEF LeaseDeleted, QueueDeleted, PollListed, BootListed, Got, Resumes, TaskOK,
                 ControlOK, lock, localVars
  <1>2. /\ task[t].pc \in Pcs \ (LockPcs \union {"idle"}) /\ Pc(t) = "none" /\ EntryStays(I(t))
    BY <1>1, FileAnswer, EntryStaysAfter DEF Pcs, LockPcs
  <1>3. CASE Proceed(t)
    BY <1>1, <1>2, <1>3, QuietProceed, QuietLease
  <1>4. CASE Finish(t) /\ UNCHANGED call /\ task[t].op # "close"
    BY <1>1, <1>2, <1>4, QuietMoves, QuietLease
  <1>5. ASSUME NEW pc \in {"refresh", "get"}, Await(t, pc, Get("file")), UNCHANGED call
        PROVE  LeaseOK(t)'
    <2>1. Get("file").key = "file"
      BY DEF Get
    <2> QED BY <1>1, <1>2, <1>5, <2>1, QuietAwait, QuietLease
  <1>6. CASE Await(t, "queueDelete", DeleteIf("file", Absent)) /\ UNCHANGED call
    <2>1. DeleteIf("file", Absent).key = "file"
      BY DEF DeleteIf
    <2> QED BY <1>1, <1>2, <1>6, <2>1, QuietAwait, QuietLease
  <1>7. CASE LeaseDeleted(t)
    BY <1>3, <1>5, <1>7 DEF LeaseDeleted
  <1>8. CASE ~LeaseDeleted(t)
    BY <1>1, <1>4, <1>5, <1>6, <1>8 DEF QueueDeleted, PollListed, BootListed, Got
  <1> QED BY <1>7, <1>8

-----------------------------------------------------------------------------
(***************************************************************************)
(* The lock object: the lease calls and the store.                         *)
(***************************************************************************)

\* A lease call is at pc and nothing has been promised to it.
LEMMA WaitLease ==
    ASSUME NEW t \in Tasks, LeaseOK(t), UNCHANGED <<lock, now, leases, task>>,
           resp'[t].status = "none",
           \/ /\ Pc(t)' \in {"sleep", "busy", "failed", "released", "lost", "renewFailed"}
              /\ req'[t].op = "none"
           \/ Pc(t)' = "get" /\ req'[t].op = "get"
    PROVE  LeaseOK(t)'
  <1>1. Entry(t)' = Entry(t)
    BY DEF Entry
  <1>2. StageOK(t)' /\ AskOK(t)' /\ EpochOK(t)'
    BY <1>1 DEF LeaseOK, StageOK, AskOK, EpochOK
  <1>3. MemoryOK(t)'
    BY <1>1 DEF LeaseOK, MemoryOK
  <1>4. BackedOK(t)'
    BY <1>1 DEF LeaseOK, BackedOK, Granted, Owns
  <1> QED BY <1>2, <1>3, <1>4 DEF LeaseOK

LEMMA GotoLease ==
    ASSUME BaseInv, NEW t \in Tasks, LeaseOK(t), UNCHANGED <<lock, now, leases, task>>,
           NEW pc \in {"sleep", "busy", "failed", "released"}, Goto(t, pc)
    PROVE  LeaseOK(t)'
  <1>1. Pc(t)' = pc /\ req'[t] = NoRequest /\ resp'[t] = NoResponse
    BY Facts DEF Goto, Send, TaskTypes, CallType, Pc
  <1>2. req'[t].op = "none" /\ resp'[t].status = "none"
    BY <1>1 DEF NoRequest, NoResponse
  <1> QED BY <1>1, <1>2, WaitLease

\* The call returns with the lease it was granted.
LEMMA GrantLease ==
    ASSUME NEW t \in Tasks, LeaseOK(t), UNCHANGED <<lock, now, leases, task>>,
           Granted(t), ConditionalDelete => resp[t].val = call[t].body, req'[t].op = "none",
           \/ Pc(t)' = "acquired" /\ Pc(t) \in {"put", "verify"}
           \/ Pc(t)' = "renewed" /\ Pc(t) = "renew",
           call'[t].body = call[t].body, call'[t].etag = resp[t].val
    PROVE  LeaseOK(t)'
  <1>1. Entry(t)' = Entry(t)
    BY DEF Entry
  <1>2. StageOK(t)' /\ AskOK(t)' /\ EpochOK(t)'
    BY <1>1 DEF LeaseOK, StageOK, AskOK, EpochOK
  <1>3. MemoryOK(t)'
    BY <1>1 DEF LeaseOK, MemoryOK
  <1>4. BackedOK(t)'
    BY <1>1 DEF LeaseOK, BackedOK, Owns
  <1> QED BY <1>2, <1>3, <1>4 DEF LeaseOK

LEMMA AcquireGotLease ==
    ASSUME BaseInv, NEW t \in Tasks, LeaseOK(t), AcquireGot(t), UNCHANGED <<leases, task>>
    PROVE  LeaseOK(t)'
  <1> DEFINE seen == resp[t].val
             epoch == IF seen = Absent THEN 1 ELSE seen.epoch + 1
             body == FreshRecord(t, epoch)
  <1>1. Pc(t) = "get" /\ UNCHANGED <<lock, now>>
    BY DEF AcquireGot, lock
  <1>2. CASE Goto(t, "failed") \/ RetryOrBusy(t)
    BY <1>1, <1>2, GotoLease DEF RetryOrBusy
  <1>3. CASE /\ resp[t].status = "ok" /\ (seen # Absent => IsExpired(seen))
             /\ PutRecord(t, seen)
    <2>1. /\ seen \in LockETags /\ now \in Nat /\ LeaseTime \in Nat /\ TaskTypes
          /\ call[t] \in CallType
      BY <1>1, Calling, Facts, LeaseAssumption DEF AwaitPcs, BaseInv, Types, SharedTypes
    <2>2. epoch \in Nat /\ (seen # Absent => epoch = seen.epoch + 1)
      <3>1. seen # Absent => seen.epoch \in Nat
        BY <2>1 DEF LockETags, Records
      <3> QED BY <3>1
    <2>3. body.epoch = epoch /\ body.expires = now + LeaseTime
      BY DEF FreshRecord, LockRecord
    <2>4. /\ req'[t] = PutIf("lock", seen, body) /\ resp'[t] = NoResponse
          /\ call'[t] = [call[t] EXCEPT !.pc = "put", !.etag = seen, !.body = body]
      BY <1>3, <2>1 DEF PutRecord, Send, TaskTypes
    <2> HIDE DEF body, epoch
    <2>5. /\ Pc(t)' = "put" /\ call'[t].etag = seen /\ call'[t].body = body
          /\ resp'[t].status = "none"
      BY <2>1, <2>4 DEF Pc, CallType, NoResponse
    <2>6. /\ req'[t].op = "put" /\ req'[t].body = body /\ req'[t].etag = seen
          /\ req'[t].cond = (IF seen = Absent THEN "ifNoneMatch" ELSE "ifMatch")
      BY <2>4 DEF PutIf
    <2>7. Entry(t)' = Entry(t)
      BY DEF Entry
    <2>8. StageOK(t)' /\ AskOK(t)'
      BY <2>5, <2>6, <2>7 DEF LeaseOK, StageOK, AskOK
    <2>9. EpochOK(t)'
      <3>1. seen # Absent => now >= seen.expires
        BY <1>3 DEF IsExpired
      <3>2. now' = now
        BY <1>1
      <3> HIDE DEF seen
      <3> QED BY <2>2, <2>3, <2>6, <3>1, <3>2 DEF EpochOK, IsExpired
    <2>10. MemoryOK(t)'
      BY <1>1, <2>1, <2>3, <2>5, <2>7 DEF LeaseOK, MemoryOK
    <2>11. BackedOK(t)'
      <3> SUFFICES ASSUME ConditionalDelete PROVE BackedOK(t)'
        BY DEF BackedOK
      <3>1. lock # Absent /\ lock.instance = I(t) => lock = seen
        BY <1>1, <1>3 DEF LeaseOK, BackedOK
      <3> QED BY <1>1, <2>2, <2>3, <2>5, <2>7, <3>1 DEF LeaseOK, BackedOK, Granted, Owns
    <2> QED BY <2>8, <2>9, <2>10, <2>11 DEF LeaseOK
  <1> QED BY <1>2, <1>3 DEF AcquireGot

LEMMA AcquirePutLease ==
    ASSUME BaseInv, NEW t \in Tasks, LeaseOK(t), AcquirePut(t), UNCHANGED <<leases, task>>
    PROVE  LeaseOK(t)'
  <1>1. Pc(t) = "put" /\ UNCHANGED <<lock, now>> /\ TaskTypes /\ call[t] \in CallType
    BY Facts DEF AcquirePut, lock
  <1>2. CASE /\ resp[t].status = "ok"
             /\ call' = [call EXCEPT ![t].pc = "acquired", ![t].etag = resp[t].val]
             /\ Send(t, NoRequest)
    <2>1. /\ Pc(t)' = "acquired" /\ call'[t].body = call[t].body /\ call'[t].etag = resp[t].val
          /\ req'[t].op = "none"
      BY <1>1, <1>2 DEF TaskTypes, CallType, Pc, Send, NoRequest
    <2>2. resp[t].val = call[t].body /\ Granted(t)
      BY <1>1, <1>2, Facts DEF TaskOK, OwnOK, Granted
    <2> QED BY <1>1, <2>1, <2>2, GrantLease
  <1>3. CASE /\ call' = [call EXCEPT ![t].pc = "verify", ![t].err = resp[t].status]
             /\ Send(t, Get("lock"))
    <2>1. /\ Pc(t)' = "verify" /\ call'[t].body = call[t].body /\ call'[t].etag = call[t].etag
          /\ req'[t].op = "get" /\ resp'[t].status = "none"
      BY <1>1, <1>3 DEF TaskTypes, CallType, Pc, Send, Get, NoResponse
    <2>2. Entry(t)' = Entry(t)
      BY DEF Entry
    <2>3. StageOK(t)' /\ AskOK(t)' /\ EpochOK(t)'
      BY <2>1, <2>2 DEF LeaseOK, StageOK, AskOK, EpochOK
    <2>4. MemoryOK(t)'
      BY <1>1, <2>1, <2>2 DEF LeaseOK, MemoryOK
    <2>5. BackedOK(t)'
      BY <1>1, <2>1, <2>2 DEF LeaseOK, BackedOK, Granted, Owns
    <2> QED BY <2>3, <2>4, <2>5 DEF LeaseOK
  <1> QED BY <1>2, <1>3 DEF AcquirePut

LEMMA LeaseStepLease ==
    ASSUME BaseInv, NEW t \in Tasks, LeaseOK(t), LeaseStep(t), UNCHANGED <<leases, task>>
    PROVE  LeaseOK(t)'
  <1>1. UNCHANGED <<lock, now>> /\ TaskTypes /\ call[t] \in CallType
    BY Facts DEF LeaseStep, AcquireGot, AcquirePut, AcquireVerified, AcquireWake, RenewDone,
                 ReleaseDone, lock
  <1>2. CASE AcquireVerified(t)
    <2>1. CASE LeaseLanded(t)
      <3>1. /\ Pc(t)' = "acquired" /\ call'[t].body = call[t].body
            /\ call'[t].etag = resp[t].val /\ req'[t].op = "none" /\ Pc(t) = "verify"
        BY <1>1, <1>2, <2>1 DEF AcquireVerified, TaskTypes, CallType, Pc, Send, NoRequest
      <3>2. resp[t].status = "ok"
        BY <2>1 DEF LeaseLanded
      <3>3. (ConditionalDelete => resp[t].val = call[t].body) /\ Granted(t)
        BY <2>1, <3>1, <3>2 DEF LeaseOK, BackedOK, Granted
      <3> QED BY <1>1, <3>1, <3>3, GrantLease
    <2>2. CASE ~LeaseLanded(t)
      BY <1>1, <1>2, <2>2, GotoLease DEF AcquireVerified, RetryOrBusy
    <2> QED BY <2>1, <2>2
  <1>3. CASE AcquireWake(t)
    <2>1. Pc(t)' = "get" /\ req'[t].op = "get" /\ resp'[t].status = "none"
      BY <1>1, <1>3 DEF AcquireWake, TaskTypes, CallType, Pc, Send, Get, NoResponse
    <2> QED BY <1>1, <2>1, WaitLease
  <1>4. CASE RenewDone(t)
    <2>0. Send(t, NoRequest) /\ Pc(t) = "renew"
      BY <1>4 DEF RenewDone
    <2>1. req'[t].op = "none" /\ resp'[t].status = "none"
      BY <1>1, <2>0 DEF TaskTypes, Send, NoRequest, NoResponse
    <2>2. CASE resp[t].status = "ok"
      <3>1. call' = [call EXCEPT ![t].pc = "renewed", ![t].etag = resp[t].val]
        BY <1>4, <2>2 DEF RenewDone
      <3>2. /\ Pc(t)' = "renewed" /\ call'[t].body = call[t].body /\ call'[t].etag = resp[t].val
        BY <1>1, <3>1 DEF TaskTypes, CallType, Pc
      <3>3. resp[t].val = call[t].body /\ Granted(t)
        BY <2>0, <2>2, Facts DEF TaskOK, OwnOK, Granted
      <3> QED BY <1>1, <2>0, <2>1, <3>2, <3>3, GrantLease
    <2>3. CASE resp[t].status # "ok"
      <3>1. Pc(t)' \in {"lost", "renewFailed"}
        <4>1. CASE resp[t].status = "error"
          BY <1>1, <1>4, <2>3, <4>1 DEF RenewDone, TaskTypes, CallType, Pc
        <4>2. CASE resp[t].status # "error"
          BY <1>1, <1>4, <2>3, <4>2 DEF RenewDone, TaskTypes, CallType, Pc
        <4> QED BY <4>1, <4>2
      <3> QED BY <1>1, <2>1, <3>1, WaitLease
    <2> QED BY <2>2, <2>3
  <1>5. CASE ReleaseDone(t)
    BY <1>1, <1>5, GotoLease DEF ReleaseDone
  <1> QED BY <1>2, <1>3, <1>4, <1>5, AcquireGotLease, AcquirePutLease DEF LeaseStep

-----------------------------------------------------------------------------
(***************************************************************************)
(* The lock object: the store, time and crashes.                           *)
(***************************************************************************)

\* What a step of the store does for t, when it supports conditional deletes.
LEMMA LockServed ==
    ASSUME BaseInv, ConditionalDelete, NEW t \in Tasks, StoreStep(t)
    PROVE  /\ req[t].op # "none" /\ req'[t] = NoRequest
           /\ \A u \in Tasks \ {t} : req'[u] = req[u] /\ resp'[u] = resp[u]
           /\ req[t].key \in {"file", "lock"}
           /\ req[t].key = "file" => lock' = lock
           /\ req[t].key = "lock" =>
                 /\ req[t].op = "get" => lock' = lock
                 /\ req[t].op = "get" /\ resp'[t].status = "ok" => resp'[t].val = lock
                 /\ req[t].op = "put" => lock' \in {lock, req[t].body}
                 /\ req[t].op = "put" /\ resp'[t].status = "ok" => lock' = req[t].body
           /\ lock' # lock =>
                 /\ lock # Absent => lock.instance = I(t) \/ IsExpired(lock)
                 /\ lock' # Absent => lock'.instance = I(t)
  <1> DEFINE r == req[t]
  <1>1. r.op # "none"
    BY StoreStepEffect
  <1>2. PICK obj, a : Handled(t, obj, a)
    BY StoreStepEffect DEF Downgraded, Emulated
  <1>3. /\ r \in RequestType /\ r.key \in {"file", "lock"}
        /\ r.etag \in Values(r.key) /\ r.body \in Values(r.key)
        /\ r.op = "put" => r.body # Absent
    BY <1>1, Facts DEF TaskOK, RequestOK
  <1>4. /\ req'[t] = NoRequest /\ resp'[t] = a
        /\ \A u \in Tasks \ {t} : req'[u] = req[u] /\ resp'[u] = resp[u]
        /\ store'[r.key] = obj
        /\ \A k \in Keys : k # r.key => store'[k] = store[k]
    BY <1>2, <1>3, ServedTo DEF Handled
  <1>5. r.key = "file" => lock' = lock
    BY <1>4, LeaseAssumption DEF lock
  <1>6. CASE r.key = "lock"
    <2>1. obj = lock' /\ store[r.key] = lock /\ lock \in Values(r.key)
      BY <1>4, <1>6, KeyValues DEF lock
    <2>2. /\ r.op = "get" => obj = lock
          /\ r.op = "get" /\ a.status = "ok" => a.val = lock
          /\ r.op = "put" /\ a.status = "ok" => a.val = r.body /\ obj = r.body
          /\ obj # lock => /\ obj = IF r.op = "put" THEN r.body ELSE Absent
                           /\ r.cond = "ifMatch" => lock = r.etag /\ lock # Absent
                           /\ r.cond = "ifNoneMatch" => lock = Absent
      BY <1>1, <1>2, <1>3, <2>1, HandledEffect DEF Handled
    <2>3. obj # lock => r.op \in {"put", "delete"}
      BY <1>1, <1>3, <2>2 DEF RequestType
    <2>4. OwnOK(t)
      BY Facts DEF TaskOK
    <2>5. obj # lock => /\ lock # Absent => lock.instance = I(t) \/ IsExpired(lock)
                        /\ obj # Absent => obj.instance = I(t)
      BY <1>6, <2>2, <2>3, <2>4 DEF OwnOK
    <2> QED BY <1>1, <1>4, <1>6, <2>1, <2>2, <2>5
  <1> QED BY <1>1, <1>3, <1>4, <1>5, <1>6

\* A change of the lock object that is none of u's business: it was not u's,
\* or had expired, and is not u's now.
LEMMA LockChangedLease ==
    ASSUME BaseInv, NEW u \in Tasks, LeaseOK(u), UNCHANGED <<now, task, call, localVars>>,
           req'[u] = req[u], resp'[u] = resp[u],
           \/ lock' = lock
           \/ /\ lock # Absent => lock.instance # I(u) \/ IsExpired(lock)
              /\ lock' # Absent => lock'.instance # I(u)
    PROVE  LeaseOK(u)'
  <1>1. Pc(u)' = Pc(u) /\ Entry(u)' = Entry(u) /\ (Live(u)' <=> Live(u))
    BY DEF Pc, Entry, Live, localVars
  <1>2. StageOK(u)' /\ AskOK(u)' /\ EpochOK(u)' /\ MemoryOK(u)'
    BY <1>1 DEF LeaseOK, StageOK, AskOK, EpochOK, MemoryOK, IsExpired
  <1>3. BackedOK(u)'
    <2> SUFFICES ASSUME ConditionalDelete PROVE BackedOK(u)'
      BY DEF BackedOK
    <2>0. BackedOK(u) /\ (Granted(u)' <=> Granted(u)) /\ (LeaseLanded(u)' <=> LeaseLanded(u))
      BY <1>1 DEF LeaseOK, Granted, LeaseLanded
    <2>1. ASSUME NEW epoch \in Nat, NEW expires \in Nat, now < expires, Owns(u, epoch, expires)
          PROVE  Owns(u, epoch, expires)'
      <3>1. lock \in Records /\ now \in Nat
        BY <2>1, LeaseAssumption DEF Owns, BaseInv, Types, SharedTypes, LockETags
      <3>2. ~IsExpired(lock)
        BY <2>1, <3>1 DEF IsExpired, Owns, Records
      <3>3. lock' = lock
        BY <2>1, <3>2 DEF Owns
      <3> QED BY <2>1, <3>3 DEF Owns
    <2>2. /\ Entry(u).epoch \in Nat /\ Entry(u).expires \in Nat
          /\ call[u].body.epoch \in Nat /\ call[u].body.expires \in Nat
      BY Facts DEF Entry, EntryType, CallType, Records
    <2>3. Entry(u)'.held /\ ~Entry(u)'.releasing /\ now' < Entry(u)'.expires =>
             Owns(u, Entry(u).epoch, Entry(u).expires)'
      BY <1>1, <2>0, <2>1, <2>2 DEF BackedOK
    <2>4. Granted(u)' /\ now' < call'[u].body.expires =>
             Owns(u, call[u].body.epoch, call[u].body.expires)'
      BY <2>0, <2>1, <2>2 DEF BackedOK
    <2>5. lock' # Absent /\ lock'.instance = I(u) => lock' = lock
      OBVIOUS
    <2> QED BY <1>1, <2>0, <2>3, <2>4, <2>5 DEF BackedOK, Owns
  <1> QED BY <1>2, <1>3 DEF LeaseOK

\* The store serves t's own request.
LEMMA OwnRequestLease ==
    ASSUME BaseInv, ConditionalDelete, NEW t \in Tasks, LeaseOK(t), StoreStep(t),
           ~Live(t) => ~Entry(t).held, UNCHANGED <<now, task, call, localVars>>
    PROVE  LeaseOK(t)'
  <1>1. /\ Pc(t)' = Pc(t) /\ Entry(t)' = Entry(t) /\ (Live(t)' <=> Live(t))
        /\ req'[t].op = "none"
    BY LockServed DEF Pc, Entry, Live, localVars, NoRequest
  <1>2. StageOK(t)' /\ AskOK(t)' /\ EpochOK(t)' /\ MemoryOK(t)'
    BY <1>1 DEF LeaseOK, StageOK, AskOK, EpochOK, MemoryOK
  <1>3. SUFFICES BackedOK(t)'
    BY <1>2 DEF LeaseOK
  <1>4. BackedOK(t) /\ MemoryOK(t) /\ StageOK(t) /\ AskOK(t) /\ OwnOK(t) /\ ControlOK(t)
        /\ AnswerOK(t)
    BY Facts DEF LeaseOK, TaskOK
  <1>5. /\ req[t].op \in {"get", "put", "delete"} /\ req[t].key \in {"file", "lock"}
        /\ now \in Nat /\ lock \in LockETags /\ call[t].body \in Records
        /\ Entry(t) \in EntryType
    BY LockServed, Facts, LeaseAssumption
       DEF RequestType, BaseInv, Types, SharedTypes, CallType, Entry
  <1>6. CASE ~Live(t)
    <2>1. Pc(t) = "none" /\ ~Entry(t).held
      BY <1>4, <1>6 DEF ControlOK, NoCall, Pc
    <2> QED BY <1>1, <2>1 DEF BackedOK, Granted
  <1>7. CASE req[t].key = "file" /\ Live(t)
    <2>1. lock' = lock
      BY <1>7, LockServed
    <2>2. task[t].pc \notin LockPcs
      BY <1>4, <1>5, <1>7 DEF AnswerOK, KeyOf
    <2>3. Pc(t) \in {"none", "acquired"}
      BY <1>4, <2>2 DEF ControlOK
    <2> QED BY <1>1, <1>4, <2>1, <2>3 DEF BackedOK, Granted, Owns
  <1>8. CASE req[t].key = "lock" /\ Live(t) /\ req[t].op = "get"
    <2>1. /\ lock' = lock /\ (resp'[t].status = "ok" => resp'[t].val = lock)
          /\ Pc(t) \in {"get", "verify"}
      BY <1>4, <1>5, <1>8, LockServed DEF AskOK
    <2>2. ~(Entry(t).held /\ ~Entry(t).releasing)
      <3>1. task[t].op \notin {"none", "renew"} /\ task[t].pc = "acquire"
        BY <1>4, <2>1 DEF ControlOK, LockPcs
      <3> QED BY <1>4, <3>1 DEF StageOK, ControlOK
    <2>3. Pc(t) = "verify" /\ resp'[t].status = "ok" /\ LeaseLanded(t)' =>
             lock = call[t].body /\ resp'[t].val = lock
      <3> SUFFICES ASSUME Pc(t) = "verify", resp'[t].status = "ok", LeaseLanded(t)'
                   PROVE  lock = call[t].body /\ resp'[t].val = lock
        OBVIOUS
      <3>1. /\ resp'[t].val = lock /\ lock # Absent /\ lock.instance = I(t)
            /\ lock.epoch = call[t].body.epoch
        BY <2>1 DEF LeaseLanded, I
      <3>2. lock.epoch \in Nat
        BY <1>5, <3>1 DEF LockETags, Records
      <3>3. lock = call[t].body \/ call[t].body.epoch = lock.epoch + 1
        BY <1>4, <3>1 DEF BackedOK
      <3> QED BY <3>1, <3>2, <3>3
    <2>4. Granted(t)' => Owns(t, call[t].body.epoch, call[t].body.expires)'
      <3> SUFFICES ASSUME Granted(t)' PROVE Owns(t, call[t].body.epoch, call[t].body.expires)'
        OBVIOUS
      <3>1. Pc(t) = "verify" /\ resp'[t].status = "ok" /\ LeaseLanded(t)'
        BY <1>1, <2>1 DEF Granted
      <3>2. lock' = call[t].body
        BY <2>1, <2>3, <3>1
      <3>3. /\ call[t].body.instance = I(t) /\ call[t].body.expires \in Nat
            /\ call[t].body # Absent
        BY <1>4, <1>5, <3>1, AbsentAssumption DEF OwnOK, Records
      <3> QED BY <3>2, <3>3 DEF Owns
    <2> QED BY <1>1, <1>4, <2>1, <2>2, <2>3, <2>4 DEF BackedOK
  <1>9. CASE req[t].key = "lock" /\ Live(t) /\ req[t].op = "put"
    <2>1. /\ Pc(t) \in {"put", "renew"} /\ req[t].body = call[t].body
          /\ lock' = lock \/ lock' = call[t].body
          /\ resp'[t].status = "ok" => lock' = call[t].body
      BY <1>4, <1>5, <1>9, LockServed DEF AskOK, OwnOK
    <2>2. /\ call[t].body.instance = I(t) /\ call[t].body.expires \in Nat
          /\ call[t].body # Absent
      BY <1>4, <1>5, <2>1, AbsentAssumption DEF OwnOK, Records
    <2>3. Entry(t).held /\ ~Entry(t).releasing /\ now < Entry(t).expires =>
             Owns(t, Entry(t).epoch, Entry(t).expires)'
      <3> SUFFICES ASSUME Entry(t).held, ~Entry(t).releasing, now < Entry(t).expires
                   PROVE  Owns(t, Entry(t).epoch, Entry(t).expires)'
        OBVIOUS
      <3>1. Owns(t, Entry(t).epoch, Entry(t).expires)
        BY <1>4 DEF BackedOK
      <3>2. Pc(t) = "renew"
        <4>1. Pc(t) = "put" => task[t].op = "open"
          BY <1>4 DEF ControlOK, LockPcs
        <4> QED BY <1>4, <2>1, <4>1 DEF StageOK
      <3>3. /\ call[t].body.epoch = Entry(t).epoch
            /\ call[t].body.expires >= Entry(t).expires
        BY <1>4, <3>2 DEF MemoryOK
      <3> QED BY <1>1, <2>1, <2>2, <3>1, <3>3 DEF Owns
    <2>4. Granted(t)' => Owns(t, call[t].body.epoch, call[t].body.expires)'
      BY <1>1, <2>1, <2>2 DEF Granted, Owns
    <2>5. lock' # Absent /\ lock'.instance = I(t) /\ Pc(t) = "put" =>
             \/ lock' = call[t].body
             \/ lock' = call[t].etag /\ call[t].body.epoch = lock'.epoch + 1
      BY <1>4, <2>1 DEF BackedOK
    <2> QED BY <1>1, <2>1, <2>3, <2>4, <2>5 DEF BackedOK
  <1>10. CASE req[t].key = "lock" /\ Live(t) /\ req[t].op = "delete"
    <2>1. Pc(t) = "release"
      BY <1>4, <1>5, <1>10 DEF AskOK
    <2>2. ~(Entry(t).held /\ ~Entry(t).releasing)
      <3>1. task[t].op \in {"open", "close"}
        BY <1>4, <2>1 DEF ControlOK, LockPcs
      <3> QED BY <1>4, <3>1 DEF StageOK
    <2> QED BY <1>1, <2>1, <2>2 DEF BackedOK, Granted
  <1> QED BY <1>5, <1>6, <1>7, <1>8, <1>9, <1>10

\* Without conditional deletes only the stages and the requests matter.
LEMMA PlainStoreLease ==
    ASSUME BaseInv, ~ConditionalDelete, LeaseInv, NEW t \in Tasks, StoreStep(t),
           UNCHANGED <<now, task, call, localVars>>
    PROVE  LeaseInv'
  <1>1. ASSUME NEW u \in Tasks
        PROVE  \/ req'[u] = req[u]
               \/ req'[u].op = "none"
               \/ req[u].op = "delete" /\ req'[u].op = "delete" /\ req'[u].key = req[u].key
    <2>1. CASE Downgraded(t)
      BY <2>1, Facts DEF Downgraded, Emulated, DeleteIf, TaskTypes
    <2>2. ASSUME NEW obj, NEW a, Handled(t, obj, a)
          PROVE  req'[u] = req[u] \/ req'[u].op = "none"
      BY <2>2, Facts DEF Handled, Served, NoRequest, TaskTypes
    <2> QED BY <2>1, <2>2, StoreStepEffect
  <1>2. ASSUME NEW u \in Tasks PROVE LeaseOK(u)'
    <2>1. LeaseOK(u) /\ Pc(u)' = Pc(u) /\ Entry(u)' = Entry(u) /\ (Live(u)' <=> Live(u))
      BY DEF LeaseInv, Pc, Entry, Live, localVars
    <2>2. StageOK(u)'
      BY <2>1 DEF LeaseOK, StageOK
    <2>3. AskOK(u)'
      BY <1>1, <2>1 DEF LeaseOK, AskOK
    <2>4. EpochOK(u)' /\ MemoryOK(u)' /\ BackedOK(u)'
      BY DEF EpochOK, MemoryOK, BackedOK
    <2> QED BY <2>2, <2>3, <2>4 DEF LeaseOK
  <1>3. OwnedEntries'
    BY DEF LeaseInv, OwnedEntries, localVars
  <1> QED BY <1>2, <1>3 DEF LeaseInv

LEMMA StoreLease ==
    ASSUME BaseInv, SingleThreaded, LeaseInv, NEW t \in Tasks, StoreStep(t),
           UNCHANGED <<now, task, call, localVars>>
    PROVE  LeaseInv'
  <1> SUFFICES ASSUME ConditionalDelete PROVE LeaseInv'
    BY PlainStoreLease
  <1>1. ~Live(t) => ~Entry(t).held
    BY Facts DEF LeaseInv, OwnedEntries, Live, Entry
  <1>2. LeaseOK(t)'
    BY <1>1, OwnRequestLease DEF LeaseInv
  <1>3. ASSUME NEW u \in Tasks \ {t} PROVE LeaseOK(u)'
    <2>1. I(u) # I(t) /\ LeaseOK(u)
      BY <1>3 DEF SingleThreaded, LeaseInv
    <2>2. req'[u] = req[u] /\ resp'[u] = resp[u]
      BY <1>3, LockServed
    <2>3. \/ lock' = lock
          \/ /\ lock # Absent => lock.instance # I(u) \/ IsExpired(lock)
             /\ lock' # Absent => lock'.instance # I(u)
      BY <2>1, LockServed
    <2> QED BY <2>1, <2>2, <2>3, LockChangedLease
  <1>4. OwnedEntries'
    BY DEF LeaseInv, OwnedEntries, localVars
  <1> QED BY <1>2, <1>3, <1>4 DEF LeaseInv

LEMMA TickLease ==
    ASSUME BaseInv, LeaseInv, Tick
    PROVE  LeaseInv'
  <1>1. /\ now \in Nat /\ now' = now + 1 /\ LeaseTime \in Nat
        /\ UNCHANGED <<store, req, resp, call, task, leases, status>>
    BY LeaseAssumption DEF Tick, storeVars, localVars, BaseInv, Types, SharedTypes
  <1>2. ASSUME NEW u \in Tasks PROVE LeaseOK(u)'
    <2>1. Pc(u)' = Pc(u) /\ Entry(u)' = Entry(u) /\ (Live(u)' <=> Live(u)) /\ lock' = lock
      BY <1>1 DEF Pc, Entry, Live, lock
    <2>2. LeaseOK(u)
      BY DEF LeaseInv
    <2>3. /\ Entry(u).expires \in Nat /\ call[u].body.expires \in Nat
      BY Facts DEF Entry, EntryType, CallType, Records
    <2>4. StageOK(u)' /\ AskOK(u)'
      BY <1>1, <2>1, <2>2 DEF LeaseOK, StageOK, AskOK
    <2>5. EpochOK(u)'
      <3>1. req[u].op = "put" /\ req[u].key = "lock" /\ req[u].cond = "ifMatch" =>
               req[u].etag \in Records
        BY Facts DEF TaskOK, RequestOK, OwnOK, Values, LockETags
      <3>2. \A record \in Records : IsExpired(record) => IsExpired(record)'
        BY <1>1 DEF IsExpired, Records
      <3> QED BY <1>1, <2>2, <3>1, <3>2 DEF LeaseOK, EpochOK
    <2>6. MemoryOK(u)'
      BY <1>1, <2>1, <2>2, <2>3 DEF LeaseOK, MemoryOK
    <2>7. BackedOK(u)'
      BY <1>1, <2>1, <2>2, <2>3 DEF LeaseOK, BackedOK, Granted, LeaseLanded, Owns
    <2> QED BY <2>4, <2>5, <2>6, <2>7 DEF LeaseOK
  <1>3. OwnedEntries'
    BY <1>1 DEF LeaseInv, OwnedEntries
  <1> QED BY <1>2, <1>3 DEF LeaseInv

\* A crash leaves the lock object, and requests in flight that may change it.
LEMMA CrashLease ==
    ASSUME BaseInv, LeaseInv, NEW i \in Instances, Crash(i)
    PROVE  LeaseInv'
  <1>1. /\ UNCHANGED <<store, req, resp, now>>
        /\ leases'[i] = NoLease /\ status'[i] = "dead"
        /\ \A j \in Instances \ {i} : leases'[j] = leases[j] /\ status'[j] = status[j]
        /\ \A u \in Tasks : /\ task'[u] = (IF I(u) = i THEN Idle ELSE task[u])
                            /\ call'[u] = (IF I(u) = i THEN NoCall ELSE call[u])
    BY DEF Crash, storeVars, BaseInv, Types, InstanceTypes
  <1>2. ASSUME NEW u \in Tasks PROVE LeaseOK(u)'
    <2>1. LeaseOK(u) /\ I(u) \in Instances /\ lock' = lock
      BY <1>1, InstanceType DEF LeaseInv, lock
    <2>2. CASE I(u) # i
      <3>1. Live(u)' <=> Live(u)
        BY <1>1, <2>1, <2>2 DEF Live
      <3> QED BY <1>1, <2>1, <2>2, <3>1, LeaseUntouched
    <2>3. CASE I(u) = i
      <3>1. /\ task'[u] = Idle /\ Pc(u)' = "none" /\ Entry(u)' = NoLease /\ ~Live(u)'
        BY <1>1, <2>3 DEF Pc, Entry, Live, NoCall
      <3>2. StageOK(u)' /\ AskOK(u)' /\ MemoryOK(u)' /\ BackedOK(u)'
        BY <3>1 DEF StageOK, AskOK, MemoryOK, BackedOK, Granted, Idle, NoLease
      <3>3. EpochOK(u)'
        BY <1>1, <2>1 DEF LeaseOK, EpochOK, IsExpired
      <3> QED BY <3>2, <3>3 DEF LeaseOK
    <2> QED BY <2>2, <2>3
  <1>3. OwnedEntries'
    BY <1>1 DEF LeaseInv, OwnedEntries, NoLease
  <1> QED BY <1>2, <1>3 DEF LeaseInv

LEMMA LeaseStart ==
    ASSUME Init
    PROVE  LeaseInv
  <1>1. ASSUME NEW u \in Tasks PROVE LeaseOK(u)
    <2>1. /\ task[u] = Idle /\ Pc(u) = "none" /\ req[u].op = "none" /\ Entry(u) = NoLease
      BY InstanceType DEF Init, StoreInit, LeaseInit, Pc, Entry, NoCall, NoRequest
    <2> QED BY <2>1 DEF LeaseOK, StageOK, AskOK, EpochOK, MemoryOK, BackedOK, Granted, Idle, NoLease
  <1>2. OwnedEntries
    BY DEF Init, OwnedEntries, NoLease
  <1> QED BY <1>1, <1>2 DEF LeaseInv

LEMMA LeaseNext ==
    ASSUME BaseInv, SingleThreaded, LeaseInv, [Next]_vars
    PROVE  LeaseInv'
  <1>1. CASE UNCHANGED vars
    <2>1. ASSUME NEW u \in Tasks PROVE LeaseOK(u)'
      BY <1>1, LeaseUntouched
         DEF LeaseInv, vars, leaseVars, storeVars, localVars, Live, lock
    <2> QED BY <1>1, <2>1 DEF LeaseInv, OwnedEntries, vars, localVars
  <1>2. ASSUME NEW t \in Tasks, StepOf(t) PROVE LeaseInv'
    <2>0. LeaseOK(t)
      BY DEF LeaseInv
    <2>1. CASE Boot(t) \/ AppStep(t)
      <3>1. UNCHANGED <<lock, now>>
        BY <2>1 DEF Boot, AppStep, OpenWrite, Write, Unlink, Fsync, Close, Read, Check, lock
      <3>2. LeaseOK(t)'
        BY <2>0, <2>1, QueryLease, OpenWriteLease, WriteLease, UnlinkLease, FsyncLease,
           CloseLease DEF AppStep
      <3> QED BY <1>2, <3>1, <3>2, LeaseMover
    <2>2. CASE TickStep(t)
      <3>1. UNCHANGED <<lock, now>>
        BY <2>2 DEF TickStep, Renew, Flush, Poll, lock
      <3>2. LeaseOK(t)'
        BY <2>0, <2>2, QueryLease, RenewLease, FlushQueueLease DEF TickStep
      <3> QED BY <1>2, <3>1, <3>2, LeaseMover
    <2>3. CASE ManagerStep(t)
      <3>1. UNCHANGED <<lock, now>>
        BY <2>3 DEF ManagerStep, UploadPut, UploadHead, UploadRecreate, UploadVerified, Refreshed,
                  OpenFailed, OpenAcquired, HeadAnswered, HeadGot, Released, LeaseDeleted, Renewed,
                  QueueDeleted, PollListed, BootListed, Got, lock
      <3>2. LeaseOK(t)'
        BY <2>0, <2>3, UploadLease, RefreshedLease, OpenFailedLease, OpenAcquiredLease,
           HeadLease, ReleasedLease, RenewedLease, OtherLease DEF ManagerStep
      <3> QED BY <1>2, <3>1, <3>2, LeaseMover
    <2>4. CASE LowerStep(t)
      <3>1. CASE StoreStep(t) /\ UNCHANGED <<now, call>>
        BY <2>4, <3>1, StoreLease DEF LowerStep
      <3>2. CASE LeaseStep(t)
        <4>1. UNCHANGED <<lock, now>> /\ UNCHANGED <<leases, task>>
          BY <2>4, <3>2 DEF LowerStep, localVars, lock, LeaseStep, AcquireGot, AcquirePut,
                            AcquireVerified, AcquireWake, RenewDone, ReleaseDone
        <4> QED BY <1>2, <2>0, <3>2, <4>1, LeaseStepLease, LeaseMover
      <3> QED BY <2>4, <3>1, <3>2 DEF LowerStep
    <2> QED BY <1>2, <2>1, <2>2, <2>3, <2>4 DEF StepOf
  <1>3. CASE Tick
    BY <1>3, TickLease
  <1>4. ASSUME NEW i \in Instances, Crash(i) PROVE LeaseInv'
    BY <1>4, CrashLease
  <1> QED BY <1>1, <1>2, <1>3, <1>4 DEF Next, StepOf

\* LeaseInv is an invariant of instances with a single thread.
THEOREM LeaseIsInvariant ==
    ASSUME SingleThreaded PROVE Spec => []LeaseInv
  <1>1. Init => LeaseInv
    BY LeaseStart
  <1>2. BaseInv /\ LeaseInv /\ [Next]_vars => LeaseInv'
    BY LeaseNext
  <1> QED BY <1>1, <1>2, BaseIsInvariant, PTL DEF Spec

\* An instance with an entry in its lease table that has not run out and is not
\* being released owns the lock object, whatever crashes and transport faults
\* there have been: on_open_write, renew_leases and on_close never keep an
\* entry that the store does not back.
THEOREM LeaseOwnsLockHolds ==
    ASSUME SingleThreaded, ConditionalDelete PROVE Spec => []LeaseOwnsLock
  <1>1. LeaseInv => LeaseOwnsLock
    <2> SUFFICES ASSUME LeaseInv, NEW i \in Instances, leases[i].held, ~leases[i].releasing,
                        now < leases[i].expires
                 PROVE  lock # Absent /\ lock.instance = i
      BY DEF LeaseOwnsLock
    <2>1. PICK t \in Tasks : I(t) = i
      BY DEF LeaseInv, OwnedEntries
    <2>2. BackedOK(t)
      BY DEF LeaseInv, LeaseOK
    <2> QED BY <2>1, <2>2 DEF BackedOK, Owns, Entry
  <1> QED BY <1>1, LeaseIsInvariant, PTL

\* "At most one instance writes a given file at a time": no two instances have
\* unexpired entries for the file.
THEOREM OneWriterHolds ==
    ASSUME SingleThreaded, ConditionalDelete PROVE Spec => []OneWriter
  <1>1. LeaseOwnsLock => OneWriter
    BY DEF LeaseOwnsLock, OneWriter
  <1> QED BY <1>1, LeaseOwnsLockHolds, PTL

-----------------------------------------------------------------------------
(***************************************************************************)
(* References are write descriptors: the shared steps.                     *)
(***************************************************************************)

\* The write descriptors of i.
Total(i) == fds[i].linked + fds[i].orphan

\* Opens wait for a lease only if there are leases.
LEMMA OpensWithLocks ==
    ASSUME BaseInv, NEW t \in Tasks, StepOf(t), Opens(t)', Opens(t) => fileLock
    PROVE  fileLock
  <1>1. Ready(t) => ~Opens(t)
    BY Alive DEF Opens
  <1>2. CASE AppStep(t) \/ Boot(t)
    <2>1. CASE OpenWrite(t)
      BY <1>1, <2>1, OpensAfter DEF OpenWrite
    <2>2. CASE Write(t) \/ Unlink(t)
      BY <1>1, <2>2, OpensAfter DEF Write, Unlink
    <2>3. ASSUME NEW op \in {"close", "fsync"}, NEW l, FlushLease(t, op, l) PROVE ~Opens(t)'
      <3>1. CASE l.pendingDelete /\ l.base # Absent
        BY <2>3, <3>1, Facts DEF FlushLease, Opens, TaskType, TaskTypes
      <3>2. CASE ~(l.pendingDelete /\ l.base # Absent)
        BY <2>3, <3>2, OpensAfter DEF FlushLease
      <3> QED BY <3>1, <3>2
    <2>4. CASE Fsync(t) \/ Close(t)
      BY <1>1, <2>3, <2>4, OpensAfter DEF Fsync, Close
    <2>5. CASE Read(t) \/ Check(t) \/ Boot(t)
      <3>1. \E op \in {"read", "check", "boot"}, pc \in Pcs :
               task' = [task EXCEPT ![t].op = op, ![t].pc = pc]
        BY <2>5 DEF Read, Check, Boot, Pcs
      <3> QED BY <3>1, OpensAfter
    <2> QED BY <1>2, <2>1, <2>2, <2>4, <2>5 DEF AppStep
  <1>3. CASE TickStep(t)
    <2>1. CASE UNCHANGED task
      BY <1>1, <1>3, <2>1, OpensAfter DEF TickStep, Renew, Flush, Poll
    <2>2. CASE \E content, base : StartUpload(t, "flush", content, base, Absent)
      BY <2>2, OpensAfter
    <2>3. CASE \E op \in {"renew", "flush", "poll"}, pc \in Pcs :
                  task' = [task EXCEPT ![t].op = op, ![t].pc = pc]
      BY <2>3, OpensAfter
    <2> QED BY <1>3, <2>1, <2>2, <2>3 DEF TickStep, Renew, Flush, Poll, Pcs
  <1>4. CASE ManagerStep(t)
    <2>1. CASE task[t].pc \in PushPcs
      <3>1. task[t].op = "open" <=> Opens(t)
        BY <2>1, OpensMeans DEF PushPcs
      <3>2. CASE Refreshed(t)
        BY <3>2, OpensAfter DEF Refreshed
      <3>3. UploadOk(t, resp[t].val) \/ UploadError(t) => FALSE
        BY OpensAfter DEF UploadOk, UploadError, OpenInsert
      <3>4. UploadConflict(t) => Opens(t)
        <4>1. task' = [task EXCEPT ![t].pc = "upload", ![t].content = local[I(t)],
                                   ![t].force = TRUE] => task'[t].op = task[t].op
          BY Facts DEF TaskTypes, TaskType
        <4> QED BY <3>1, <3>3, <4>1, OpensAfter DEF UploadConflict, Opens
      <3>5. CASE UploadPut(t) \/ UploadHead(t) \/ UploadRecreate(t) \/ UploadVerified(t)
        BY <3>1, <3>3, <3>4, <3>5, OpensAfter DEF UploadPut, UploadHead, UploadRecreate, UploadVerified
      <3> QED BY <1>4, <2>1, <3>2, <3>5
              DEF ManagerStep, OpenFailed, OpenAcquired, HeadAnswered, HeadGot, Released,
                  LeaseDeleted, Renewed, QueueDeleted, PollListed, BootListed, Got, Resumes, PushPcs
    <2>2. CASE OpenFailed(t) \/ Released(t) \/ Renewed(t) \/ Got(t)
      BY <2>2, OpensAfter DEF OpenFailed, Released, Renewed, Got
    <2>3. CASE OpenAcquired(t)
      BY <2>3, Facts DEF OpenAcquired, TaskOK, ControlOK, Opens
    <2>4. CASE HeadAnswered(t) \/ HeadGot(t)
      BY <2>4, OpensAfter, OpensMeans DEF HeadAnswered, HeadGot, HeadDone, OpenInsert, Resumes
    <2>5. CASE LeaseDeleted(t) \/ QueueDeleted(t) \/ PollListed(t) \/ BootListed(t)
      BY <2>5, OpensAfter, OpensMeans DEF LeaseDeleted, QueueDeleted, PollListed, BootListed, Resumes
    <2> QED BY <1>4, <2>1, <2>2, <2>3, <2>4, <2>5
            DEF ManagerStep, UploadPut, UploadHead, UploadRecreate, UploadVerified, Refreshed,
                Resumes, PushPcs
  <1>5. CASE LowerStep(t)
    BY <1>5 DEF LowerStep, Opens
  <1> QED BY <1>2, <1>3, <1>4, <1>5 DEF StepOf

LEMMA RefsSame ==
    ASSUME NEW i \in Instances, RefsOK(i), UNCHANGED fileLock, EntryStays(i),
           Refs(i)' = Refs(i), Total(i)' = Total(i)
    PROVE  RefsOK(i)'
  BY DEF RefsOK, EntryStays, Refs, Total

\* The descriptors after the operators that change them.
LEMMA TotalAfter ==
    ASSUME BaseInv, NEW i \in Instances
    PROVE  /\ Total(i) \in Nat /\ fds[i].linked \in Nat /\ fds[i].orphan \in Nat
           /\ UNCHANGED fds => Total(i)' = Total(i)
           /\ LocalUnlink(i) => Total(i)' = Total(i)
           /\ \A mode : mode # "existing" /\ LocalOpen(i, mode) => Total(i)' = Total(i) + 1
  <1>1. fds \in [Instances -> DescriptorType] /\ fds[i] \in DescriptorType
    BY DEF BaseInv, Types, InstanceTypes
  <1>2. fds[i].linked \in Nat /\ fds[i].orphan \in Nat
    BY <1>1 DEF DescriptorType
  <1>3. LocalUnlink(i) => Total(i)' = Total(i)
    BY <1>1, <1>2 DEF LocalUnlink, Total
  <1>4. \A mode : mode # "existing" /\ LocalOpen(i, mode) => Total(i)' = Total(i) + 1
    BY <1>1, <1>2 DEF LocalOpen, Total, DescriptorType
  <1> QED BY <1>2, <1>3, <1>4 DEF Total

\* An open inserts its entry and opens the file.
LEMMA InsertDescriptors ==
    ASSUME BaseInv, NEW t \in Tasks, StageOK(t), Opens(t), fileLock, RefsOK(I(t)),
           NEW base, OpenInsert(t, base), Total(I(t))' = Total(I(t)) + 1, UNCHANGED fileLock
    PROVE  RefsOK(I(t))'
  <1>1. leases \in [Instances -> EntryType] /\ I(t) \in Instances /\ Total(I(t)) \in Nat
    BY InstanceType, TotalAfter DEF BaseInv, Types, InstanceTypes
  <1>2. ~leases[I(t)].held
    BY DEF StageOK, Opens, Entry
  <1>3. Total(I(t)) = 0
    BY <1>2 DEF RefsOK, Total
  <1>4. leases'[I(t)].held = TRUE /\ leases'[I(t)].releasing = FALSE /\ leases'[I(t)].refcount = 1
    BY <1>1 DEF OpenInsert, NoLease
  <1> QED BY <1>1, <1>3, <1>4 DEF RefsOK, Total

-----------------------------------------------------------------------------
(***************************************************************************)
(* References are write descriptors: the actions.                          *)
(***************************************************************************)

LEMMA RefsApp ==
    ASSUME BaseInv, "existing" \notin OpenModes, NEW t \in Tasks, StageOK(t), RefsOK(I(t)),
           UNCHANGED fileLock, AppStep(t) \/ Boot(t) \/ TickStep(t)
    PROVE  RefsOK(I(t))'
  <1> DEFINE i == I(t)
  <1>1. i \in Instances /\ Refs(i) \in Nat /\ Total(i) \in Nat /\ leases[i] \in EntryType
        /\ leases \in [Instances -> EntryType] /\ fds \in [Instances -> DescriptorType]
        /\ fds[i] \in DescriptorType /\ InstanceOK(i)
    BY InstanceType, RefsAfter, TotalAfter, Facts DEF BaseInv, Types, InstanceTypes
  <1>2. CASE OpenWrite(t)
    <2>1. PICK mode \in OpenModes :
          \/ /\ ~fileLock
             /\ LocalOpen(i, mode)
             /\ UNCHANGED <<leases, task, call, req, resp>>
          \/ /\ fileLock /\ leases[i].held /\ ~leases[i].releasing
             /\ leases' = [leases EXCEPT ![i].refcount = @ + 1]
             /\ LocalOpen(i, mode)
             /\ UNCHANGED <<task, call, req, resp>>
          \/ UNCHANGED <<leases, local, fds>>
      BY <1>2 DEF OpenWrite
    <2>2. CASE ~fileLock /\ UNCHANGED leases
      BY <2>2 DEF RefsOK
    <2>3. CASE /\ fileLock /\ leases[i].held /\ ~leases[i].releasing
               /\ leases' = [leases EXCEPT ![i].refcount = @ + 1] /\ LocalOpen(i, mode)
      <3>1. Refs(i)' = Refs(i) + 1 /\ Total(i)' = Total(i) + 1 /\ EntryStays(i)
        BY <1>1, <2>3, RefsAfter, TotalAfter, EntryStaysAfter
      <3> QED BY <1>1, <2>3, <3>1 DEF RefsOK, EntryStays, Refs, Total
    <2>4. CASE UNCHANGED <<leases, local, fds>>
      BY <1>1, <2>4, RefsSame, RefsAfter, TotalAfter, EntryStaysAfter
    <2> QED BY <2>1, <2>2, <2>3, <2>4
  <1>3. CASE Write(t) \/ Unlink(t) \/ Fsync(t)
    <2>1. Refs(i)' = Refs(i) /\ EntryStays(i)
      BY <1>1, <1>3, RefsAfter, EntryStaysAfter DEF Write, Unlink, Fsync
    <2>2. Total(i)' = Total(i)
      BY <1>1, <1>3, TotalAfter DEF Write, Unlink, Fsync
    <2> QED BY <1>1, <2>1, <2>2, RefsSame
  <1>4. CASE Close(t)
    <2>1. Total(i)' = Total(i) - 1 /\ Total(i) > 0
      <3>1. PICK kind \in {k \in {"linked", "orphan"} : fds[i][k] > 0} :
              fds' = [fds EXCEPT ![i][kind] = @ - 1]
        BY <1>4 DEF Close
      <3>2. CASE kind = "linked"
        BY <1>1, <3>1, <3>2 DEF Total, DescriptorType
      <3>3. CASE kind = "orphan"
        BY <1>1, <3>1, <3>3 DEF Total, DescriptorType
      <3> QED BY <3>1, <3>2, <3>3
    <2>2. fileLock => leases[i].held /\ ~leases[i].releasing /\ Refs(i) = Total(i)
      BY <1>1, <2>1 DEF RefsOK, Total, Refs
    <2>3. CASE ~leases[i].held /\ UNCHANGED leases
      BY <2>2, <2>3 DEF RefsOK
    <2>4. CASE /\ leases[i].held /\ leases[i].refcount > 1
               /\ leases' = [leases EXCEPT ![i].refcount = @ - 1]
      <3>1. Refs(i)' = Refs(i) - 1 /\ EntryStays(i)
        BY <1>1, <2>4, RefsAfter, EntryStaysAfter
      <3>2. fileLock
        BY <2>4 DEF RefsOK
      <3> QED BY <1>1, <2>1, <2>2, <3>1, <3>2 DEF RefsOK, EntryStays, Refs, Total
    <2>5. CASE /\ leases[i].held /\ leases[i].refcount <= 1
               /\ leases' = [leases EXCEPT ![i].releasing = TRUE]
      <3>1. leases'[i].held = TRUE /\ leases'[i].releasing = TRUE
        BY <1>1, <2>5 DEF EntryType
      <3>2. fileLock /\ Total(i)' = 0
        BY <1>1, <2>1, <2>2, <2>5 DEF RefsOK, Refs
      <3> QED BY <3>1, <3>2 DEF RefsOK, Total
    <2> QED BY <1>4, <2>3, <2>4, <2>5 DEF Close
  <1>5. CASE Read(t) \/ Check(t) \/ Boot(t) \/ TickStep(t)
    <2>1. UNCHANGED <<leases, fds>>
      BY <1>5 DEF Read, Check, Boot, TickStep, Renew, Flush, Poll, localVars
    <2> QED BY <1>1, <2>1, RefsSame, RefsAfter, TotalAfter, EntryStaysAfter
  <1> QED BY <1>2, <1>3, <1>4, <1>5 DEF AppStep

LEMMA RefsManager ==
    ASSUME BaseInv, "existing" \notin OpenModes, NEW t \in Tasks, StageOK(t), RefsOK(I(t)),
           Opens(t) => fileLock, UNCHANGED fileLock, ManagerStep(t) \/ LowerStep(t)
    PROVE  RefsOK(I(t))'
  <1> DEFINE i == I(t)
  <1>1. i \in Instances /\ Refs(i) \in Nat /\ Total(i) \in Nat /\ leases[i] \in EntryType
        /\ leases \in [Instances -> EntryType] /\ fds \in [Instances -> DescriptorType]
        /\ fds[i] \in DescriptorType /\ task[t].mode # "existing"
    BY InstanceType, RefsAfter, TotalAfter, Facts
       DEF BaseInv, Types, InstanceTypes, TaskType
  <1>2. ASSUME UNCHANGED leases \/ (\E etag : Rebase(i, etag))
                  \/ leases' = [leases EXCEPT ![i].base = Absent],
               Total(i)' = Total(i)
        PROVE  RefsOK(i)'
    BY <1>1, <1>2, RefsSame, RefsAfter, EntryStaysAfter
  <1>3. CASE UploadPut(t) \/ UploadHead(t) \/ UploadRecreate(t) \/ UploadVerified(t)
    <2>1. task[t].pc \in PushPcs
      BY <1>3 DEF UploadPut, UploadHead, UploadRecreate, UploadVerified, Resumes, PushPcs
    <2>2. ASSUME NEW etag, UploadOk(t, etag) PROVE RefsOK(i)'
      <3>1. CASE task[t].op = "open"
        <4>1. Opens(t) /\ OpenInsert(t, etag) /\ LocalOpen(i, task[t].mode)
          BY <2>1, <2>2, <3>1, OpensMeans DEF UploadOk, PushPcs
        <4>2. Total(i)' = Total(i) + 1
          BY <1>1, <4>1, TotalAfter
        <4> QED BY <4>1, <4>2, InsertDescriptors
      <3>2. CASE task[t].op # "open"
        BY <1>1, <1>2, <2>2, <3>2, TotalAfter DEF UploadOk
      <3> QED BY <3>1, <3>2
    <2>3. ASSUME UNCHANGED <<leases, fds>> PROVE RefsOK(i)'
      BY <1>1, <1>2, <2>3, TotalAfter
    <2>4. UploadError(t) => UNCHANGED <<leases, fds>>
      BY DEF UploadError
    <2>5. UploadConflict(t) => UNCHANGED <<leases, fds>>
      BY <2>4 DEF UploadConflict, localVars
    <2> QED BY <1>3, <2>2, <2>3, <2>4, <2>5
            DEF UploadPut, UploadHead, UploadRecreate, UploadVerified, localVars
  <1>4. CASE Refreshed(t)
    <2>1. Total(i)' = Total(i)
      BY <1>1, <1>4, TotalAfter DEF Refreshed
    <2>2. UNCHANGED leases \/ (\E etag : Rebase(i, etag))
             \/ leases' = [leases EXCEPT ![i].base = Absent]
      BY <1>4 DEF Refreshed
    <2> QED BY <1>2, <2>1, <2>2
  <1>5. CASE OpenAcquired(t)
    <2>1. ~leases[i].held
      BY <1>5, Facts DEF OpenAcquired, TaskOK, ControlOK, StageOK, Entry
    <2> QED BY <1>1, <1>2, <1>5, <2>1, TotalAfter DEF OpenAcquired
  <1>6. CASE HeadAnswered(t) \/ HeadGot(t)
    <2>1. task[t].pc \in {"head", "get"}
      BY <1>6 DEF HeadAnswered, HeadGot, Resumes
    <2>2. CASE UNCHANGED <<leases, fds>>
      BY <1>1, <1>2, <2>2, TotalAfter
    <2>3. CASE task[t].op = "open" /\ ~UNCHANGED <<leases, fds>>
      <3>1. Opens(t)
        BY <2>1, <2>3, OpensMeans
      <3>2. \E base : OpenInsert(t, base)
        BY <1>6, <2>3 DEF HeadAnswered, HeadGot, HeadDone
      <3>3. LocalOpen(i, task[t].mode) \/ fds' = [fds EXCEPT ![i].linked = @ + 1]
        BY <1>6, <2>3 DEF HeadAnswered, HeadGot
      <3>4. Total(i)' = Total(i) + 1
        BY <1>1, <3>3, TotalAfter DEF Total, DescriptorType
      <3> QED BY <3>1, <3>2, <3>4, InsertDescriptors
    <2>4. CASE task[t].op # "open"
      <3>1. UNCHANGED leases
        BY <1>6, <2>4 DEF HeadAnswered, HeadGot, HeadDone
      <3>2. UNCHANGED fds \/ fds' = [fds EXCEPT ![i].linked = @]
        BY <1>6, <2>4 DEF HeadAnswered, HeadGot
      <3>3. Total(i)' = Total(i)
        BY <1>1, <3>2, TotalAfter DEF Total, DescriptorType
      <3> QED BY <1>2, <3>1, <3>3
    <2> QED BY <2>2, <2>3, <2>4
  <1>7. CASE Released(t)
    <2>1. UNCHANGED fds
      BY <1>7 DEF Released, StageOK
    <2>2. Total(i)' = Total(i)
      BY <1>1, <2>1, TotalAfter
    <2>3. CASE task[t].op = "close"
      <3>1. leases[i].held /\ leases[i].releasing
        BY <2>3 DEF StageOK, Entry
      <3>2. Total(i) = 0
        BY <3>1 DEF RefsOK, Total
      <3>3. leases'[i].held = FALSE
        BY <1>1, <1>7, <2>3 DEF Released, NoLease
      <3> QED BY <2>2, <3>2, <3>3 DEF RefsOK, Total
    <2>4. CASE task[t].op # "close"
      BY <1>2, <1>7, <2>2, <2>4 DEF Released
    <2> QED BY <2>3, <2>4
  <1>8. CASE Renewed(t)
    <2>1. Total(i)' = Total(i)
      BY <1>1, <1>8, TotalAfter DEF Renewed
    <2>2. /\ leases'[i].held = leases[i].held /\ leases'[i].releasing = leases[i].releasing
          /\ leases'[i].refcount = leases[i].refcount
      BY <1>1, <1>8 DEF Renewed, EntryType
    <2> QED BY <2>1, <2>2 DEF RefsOK, Total
  <1>9. CASE OpenFailed(t) \/ LeaseDeleted(t) \/ QueueDeleted(t) \/ PollListed(t) \/ BootListed(t)
             \/ Got(t) \/ LowerStep(t)
    <2>1. UNCHANGED leases
      BY <1>9 DEF OpenFailed, LeaseDeleted, QueueDeleted, PollListed, BootListed, Got, LowerStep,
                  localVars
    <2>2. UNCHANGED fds \/ LocalUnlink(i)
      BY <1>9 DEF OpenFailed, LeaseDeleted, QueueDeleted, PollListed, BootListed, Got, LowerStep,
                  localVars
    <2> QED BY <1>1, <1>2, <2>1, <2>2, TotalAfter
  <1> QED BY <1>3, <1>4, <1>5, <1>6, <1>7, <1>8, <1>9 DEF ManagerStep

LEMMA RefsNext ==
    ASSUME BaseInv, LeaseInv, LeaseInv', "existing" \notin OpenModes, RefsInv, [Next]_vars
    PROVE  RefsInv'
  <1>1. ASSUME NEW t \in Tasks, StepOf(t), UNCHANGED fileLock PROVE RefsInv'
    <2>1. StageOK(t) /\ RefsOK(I(t)) /\ (Opens(t) => fileLock) /\ I(t) \in Instances
      BY InstanceType DEF LeaseInv, LeaseOK, RefsInv, NoOpenWithoutLocks, Opens
    <2>2. RefsOK(I(t))'
      BY <1>1, <2>1, RefsApp, RefsManager DEF StepOf
    <2>3. Opens(t)' => fileLock'
      BY <1>1, <2>1, OpensWithLocks
    <2>4. TaskFrame(t) /\ InstanceFrame(I(t))
      BY <1>1, FrameOfStep
    <2>5. \A j \in Instances \ {I(t)} : RefsOK(j)'
      BY <1>1, <2>4 DEF RefsInv, RefsOK, InstanceFrame
    <2>6. \A u \in Tasks \ {t} : task'[u] = task[u]
      BY <2>4 DEF TaskFrame
    <2>7. task'[t].op = "open" /\ task'[t].pc # "release" => fileLock'
      BY <2>3 DEF LeaseInv, LeaseOK, StageOK, Opens
    <2> QED BY <1>1, <2>2, <2>5, <2>6, <2>7 DEF RefsInv, NoOpenWithoutLocks
  <1>2. CASE UNCHANGED <<leases, fds, task, fileLock>>
    BY <1>2 DEF RefsInv, RefsOK, NoOpenWithoutLocks
  <1>3. ASSUME NEW i \in Instances, Crash(i), UNCHANGED fileLock PROVE RefsInv'
    <2>1. leases'[i] = NoLease /\ fds'[i] = [linked |-> 0, orphan |-> 0]
      BY <1>3 DEF Crash, BaseInv, Types, InstanceTypes
    <2>2. RefsOK(i)'
      BY <2>1 DEF RefsOK, NoLease
    <2>3. \A j \in Instances \ {i} : RefsOK(j)'
      BY <1>3 DEF RefsInv, RefsOK, Crash, BaseInv, Types, InstanceTypes
    <2>4. NoOpenWithoutLocks'
      BY <1>3 DEF RefsInv, NoOpenWithoutLocks, Crash, Idle
    <2> QED BY <2>2, <2>3, <2>4 DEF RefsInv
  <1> QED BY <1>1, <1>2, <1>3 DEF Next, StepOf, Tick, vars, localVars

\* At rest, the reference count of a lease is the number of write descriptors:
\* on_open_write and on_close count alike, and a lease outlives neither its
\* last descriptor nor the failure of an open, as long as opens do not fail
\* locally after the hook (mode "existing" may).
THEOREM LeaseHasDescriptorsHolds ==
    ASSUME SingleThreaded, "existing" \notin OpenModes
    PROVE  Spec => []LeaseHasDescriptors
  <1>1. Init => RefsInv
    BY DEF Init, RefsInv, RefsOK, NoOpenWithoutLocks, NoLease, Idle
  <1>2. BaseInv /\ LeaseInv /\ LeaseInv' /\ RefsInv /\ [Next]_vars => RefsInv'
    BY RefsNext
  <1>3. BaseInv /\ LeaseInv /\ RefsInv => LeaseHasDescriptors
    <2> SUFFICES ASSUME BaseInv, LeaseInv, RefsInv, NEW i \in Instances, leases[i].held, Settled(i)
                 PROVE  leases[i].refcount = fds[i].linked + fds[i].orphan
      BY DEF LeaseHasDescriptors
    <2>1. PICK t \in Tasks : I(t) = i
      BY DEF LeaseInv, OwnedEntries
    <2>2. task[t].op = "none"
      BY <2>1, Facts DEF Settled, TaskOK, ControlOK
    <2>3. ~leases[i].releasing
      BY <2>1, <2>2 DEF LeaseInv, LeaseOK, StageOK, Entry
    <2> QED BY <2>3 DEF RefsInv, RefsOK
  <1> QED BY <1>1, <1>2, <1>3, BaseIsInvariant, LeaseIsInvariant, PTL DEF Spec

-----------------------------------------------------------------------------
(***************************************************************************)
(* Data: what the moves of a task need.                                    *)
(***************************************************************************)

\* What a step has to keep for the task that makes it.
MoverOK(t) == PushOK(t) /\ FlowOK(t) /\ CopyOK(I(t))

\* t ends its operation.
LEMMA FlowFinish ==
    ASSUME BaseInv, NEW t \in Tasks, Finish(t), Marked(I(t))'
    PROVE  PushOK(t)' /\ FlowOK(t)'
  <1>1. task'[t] = Idle /\ req'[t] = NoRequest /\ resp'[t] = NoResponse
    BY Facts DEF TaskTypes, Finish, Send
  <1>2. /\ task'[t].pc = "idle" /\ task'[t].op = "none" /\ req'[t].op = "none"
        /\ resp'[t].status = "none"
    BY <1>1 DEF Idle, NoRequest, NoResponse
  <1>3. PushOK(t)' /\ UploadFlow(t)' /\ QueryFlow(t)' /\ CopyFlow(t)'
    BY <1>2 DEF PushOK, UploadFlow, QueryFlow, CopyFlow
  <1> QED BY <1>3 DEF FlowOK

\* t has nothing to wait for.
LEMMA FlowReady ==
    ASSUME BaseInv, NEW t \in Tasks, Ready(t), UNCHANGED <<task, req, resp, fileLock, store>>,
           PushOK(t), FlowOK(t), Marked(I(t))'
    PROVE  PushOK(t)' /\ FlowOK(t)'
  <1>1. task[t].pc = "idle" /\ task[t].op = "none"
    BY Alive DEF Ready
  <1>2. PushOK(t)'
    BY DEF PushOK
  <1>3. UploadFlow(t)' /\ QueryFlow(t)' /\ CopyFlow(t)'
    BY <1>1 DEF FlowOK, UploadFlow, QueryFlow, CopyFlow, Stored, KeyOf, object
  <1> QED BY <1>2, <1>3 DEF FlowOK

\* t waits for a lease call.
LEMMA FlowLock ==
    ASSUME NEW t \in Tasks, task'[t].pc \in LockPcs, resp'[t].status = "none",
           req'[t].op # "none" => req'[t].key = "lock",
           task'[t].op \in {"open", "close", "renew"}, Marked(I(t))',
           task'[t].op = "close" => InSync(I(t))'
    PROVE  PushOK(t)' /\ FlowOK(t)'
  <1>1. PushOK(t)' /\ UploadFlow(t)' /\ QueryFlow(t)' /\ CopyFlow(t)'
    BY DEF PushOK, UploadFlow, QueryFlow, CopyFlow, LockPcs, KeyOf
  <1> QED BY <1>1 DEF FlowOK

LEMMA FlowRelease ==
    ASSUME BaseInv, NEW t \in Tasks, NEW op \in {"open", "close"}, NEW etag,
           StartRelease(t, op, etag), Marked(I(t))', op = "close" => InSync(I(t))'
    PROVE  PushOK(t)' /\ FlowOK(t)'
  <1>1. TaskTypes /\ task[t] \in TaskType
    BY Facts
  <1>2. /\ task'[t] = [task[t] EXCEPT !.op = op, !.pc = "release"]
        /\ req'[t] = DeleteIf("lock", etag) /\ resp'[t] = NoResponse
    <2>1. GivesBack(t, op, etag)
      BY <1>1, ReleaseGivesBack
    <2> QED BY <1>1, <2>1, MovesTo DEF GivesBack
  <1>3. /\ task'[t].op = op /\ task'[t].pc = "release" /\ req'[t].key = "lock"
        /\ resp'[t].status = "none"
    BY <1>1, <1>2 DEF TaskType, DeleteIf, NoResponse
  <1> QED BY <1>3, FlowLock DEF LockPcs

\* t pushes the copy over the cached version.
LEMMA FlowPush ==
    ASSUME BaseInv, NEW t \in Tasks, NEW op \in {"open", "close", "fsync", "write", "flush"},
           NEW content, NEW base, NEW snap, StartUpload(t, op, content, base, snap),
           content = local'[I(t)], base = cache'[I(t)], Within(base, content)
    PROVE  PushOK(t)' /\ FlowOK(t)'
  <1>1. TaskTypes /\ task[t] \in TaskType
    BY Facts
  <1>2. /\ task'[t].op = op /\ task'[t].pc = "upload" /\ task'[t].content = content
        /\ task'[t].base = base /\ task'[t].force = FALSE
    BY <1>1 DEF StartUpload, TaskTypes, TaskType
  <1>3. req'[t] = PutIf("file", base, content) /\ resp'[t] = NoResponse
    BY <1>1 DEF StartUpload, Send, TaskTypes
  <1>4. /\ req'[t].op = "put" /\ req'[t].etag = base /\ req'[t].body = content
        /\ req'[t].cond # "none" /\ resp'[t].status = "none"
    BY <1>3 DEF PutIf, NoResponse
  <1>5. PushOK(t)'
    BY <1>4 DEF PushOK
  <1>6. UploadFlow(t)'
    BY <1>2, <1>3, <1>4 DEF UploadFlow
  <1>7. QueryFlow(t)' /\ CopyFlow(t)'
    BY <1>2, <1>4 DEF QueryFlow, CopyFlow, Pushing
  <1> QED BY <1>5, <1>6, <1>7 DEF FlowOK

\* t asks for the object.
LEMMA FlowQuery ==
    ASSUME BaseInv, NEW t \in Tasks,
           task'[t].pc \in {"uploadHead", "refresh", "head", "get", "list"},
           Send(t, Get("file")),
           task'[t].pc \in {"uploadHead", "refresh"} => object' # Absent /\ local'[I(t)] # Absent,
           task'[t].pc \in {"head", "get", "list"} => Marked(I(t))',
           task'[t].op = "open" /\ task'[t].pc \in {"head", "get"} => queue'[I(t)] = <<>>,
           task'[t].op \in {"read", "check", "boot"} => ~leases'[I(t)].held,
           task'[t].op = "poll" /\ task'[t].pc = "get" => ~leases'[I(t)].held
    PROVE  PushOK(t)' /\ FlowOK(t)'
  <1>1. req'[t] = Get("file") /\ resp'[t] = NoResponse
    BY Facts DEF TaskTypes, Send
  <1>2. req'[t].op = "get" /\ resp'[t].status = "none"
    BY <1>1 DEF Get, NoResponse
  <1>3. PushOK(t)' /\ UploadFlow(t)'
    BY <1>2 DEF PushOK, UploadFlow
  <1>4. QueryFlow(t)'
    BY <1>2 DEF QueryFlow
  <1>5. CopyFlow(t)'
    BY DEF CopyFlow, Pushing
  <1> QED BY <1>3, <1>4, <1>5 DEF FlowOK

\* t goes on with its operation and asks for the object.
LEMMA FlowAwait ==
    ASSUME BaseInv, NEW t \in Tasks, NEW pc \in {"uploadHead", "refresh", "head", "get"},
           Await(t, pc, Get("file")),
           pc \in {"uploadHead", "refresh"} => object' # Absent /\ local'[I(t)] # Absent,
           pc \in {"head", "get"} => Marked(I(t))',
           task[t].op = "open" /\ pc \in {"head", "get"} => queue'[I(t)] = <<>>,
           task[t].op \in {"read", "check", "boot"} => ~leases'[I(t)].held,
           task[t].op = "poll" /\ pc = "get" => ~leases'[I(t)].held
    PROVE  PushOK(t)' /\ FlowOK(t)'
  <1>1. task'[t].pc = pc /\ task'[t].op = task[t].op
    BY Facts DEF TaskTypes, TaskType, Await
  <1>2. Send(t, Get("file"))
    BY DEF Await
  <1> QED BY <1>1, <1>2, FlowQuery

\* The push is over, and the copy is what is stored.
LEMMA FlowProceed ==
    ASSUME BaseInv, NEW t \in Tasks, Proceed(t), InSync(I(t))'
    PROVE  PushOK(t)' /\ FlowOK(t)'
  <1>1. Marked(I(t))'
    BY DEF Marked
  <1>2. CASE task[t].op = "open"
    BY <1>1, <1>2, FlowRelease DEF Proceed, OpenAbort
  <1>3. CASE task[t].op = "close"
    BY <1>1, <1>3, FlowRelease DEF Proceed
  <1>4. CASE task[t].op \notin {"open", "close"}
    BY <1>1, <1>4, FlowFinish DEF Proceed
  <1> QED BY <1>2, <1>3, <1>4

-----------------------------------------------------------------------------
(***************************************************************************)
(* Data: what the operators on the copy and on the entry do.               *)
(***************************************************************************)

\* As far as the data go, the entry of i stays.
BaseStays(i) ==
    /\ leases'[i].held = leases[i].held
    /\ leases'[i].base = leases[i].base
    /\ leases'[i].dirty = leases[i].dirty
    /\ leases'[i].pendingDelete = leases[i].pendingDelete

LEMMA BaseStaysAfter ==
    ASSUME BaseInv, NEW i \in Instances
    PROVE  /\ UNCHANGED leases => BaseStays(i)
           /\ leases' = [leases EXCEPT ![i].refcount = @ - 1] => BaseStays(i)
           /\ leases' = [leases EXCEPT ![i].refcount = @ + 1] => BaseStays(i)
           /\ leases' = [leases EXCEPT ![i].releasing = TRUE] => BaseStays(i)
  <1>1. leases \in [Instances -> EntryType] /\ leases[i] \in EntryType
    BY DEF BaseInv, Types, InstanceTypes
  <1> QED BY <1>1 DEF BaseStays, EntryType

LEMMA RebaseData ==
    ASSUME BaseInv, NEW i \in Instances, NEW etag, Rebase(i, etag)
    PROVE  /\ leases'[i].held = leases[i].held
           /\ leases[i].held => leases'[i].base = etag
           /\ leases'[i].pendingDelete = leases[i].pendingDelete
  <1>1. leases \in [Instances -> EntryType] /\ leases[i] \in EntryType
    BY DEF BaseInv, Types, InstanceTypes
  <1> QED BY <1>1 DEF Rebase, EntryType

LEMMA EnqueueUploadData ==
    ASSUME BaseInv, NEW i \in Instances, EnqueueUpload(i)
    PROVE  /\ leases'[i].held = leases[i].held
           /\ leases'[i].base = leases[i].base
           /\ leases[i].held => leases'[i].dirty /\ queue'[i] = queue[i]
           /\ ~leases[i].held => queue'[i] = <<Upload>>
           /\ ~leases[i].pendingDelete => ~leases'[i].pendingDelete
           /\ Marked(i)'
           /\ (\A n \in 1 .. Len(queue[i]) : queue[i][n] = Upload) =>
                 \A n \in 1 .. Len(queue'[i]) : queue'[i][n] = Upload
  <1>1. leases \in [Instances -> EntryType] /\ leases[i] \in EntryType
        /\ queue \in [Instances -> Seq(OperationType)]
    BY DEF BaseInv, Types, InstanceTypes
  <1>2. CASE leases[i].held
    <2>1. /\ leases'[i].held = leases[i].held /\ leases'[i].base = leases[i].base
          /\ leases'[i].dirty = TRUE /\ leases'[i].pendingDelete = FALSE /\ queue'[i] = queue[i]
      BY <1>1, <1>2 DEF EnqueueUpload, EntryType
    <2> QED BY <1>2, <2>1 DEF Marked
  <1>3. CASE ~leases[i].held
    <2>1. queue'[i] = <<Upload>> /\ leases' = leases
      BY <1>1, <1>3 DEF EnqueueUpload
    <2>2. <<Upload>> # <<>> /\ \A n \in 1 .. Len(<<Upload>>) : <<Upload>>[n] = Upload
      OBVIOUS
    <2> QED BY <1>3, <2>1, <2>2 DEF Marked
  <1> QED BY <1>2, <1>3

LEMMA InsertData ==
    ASSUME BaseInv, NEW t \in Tasks, NEW base, OpenInsert(t, base)
    PROVE  LET l == leases'[I(t)] IN l.held /\ l.base = base /\ ~l.dirty /\ ~l.pendingDelete
  <1>1. leases \in [Instances -> EntryType] /\ I(t) \in Instances
    BY InstanceType DEF BaseInv, Types, InstanceTypes
  <1> QED BY <1>1 DEF OpenInsert, NoLease

\* A file that is not there has never been exchanged: opening creates it.
LEMMA OpenData ==
    ASSUME BaseInv, NEW i \in Instances, NEW mode, mode # "truncate", LocalOpen(i, mode),
           Within(cache[i], local[i])
    PROVE  /\ Within(cache[i], local'[i])
           /\ local[i] # Absent => local'[i] = local[i]
           /\ cache'[i] = cache[i] /\ InSync(i) => InSync(i)'
           /\ cache'[i] = cache[i] /\ local[i] = Absent => InSync(i)'
           /\ fds'[i].orphan = fds[i].orphan
  <1>1. fds \in [Instances -> DescriptorType] /\ fds[i] \in DescriptorType
        /\ local \in [Instances -> Contents]
    BY DEF BaseInv, Types, InstanceTypes
  <1>2. \/ local'[i] = local[i]
        \/ local[i] = Absent /\ local'[i] = EmptyFile
    BY <1>1 DEF LocalOpen
  <1>3. fds'[i].orphan = fds[i].orphan
    BY <1>1 DEF LocalOpen, DescriptorType
  <1> QED BY <1>2, <1>3 DEF Within, InSync

-----------------------------------------------------------------------------
(***************************************************************************)
(* Data: the actions of the applications and of the background tick.       *)
(***************************************************************************)

LEMMA OpenWriteData ==
    ASSUME BaseInv, "truncate" \notin OpenModes, NEW t \in Tasks, MoverOK(t),
           OpenWrite(t), UNCHANGED fileLock
    PROVE  MoverOK(t)'
  <1> DEFINE i == I(t)
  <1>1. /\ i \in Instances /\ Ready(t) /\ UNCHANGED <<store, object, cache, queue>>
        /\ TaskTypes /\ CopyOK(i) /\ Marked(i) /\ task[t].op = "none"
    BY Facts, Alive DEF OpenWrite, MoverOK, FlowOK, CopyFlow, Pushing, Ready, object
  <1>2. BaseStays(i) /\ (Marked(i)' \/ ~InSync(i)')
    <2>1. BaseStays(i)
      BY <1>1, BaseStaysAfter DEF OpenWrite
    <2> QED BY <2>1 DEF Marked
  <1>3. PICK mode \in OpenModes :
          \/ LocalOpen(i, mode) /\ UNCHANGED <<task, call, req, resp>>
          \/ /\ task' = [task EXCEPT ![t] = [Idle EXCEPT !.op = "open", !.pc = "acquire",
                                                         !.mode = mode]]
             /\ CallAcquire(t)
             /\ UNCHANGED <<leases, local, fds>>
    BY DEF OpenWrite
  <1>4. CASE LocalOpen(i, mode) /\ UNCHANGED <<task, call, req, resp>>
    <2>1. /\ Within(cache[i], local'[i]) /\ (InSync(i) => InSync(i)')
          /\ fds'[i].orphan = fds[i].orphan
      BY <1>1, <1>4, OpenData DEF CopyOK
    <2>2. CopyOK(i)'
      BY <1>1, <1>2, <2>1 DEF CopyOK, BaseStays, Stored
    <2>3. Marked(i)'
      BY <1>1, <1>2, <2>1 DEF Marked, BaseStays
    <2>4. PushOK(t)' /\ FlowOK(t)'
      BY <1>1, <1>4, <2>3, FlowReady DEF MoverOK
    <2> QED BY <2>2, <2>4 DEF MoverOK
  <1>5. CASE /\ task' = [task EXCEPT ![t] = [Idle EXCEPT !.op = "open", !.pc = "acquire",
                                                         !.mode = mode]]
             /\ CallAcquire(t)
             /\ UNCHANGED <<leases, local, fds>>
    <2>1. CopyOK(i)' /\ Marked(i)'
      BY <1>1, <1>5 DEF CopyOK, Marked, InSync, Stored
    <2>2. task'[t].pc = "acquire" /\ task'[t].op = "open"
      BY <1>1, <1>5 DEF TaskTypes, Idle
    <2>3. req'[t] = Get("lock") /\ resp'[t] = NoResponse
      BY <1>1, <1>5 DEF TaskTypes, CallAcquire, Send
    <2>4. req'[t].key = "lock" /\ resp'[t].status = "none"
      BY <2>3 DEF Get, NoResponse
    <2> QED BY <2>1, <2>2, <2>4, FlowLock DEF MoverOK, LockPcs
  <1> QED BY <1>3, <1>4, <1>5

LEMMA WriteData ==
    ASSUME BaseInv, NEW t \in Tasks, MoverOK(t), Write(t), UNCHANGED fileLock
    PROVE  MoverOK(t)'
  <1> DEFINE i == I(t)
             content == File(local[i].updates \union {used.write + 1})
  <1>1. /\ i \in Instances /\ Ready(t) /\ UNCHANGED <<store, object, cache, fds, call>>
        /\ CopyOK(i) /\ local \in [Instances -> Contents] /\ local[i] \in Contents
        /\ InstanceOK(i)
    BY Facts DEF Write, MoverOK, object, BaseInv, Types, InstanceTypes
  <1>2. fds[i].linked > 0 /\ local' = [local EXCEPT ![i] = content]
    <2>1. PICK c \in (IF fds[i].linked > 0 THEN {content} ELSE {})
                      \union (IF fds[i].orphan > 0 /\ OrphanWrites THEN {local[i]} ELSE {}) :
             local' = [local EXCEPT ![i] = c]
      BY DEF Write
    <2>2. ~(fds[i].orphan > 0)
      BY <1>1 DEF CopyOK
    <2> QED BY <2>1, <2>2
  <1>3. local[i] # Absent /\ local'[i] = content /\ content.updates = local[i].updates \union {used.write + 1}
    BY <1>1, <1>2 DEF InstanceOK, File
  <1>4. content # Absent
    <2>1. /\ used' \in UsedType /\ used'.write = used.write + 1
      <3>1. used'.write = used.write + 1 /\ used.write < MaxWrites
        BY Facts DEF Write, UsedType
      <3>2. used.write \in 0 .. MaxWrites
        BY Facts DEF UsedType
      <3>3. used.write + 1 \in 0 .. MaxWrites
        BY <3>1, <3>2, ManagerAssumption
      <3> QED BY <3>1, <3>3, Facts DEF Write, UsedType
    <2>2. used.write + 1 \in 1 .. MaxWrites
      BY <2>1, Facts, ManagerAssumption DEF UsedType
    <2>3. local[i].updates \in SUBSET (1 .. MaxWrites)
      BY <1>1, <1>3 DEF Contents, Files
    <2>4. content \in Files
      BY <2>2, <2>3 DEF File, Files
    <2> QED BY <2>4, AbsentAssumption
  <1>5. Within(cache[i], content)
    BY <1>1, <1>3, <1>4 DEF CopyOK, Within
  <1> HIDE DEF content
  <1>6. CASE ~Realtime
    <2>1. EnqueueUpload(i) /\ UNCHANGED <<task, req, resp>>
      BY <1>1, <1>6 DEF Write
    <2>2. /\ leases'[i].held = leases[i].held /\ leases'[i].base = leases[i].base
          /\ ~leases'[i].pendingDelete /\ Marked(i)'
          /\ \A n \in 1 .. Len(queue'[i]) : queue'[i][n] = Upload
      BY <1>1, <2>1, EnqueueUploadData DEF CopyOK
    <2>3. CopyOK(i)'
      BY <1>1, <1>3, <1>5, <2>2 DEF CopyOK, Stored
    <2> QED BY <1>1, <2>1, <2>2, <2>3, FlowReady DEF MoverOK
  <1>7. CASE Realtime
    <2>1. /\ StartUpload(t, "write", content, CondForUpload(i), Absent)
          /\ UNCHANGED <<leases, queue>>
      BY <1>1, <1>2, <1>3, <1>4, <1>7 DEF Write, CopyOK, content
    <2>2. CondForUpload(i) = cache'[i]
      BY <1>1 DEF CondForUpload, CopyOK
    <2>3. CopyOK(i)'
      BY <1>1, <1>3, <1>5, <2>1 DEF CopyOK, Stored
    <2>4. PushOK(t)' /\ FlowOK(t)'
      BY <1>1, <1>3, <1>5, <2>1, <2>2, FlowPush
    <2> QED BY <2>3, <2>4 DEF MoverOK
  <1> QED BY <1>6, <1>7

\* flush_lease on a lease whose base is the cached version.
LEMMA FlushLeaseData ==
    ASSUME BaseInv, NEW t \in Tasks, NEW op \in {"close", "fsync"}, NEW l, FlushLease(t, op, l),
           l.pendingDelete = FALSE, l.base = cache[I(t)], CopyOK(I(t)), UNCHANGED local,
           Marked(I(t))', op = "close" /\ (l.dirty => local[I(t)] = Absent) => InSync(I(t))'
    PROVE  PushOK(t)' /\ FlowOK(t)' /\ UNCHANGED cache
  <1>1. CASE l.dirty /\ local[I(t)] # Absent
    <2>1. StartUpload(t, op, local[I(t)], l.base, l.etag) /\ UNCHANGED cache
      BY <1>1 DEF FlushLease
    <2> QED BY <2>1, FlowPush DEF CopyOK
  <1>2. CASE ~(l.dirty /\ local[I(t)] # Absent)
    <2>1. /\ UNCHANGED cache
          /\ IF op = "close" THEN StartRelease(t, op, l.etag) ELSE Finish(t) /\ UNCHANGED call
      BY <1>2 DEF FlushLease
    <2> QED BY <1>2, <2>1, FlowRelease, FlowFinish
  <1> QED BY <1>1, <1>2

LEMMA FsyncData ==
    ASSUME BaseInv, NEW t \in Tasks, MoverOK(t), Fsync(t), UNCHANGED fileLock
    PROVE  MoverOK(t)'
  <1> DEFINE i == I(t)
             l == IF FsyncMarks /\ leases[i].held
                  THEN [leases[i] EXCEPT !.dirty = TRUE, !.pendingDelete = FALSE] ELSE leases[i]
  <1>1. /\ i \in Instances /\ Ready(t) /\ UNCHANGED <<store, object, local, fds>>
        /\ CopyOK(i) /\ Marked(i) /\ leases[i] \in EntryType
    BY Facts DEF Fsync, MoverOK, FlowOK, CopyFlow, Pushing, Ready, object
  <1>2. /\ l.held = leases[i].held /\ l.base = leases[i].base /\ l.pendingDelete = FALSE
    BY <1>1 DEF CopyOK, EntryType
  <1>3. /\ leases'[i].held = leases[i].held /\ leases'[i].base = leases[i].base
        /\ ~leases'[i].pendingDelete
        /\ \A n \in 1 .. Len(queue'[i]) : queue'[i][n] = Upload
    BY <1>1, EnqueueUploadData DEF Fsync, CopyOK
  <1>4. cache'[i] = cache[i] => Marked(i)'
    <2>1. CASE FsyncMarks
      BY <1>1, <2>1, EnqueueUploadData DEF Fsync
    <2>2. CASE ~FsyncMarks
      BY <1>1, <2>2 DEF Fsync, Marked, InSync
    <2> QED BY <2>1, <2>2
  <1>5. ASSUME PushOK(t)', FlowOK(t)', UNCHANGED cache PROVE MoverOK(t)'
    <2>1. CopyOK(i)'
      BY <1>1, <1>3, <1>5 DEF CopyOK, Stored
    <2> QED BY <1>5, <2>1 DEF MoverOK
  <1>6. CASE l.held
    <2>1. FlushLease(t, "fsync", l)
      BY <1>6 DEF Fsync
    <2>2. l.base = cache[i]
      BY <1>1, <1>2, <1>6 DEF CopyOK
    <2>3. UNCHANGED cache
      BY <1>2, <2>1 DEF FlushLease
    <2> HIDE DEF l
    <2> QED BY <1>1, <1>2, <1>4, <1>5, <2>1, <2>2, <2>3, FlushLeaseData
  <1>7. CASE ~l.held /\ local[i] # Absent
    <2>1. StartUpload(t, "fsync", local[i], cache[i], Absent) /\ UNCHANGED cache
      BY <1>7 DEF Fsync
    <2> QED BY <1>1, <1>5, <2>1, FlowPush DEF CopyOK
  <1>8. CASE ~l.held /\ local[i] = Absent
    <2>1. UNCHANGED <<task, req, resp, call, cache>>
      BY <1>8 DEF Fsync
    <2> QED BY <1>1, <1>4, <1>5, <2>1, FlowReady DEF MoverOK
  <1> QED BY <1>6, <1>7, <1>8

LEMMA CloseData ==
    ASSUME BaseInv, NEW t \in Tasks, MoverOK(t), Close(t), UNCHANGED fileLock
    PROVE  MoverOK(t)'
  <1> DEFINE i == I(t)
             l == leases[i]
  <1>1. /\ i \in Instances /\ Ready(t) /\ UNCHANGED <<store, object, local, queue>>
        /\ CopyOK(i) /\ Marked(i)
        /\ fds \in [Instances -> DescriptorType] /\ fds[i] \in DescriptorType
    BY Facts DEF Close, MoverOK, FlowOK, CopyFlow, Pushing, Ready, object,
                 BaseInv, Types, InstanceTypes
  <1>2. fds'[i].orphan = 0
    <2>1. PICK kind \in {k \in {"linked", "orphan"} : fds[i][k] > 0} :
             fds' = [fds EXCEPT ![i][kind] = @ - 1]
      BY DEF Close
    <2>2. kind = "linked"
      BY <1>1, <2>1 DEF CopyOK
    <2> QED BY <1>1, <2>1, <2>2 DEF CopyOK, DescriptorType
  <1>3. BaseStays(i)
    BY <1>1, BaseStaysAfter DEF Close
  <1>4. cache'[i] = cache[i] => Marked(i)'
    BY <1>1, <1>3 DEF Marked, InSync, BaseStays
  <1>5. ASSUME PushOK(t)', FlowOK(t)', UNCHANGED cache PROVE MoverOK(t)'
    <2>1. CopyOK(i)'
      BY <1>1, <1>2, <1>3, <1>5 DEF CopyOK, Stored, BaseStays
    <2> QED BY <1>5, <2>1 DEF MoverOK
  <1>6. CASE UNCHANGED <<cache, task, call, req, resp>>
    BY <1>1, <1>4, <1>5, <1>6, FlowReady DEF MoverOK
  <1>7. CASE l.held /\ FlushLease(t, "close", l)
    <2>1. UNCHANGED cache /\ l.base = cache[i] /\ l.pendingDelete = FALSE
      BY <1>1, <1>7, Facts DEF CopyOK, FlushLease, EntryType
    <2>2. (l.dirty => local[i] = Absent) => InSync(i)'
      BY <1>1, <1>7, <2>1 DEF Marked, InSync, CopyOK, Within
    <2> QED BY <1>1, <1>4, <1>5, <1>7, <2>1, <2>2, FlushLeaseData
  <1> QED BY <1>6, <1>7 DEF Close

LEMMA QueryData ==
    ASSUME BaseInv, NEW t \in Tasks, MoverOK(t), StageOK(t), UNCHANGED fileLock,
           Read(t) \/ Check(t) \/ Poll(t) \/ Boot(t),
           status[I(t)] = "new" => ~leases[I(t)].held
    PROVE  MoverOK(t)'
  <1> DEFINE i == I(t)
  <1>1. /\ i \in Instances /\ UNCHANGED <<store, object, local, cache, leases, queue, fds>>
        /\ CopyOK(i) /\ Marked(i) /\ Send(t, Get("file")) /\ TaskTypes
    BY Facts DEF Read, Check, Poll, Boot, MoverOK, FlowOK, CopyFlow, Pushing, Ready, object,
                 localVars
  <1>2. CopyOK(i)' /\ Marked(i)'
    BY <1>1 DEF CopyOK, Stored, Marked, InSync
  <1>3. \/ task'[t].op \in {"read", "check", "boot"} /\ ~leases[i].held
        \/ task'[t].op = "poll" /\ task'[t].pc = "list"
    BY <1>1 DEF Read, Check, Poll, Boot, TaskTypes, TaskType
  <1>4. task'[t].pc \in {"get", "head", "list"}
    BY <1>1 DEF Read, Check, Poll, Boot, TaskTypes, TaskType
  <1>5. PushOK(t)' /\ FlowOK(t)'
    BY <1>1, <1>2, <1>3, <1>4, FlowQuery
  <1> QED BY <1>2, <1>5 DEF MoverOK

LEMMA RenewData ==
    ASSUME BaseInv, NEW t \in Tasks, MoverOK(t), UNCHANGED fileLock, Renew(t)
    PROVE  MoverOK(t)'
  <1> DEFINE i == I(t)
  <1>1. /\ i \in Instances /\ UNCHANGED <<store, object, local, cache, leases, queue, fds>>
        /\ CopyOK(i) /\ Marked(i) /\ TaskTypes
    BY Facts DEF Renew, MoverOK, FlowOK, CopyFlow, Pushing, Ready, object, localVars
  <1>2. CopyOK(i)' /\ Marked(i)'
    BY <1>1 DEF CopyOK, Stored, Marked, InSync
  <1>3. task'[t].op = "renew" /\ task'[t].pc = "renew"
    BY <1>1 DEF Renew, TaskTypes, TaskType
  <1>4. req'[t].key = "lock" /\ resp'[t].status = "none"
    <2>1. \E r : Send(t, r) /\ r.key = "lock"
      BY DEF Renew, CallRenew, PutIf
    <2> QED BY <1>1, <2>1 DEF TaskTypes, Send, NoResponse
  <1>5. PushOK(t)' /\ FlowOK(t)'
    BY <1>2, <1>3, <1>4, FlowLock DEF LockPcs
  <1> QED BY <1>2, <1>5 DEF MoverOK

\* A queue of uploads without its first one, which may go to the back.
LEMMA UploadsLeft ==
    ASSUME NEW q \in Seq(OperationType), q # <<>>, \A n \in 1 .. Len(q) : q[n] = Upload
    PROVE  /\ Head(q) = Upload
           /\ \A n \in 1 .. Len(Tail(q)) : Tail(q)[n] = Upload
           /\ LET p == Append(Tail(q), Upload) IN
              p # <<>> /\ \A n \in 1 .. Len(p) : p[n] = Upload
  <1>1. Len(q) \in Nat \ {0} /\ Head(q) = q[1]
    OBVIOUS
  <1>2. Head(q) = Upload
    BY <1>1
  <1>3. /\ Tail(q) \in Seq(OperationType) /\ Len(Tail(q)) = Len(q) - 1
        /\ \A n \in 1 .. Len(q) - 1 : Tail(q)[n] = q[n + 1]
    OBVIOUS
  <1>4. \A n \in 1 .. Len(Tail(q)) : Tail(q)[n] = Upload
    BY <1>1, <1>3
  <1>5. Upload \in OperationType
    BY <1>1, <1>2
  <1>6. LET p == Append(Tail(q), Upload) IN
           p # <<>> /\ \A n \in 1 .. Len(p) : p[n] = Upload
    <2> DEFINE r == Tail(q)
               p == Append(r, Upload)
    <2> HIDE DEF r
    <2>1. r \in Seq(OperationType) /\ \A n \in 1 .. Len(r) : r[n] = Upload
      BY <1>3, <1>4 DEF r
    <2>2. p # <<>> /\ Len(p) = Len(r) + 1 /\ p[Len(r) + 1] = Upload
          /\ \A n \in 1 .. Len(r) : p[n] = r[n]
      BY <1>5, <2>1
    <2>3. \A n \in 1 .. Len(p) : p[n] = Upload
      BY <2>1, <2>2
    <2> QED BY <2>2, <2>3 DEF r
  <1> QED BY <1>2, <1>4, <1>6

LEMMA FlushData ==
    ASSUME BaseInv, NEW t \in Tasks, MoverOK(t), UNCHANGED fileLock, Flush(t)
    PROVE  MoverOK(t)'
  <1> DEFINE i == I(t)
             q == queue[i]
  <1>1. /\ i \in Instances /\ Ready(t) /\ UNCHANGED <<store, object, local, cache, leases, fds>>
        /\ CopyOK(i) /\ Marked(i) /\ TaskTypes /\ q # <<>> /\ q \in Seq(OperationType)
        /\ queue \in [Instances -> Seq(OperationType)]
    BY Facts DEF Flush, MoverOK, FlowOK, CopyFlow, Pushing, Ready, object,
                 BaseInv, Types, InstanceTypes
  <1>2. /\ Head(q) = Upload
        /\ \A n \in 1 .. Len(Tail(q)) : Tail(q)[n] = Upload
        /\ LET p == Append(Tail(q), Upload) IN
              p # <<>> /\ \A n \in 1 .. Len(p) : p[n] = Upload
    BY <1>1, UploadsLeft DEF CopyOK
  <1>3. Head(q).kind = "upload" /\ ~Realtime
    <2>1. Upload.kind = "upload"
      BY DEF Upload
    <2>2. \A n \in 1 .. Len(q) : q[n].kind = "upload"
      BY <1>1, <2>1 DEF CopyOK
    <2>3. Realtime => \E n \in 1 .. Len(q) : q[n].kind = "delete"
      BY DEF Flush
    <2> QED BY <1>2, <2>1, <2>2, <2>3
  <1>4. ASSUME \A n \in 1 .. Len(queue'[i]) : queue'[i][n] = Upload PROVE CopyOK(i)'
    BY <1>1, <1>4 DEF CopyOK, Stored
  <1>5. CASE leases[i].held /\ queue' = [queue EXCEPT ![i] = Tail(@)] /\ UNCHANGED <<task, req, resp>>
    <2>1. queue'[i] = Tail(q)
      BY <1>1, <1>5
    <2>2. CopyOK(i)' /\ Marked(i)'
      BY <1>1, <1>2, <1>4, <1>5, <2>1 DEF Marked, InSync
    <2> QED BY <1>1, <1>5, <2>2, FlowReady DEF MoverOK
  <1>6. CASE ~leases[i].held /\ queue' = [queue EXCEPT ![i] = Append(Tail(@), Upload)]
             /\ UNCHANGED <<task, req, resp>>
    <2>1. queue'[i] = Append(Tail(q), Upload)
      BY <1>1, <1>6
    <2>2. CopyOK(i)' /\ Marked(i)'
      BY <1>1, <1>2, <1>4, <1>6, <2>1 DEF Marked
    <2> QED BY <1>1, <1>6, <2>2, FlowReady DEF MoverOK
  <1>7. CASE /\ queue' = [queue EXCEPT ![i] = Tail(@)]
             /\ StartUpload(t, "flush", local[i], cache[i], Absent)
    <2>1. queue'[i] = Tail(q)
      BY <1>1, <1>7
    <2>2. CopyOK(i)'
      BY <1>2, <1>4, <2>1
    <2>3. PushOK(t)' /\ FlowOK(t)'
      BY <1>1, <1>7, FlowPush DEF CopyOK
    <2> QED BY <2>2, <2>3 DEF MoverOK
  <1> QED BY <1>3, <1>5, <1>6, <1>7 DEF Flush

-----------------------------------------------------------------------------
(***************************************************************************)
(* Data: the operations under way.                                         *)
(***************************************************************************)

\* The PUT was stored: the copy is the stored version.
LEMMA UploadOkData ==
    ASSUME BaseInv, "truncate" \notin OpenModes, NEW t \in Tasks, MoverOK(t),
           task[t].pc = "upload", resp[t].status = "ok", UploadOk(t, resp[t].val),
           UNCHANGED <<store, fileLock>>
    PROVE  MoverOK(t)'
  <1> DEFINE i == I(t)
             val == resp[t].val
  <1>1. /\ i \in Instances /\ CopyOK(i) /\ TaskTypes /\ UNCHANGED <<queue, object>>
        /\ task[t] \in TaskType /\ cache \in [Instances -> Contents]
    BY Facts DEF MoverOK, UploadOk, object, BaseInv, Types, InstanceTypes
  <1>2. val = local[i] /\ Stored(val) /\ val # Absent
    <2>1. val = task[t].content /\ val = local[i] /\ Stored(val)
      BY DEF MoverOK, FlowOK, UploadFlow, QueryFlow, KeyOf, LockPcs
    <2> QED BY <1>1, <2>1, AbsentAssumption DEF TaskType
  <1>3. cache'[i] = val
    BY <1>1 DEF UploadOk
  <1>4. CASE task[t].op = "open"
    <2>1. OpenInsert(t, val) /\ LocalOpen(i, task[t].mode) /\ task[t].mode # "truncate"
      BY <1>1, <1>4 DEF UploadOk, TaskType
    <2>2. local'[i] = local[i] /\ fds'[i].orphan = fds[i].orphan
      BY <1>1, <1>2, <2>1, OpenData DEF CopyOK
    <2>3. leases'[i].held /\ leases'[i].base = val /\ ~leases'[i].dirty /\ ~leases'[i].pendingDelete
      BY <2>1, InsertData
    <2>4. InSync(i)' /\ Marked(i)'
      BY <1>2, <1>3, <2>2 DEF InSync, Marked
    <2>5. CopyOK(i)'
      BY <1>1, <1>2, <1>3, <2>2, <2>3 DEF CopyOK, Within, Stored
    <2>6. PushOK(t)' /\ FlowOK(t)'
      BY <2>1, <2>4, FlowFinish DEF OpenInsert
    <2> QED BY <2>5, <2>6 DEF MoverOK
  <1>5. CASE task[t].op # "open"
    <2>1. Rebase(i, val) /\ Proceed(t) /\ UNCHANGED <<local, fds>>
      BY <1>5 DEF UploadOk
    <2>2. /\ leases'[i].held = leases[i].held /\ (leases[i].held => leases'[i].base = val)
          /\ leases'[i].pendingDelete = leases[i].pendingDelete
      BY <1>1, <2>1, RebaseData
    <2>3. InSync(i)'
      BY <1>2, <1>3, <2>1 DEF InSync
    <2>4. CopyOK(i)'
      BY <1>1, <1>2, <1>3, <2>1, <2>2 DEF CopyOK, Within, Stored
    <2>5. PushOK(t)' /\ FlowOK(t)'
      BY <2>1, <2>3, FlowProceed
    <2> QED BY <2>4, <2>5 DEF MoverOK
  <1> QED BY <1>4, <1>5

\* The PUT was rejected: there is another version.
LEMMA UploadConflictData ==
    ASSUME BaseInv, NEW t \in Tasks, MoverOK(t), task[t].pc \in {"upload", "uploadHead"},
           object # Absent, local[I(t)] # Absent, UploadConflict(t), UNCHANGED <<store, fileLock>>
    PROVE  MoverOK(t)'
  <1> DEFINE i == I(t)
  <1>1. /\ i \in Instances /\ CopyOK(i) /\ TaskTypes /\ UNCHANGED object /\ task[t] \in TaskType
        /\ UNCHANGED localVars
    BY Facts DEF MoverOK, UploadConflict, object
  <1>2. CopyOK(i)'
    BY <1>1 DEF CopyOK, Stored, localVars, InSync
  <1>3. CASE fileLock
    <2>1. Await(t, "refresh", Get("file"))
      BY <1>3 DEF UploadConflict
    <2>2. task[t].op \notin {"read", "check", "boot", "poll"}
      BY Facts DEF TaskOK, ControlOK, PushPcs
    <2> QED BY <1>1, <1>2, <2>1, <2>2, FlowAwait DEF MoverOK, localVars
  <1>4. CASE ~fileLock
    <2>1. /\ task' = [task EXCEPT ![t].pc = "upload", ![t].content = local[i], ![t].force = TRUE]
          /\ Send(t, PutAlways("file", local[i]))
      BY <1>4 DEF UploadConflict
    <2>2. /\ task'[t].pc = "upload" /\ task'[t].content = local[i] /\ task'[t].force = TRUE
          /\ task'[t].op = task[t].op
      BY <1>1, <2>1 DEF TaskTypes, TaskType
    <2>3. req'[t] = PutAlways("file", local[i]) /\ resp'[t] = NoResponse
      BY <1>1, <2>1 DEF TaskTypes, Send
    <2>4. req'[t].op = "put" /\ req'[t].key = "file" /\ resp'[t].status = "none"
      BY <2>3 DEF PutAlways, NoResponse
    <2>5. task[t].op \notin {"read", "check", "boot", "poll"}
      BY Facts DEF TaskOK, ControlOK, PushPcs
    <2>6. PushOK(t)'
      BY <1>4, <2>4 DEF PushOK
    <2>7. UploadFlow(t)'
      BY <1>1, <1>4, <2>2, <2>3, <2>4 DEF UploadFlow, localVars
    <2>8. QueryFlow(t)' /\ CopyFlow(t)'
      BY <2>2, <2>4, <2>5 DEF QueryFlow, CopyFlow, Pushing
    <2> QED BY <1>2, <2>6, <2>7, <2>8 DEF MoverOK, FlowOK
  <1> QED BY <1>3, <1>4

LEMMA UploadData ==
    ASSUME BaseInv, "truncate" \notin OpenModes, NEW t \in Tasks, MoverOK(t), UNCHANGED fileLock,
           UploadPut(t) \/ UploadHead(t) \/ UploadRecreate(t) \/ UploadVerified(t)
    PROVE  MoverOK(t)'
  <1> DEFINE i == I(t)
             st == resp[t].status
  <1>1. task[t].pc \notin {"recreate", "verify"} /\ st # "error" /\ UNCHANGED <<store, object>>
        /\ i \in Instances /\ CopyOK(i)
    BY Facts DEF MoverOK, FlowOK, QueryFlow, PushOK, UploadPut, UploadHead, UploadRecreate,
                 UploadVerified, object
  <1>2. UploadPut(t) \/ UploadHead(t)
    BY <1>1 DEF UploadRecreate, UploadVerified, Resumes
  <1>3. CASE UploadPut(t)
    <2>1. task[t].pc = "upload"
      BY <1>3 DEF UploadPut, Resumes
    <2>2. UploadFlow(t) /\ task[t] \in TaskType
      BY Facts DEF MoverOK, FlowOK
    <2>3. local[i] # Absent
      BY <2>1, <2>2, AbsentAssumption DEF UploadFlow, TaskType
    <2>4. CASE st = "ok"
      BY <1>1, <1>3, <2>1, <2>4, UploadOkData DEF UploadPut
    <2>5. CASE st = "precondition"
      <3>1. object # Absent
        BY <2>1, <2>2, <2>5 DEF UploadFlow
      <3>2. CASE UploadConflict(t)
        BY <1>1, <2>1, <2>3, <3>1, <3>2, UploadConflictData
      <3>3. CASE Await(t, "uploadHead", Get("file")) /\ UNCHANGED localVars
        <4>1. CopyOK(i)'
          BY <1>1, <3>3 DEF CopyOK, Stored, localVars, InSync
        <4>2. task[t].op \notin {"read", "check", "boot", "poll"}
          BY <2>1, Facts DEF TaskOK, ControlOK, PushPcs
        <4> QED BY <1>1, <2>3, <3>1, <3>3, <4>1, <4>2, FlowAwait DEF MoverOK, localVars
      <3> QED BY <1>3, <2>5, <3>2, <3>3 DEF UploadPut
    <2> QED BY <1>1, <1>3, <2>1, <2>2, <2>4, <2>5 DEF UploadPut, UploadFlow
  <1>4. CASE UploadHead(t)
    <2>1. task[t].pc = "uploadHead"
      BY <1>4 DEF UploadHead, Resumes
    <2>2. /\ object # Absent /\ local[i] # Absent /\ (st = "ok" => resp[t].val # Absent)
      BY <2>1 DEF MoverOK, FlowOK, QueryFlow
    <2>3. UploadConflict(t)
      BY <1>1, <1>4, <2>2 DEF UploadHead
    <2> QED BY <1>1, <2>1, <2>2, <2>3, UploadConflictData
  <1> QED BY <1>2, <1>3, <1>4

LEMMA RefreshedData ==
    ASSUME BaseInv, NEW t \in Tasks, MoverOK(t), UNCHANGED fileLock, Refreshed(t)
    PROVE  MoverOK(t)'
  <1> DEFINE i == I(t)
             val == resp[t].val
  <1>1. /\ i \in Instances /\ CopyOK(i) /\ UNCHANGED <<object, queue, fds>>
        /\ task[t].pc = "refresh" /\ Proceed(t)
        /\ local \in [Instances -> Contents] /\ cache \in [Instances -> Contents]
    BY Facts DEF MoverOK, Refreshed, Resumes, object, BaseInv, Types, InstanceTypes
  <1>2. /\ resp[t].status # "error" /\ (resp[t].status = "ok" => val # Absent /\ Stored(val))
    BY <1>1 DEF MoverOK, PushOK, FlowOK, QueryFlow, KeyOf, LockPcs
  <1>3. val # Absent /\ Stored(val) /\ Download(i, val) /\ Rebase(i, val)
    BY <1>2 DEF Refreshed
  <1>4. local'[i] = val /\ cache'[i] = val
    BY <1>1, <1>3 DEF Download
  <1>5. /\ leases'[i].held = leases[i].held /\ (leases[i].held => leases'[i].base = val)
        /\ leases'[i].pendingDelete = leases[i].pendingDelete
    BY <1>1, <1>3, RebaseData
  <1>6. InSync(i)'
    BY <1>4 DEF InSync
  <1>7. CopyOK(i)'
    BY <1>1, <1>3, <1>4, <1>5 DEF CopyOK, Within, Stored
  <1>8. PushOK(t)' /\ FlowOK(t)'
    BY <1>1, <1>6, FlowProceed
  <1> QED BY <1>7, <1>8 DEF MoverOK

\* Steps that leave the copy as it is.
LEMMA FinishData ==
    ASSUME BaseInv, NEW t \in Tasks, MoverOK(t), ~Pushing(t), UNCHANGED fileLock,
           OpenFailed(t) \/ Renewed(t) \/ Released(t), StageOK(t)
    PROVE  MoverOK(t)'
  <1> DEFINE i == I(t)
  <1>1. /\ i \in Instances /\ CopyOK(i) /\ Marked(i) /\ Finish(t)
        /\ leases \in [Instances -> EntryType] /\ leases[i] \in EntryType
    BY Facts DEF MoverOK, FlowOK, CopyFlow, OpenFailed, Renewed, Released, BaseInv, Types,
                 InstanceTypes
  <1>2. UNCHANGED <<object, local, cache, queue, fds>>
    BY DEF OpenFailed, Renewed, Released, StageOK, object, localVars
  <1>3. \/ BaseStays(i)
        \/ ~leases'[i].held /\ ~leases'[i].pendingDelete /\ InSync(i)
    <2>1. CASE OpenFailed(t)
      BY <1>1, <2>1, BaseStaysAfter DEF OpenFailed, localVars
    <2>2. CASE Renewed(t)
      BY <1>1, <2>2 DEF Renewed, BaseStays, EntryType
    <2>3. CASE Released(t)
      <3>1. CASE task[t].op = "close"
        <4>1. task[t].pc = "release"
          BY <2>3 DEF Released, StageOK
        <4>2. InSync(i)
          BY <3>1, <4>1 DEF MoverOK, FlowOK, CopyFlow
        <4> QED BY <1>1, <2>3, <3>1, <4>2 DEF Released, NoLease
      <3>2. CASE task[t].op # "close"
        BY <1>1, <2>3, <3>2, BaseStaysAfter DEF Released
      <3> QED BY <3>1, <3>2
    <2> QED BY <2>1, <2>2, <2>3
  <1>4. Marked(i)'
    BY <1>1, <1>2, <1>3 DEF Marked, InSync, BaseStays
  <1>5. CopyOK(i)'
    BY <1>1, <1>2, <1>3 DEF CopyOK, Stored, BaseStays
  <1> QED BY <1>1, <1>4, <1>5, FlowFinish DEF MoverOK

\* A queue of uploads loses them all.
LEMMA UploadsTaken ==
    ASSUME NEW q \in Seq(OperationType), \A n \in 1 .. Len(q) : q[n] = Upload
    PROVE  /\ RetainDelete(q) = <<>>
           /\ (~ \E n \in 1 .. Len(q) : q[n] = Upload) => q = <<>>
  <1>1. {n \in 1 .. Len(q) : q[n] # Upload} = {}
    OBVIOUS
  <1>2. RetainDelete(q) = <<>>
    BY <1>1 DEF RetainDelete
  <1>3. (~ \E n \in 1 .. Len(q) : q[n] = Upload) => q = <<>>
    <2> SUFFICES ASSUME ~ \E n \in 1 .. Len(q) : q[n] = Upload PROVE q = <<>>
      OBVIOUS
    <2>1. Len(q) \in Nat
      OBVIOUS
    <2>2. Len(q) = 0
      BY <2>1
    <2> QED BY <2>2
  <1> QED BY <1>2, <1>3

LEMMA OpenAcquiredData ==
    ASSUME BaseInv, NEW t \in Tasks, MoverOK(t), StageOK(t), UNCHANGED fileLock, OpenAcquired(t)
    PROVE  MoverOK(t)'
  <1> DEFINE i == I(t)
             q == queue[i]
  <1>1. /\ i \in Instances /\ CopyOK(i) /\ UNCHANGED <<object, local, cache, fds>>
        /\ task[t].pc = "acquire" /\ q \in Seq(OperationType)
        /\ queue \in [Instances -> Seq(OperationType)]
    BY Facts DEF MoverOK, OpenAcquired, object, BaseInv, Types, InstanceTypes
  <1>2. task[t].op = "open" /\ ~leases[i].held
    BY <1>1, Facts DEF TaskOK, ControlOK, StageOK, Entry
  <1>3. Marked(i)
    BY <1>1 DEF MoverOK, FlowOK, CopyFlow, Pushing
  <1>4. /\ RetainDelete(q) = <<>>
        /\ (~ \E n \in 1 .. Len(q) : q[n] = Upload) => q = <<>>
    <2>1. \A n \in 1 .. Len(q) : q[n] = Upload
      BY <1>1 DEF CopyOK
    <2> QED BY <1>1, <2>1, UploadsTaken
  <1>5. ASSUME queue'[i] = <<>>, UNCHANGED leases PROVE CopyOK(i)'
    BY <1>1, <1>5 DEF CopyOK, Stored, InSync
  <1>6. CASE /\ queue' = [queue EXCEPT ![i] = RetainDelete(@)] /\ UNCHANGED leases
             /\ IF local[i] = Absent THEN OpenAbort(t)
                ELSE StartUpload(t, "open", local[i], cache[i], Absent) /\ UNCHANGED call
    <2>1. CopyOK(i)'
      BY <1>1, <1>4, <1>5, <1>6
    <2>2. CASE local[i] = Absent
      <3>1. InSync(i)' /\ Marked(i)'
        BY <1>1, <2>2 DEF CopyOK, Within, InSync, Marked
      <3>2. StartRelease(t, "open", call[t].etag)
        BY <1>6, <2>2 DEF OpenAbort
      <3> QED BY <2>1, <3>1, <3>2, FlowRelease DEF MoverOK
    <2>3. CASE local[i] # Absent
      <3>1. StartUpload(t, "open", local[i], cache[i], Absent)
        BY <1>6, <2>3
      <3>2. PushOK(t)' /\ FlowOK(t)'
        BY <1>1, <3>1, FlowPush DEF CopyOK
      <3> QED BY <2>1, <3>2 DEF MoverOK
    <2> QED BY <2>2, <2>3
  <1>7. CASE q = <<>> /\ Await(t, "head", Get("file")) /\ UNCHANGED <<leases, queue>>
    <2>1. CopyOK(i)' /\ Marked(i)'
      BY <1>1, <1>3, <1>5, <1>7 DEF Marked, InSync
    <2> QED BY <1>2, <1>7, <2>1, FlowAwait DEF MoverOK
  <1> QED BY <1>2, <1>4, <1>6, <1>7 DEF OpenAcquired

\* The end of head_and_refresh: the copy is the stored version, or a new, empty
\* file.
LEMMA HeadDoneData ==
    ASSUME BaseInv, NEW t \in Tasks, CopyOK(I(t)), HeadDone(t, cache'[I(t)]),
           UNCHANGED <<object, fileLock, queue>>, fds'[I(t)].orphan = 0,
           task[t].op # "open" => ~leases[I(t)].held,
           Stored(cache'[I(t)]), Within(cache'[I(t)], local'[I(t)]),
           task[t].op = "open" => InSync(I(t))',
           task[t].op # "open" => InSync(I(t))' \/ queue[I(t)] # <<>>
    PROVE  MoverOK(t)'
  <1> DEFINE i == I(t)
  <1>1. i \in Instances
    BY Facts
  <1>2. CASE task[t].op = "open"
    <2>1. OpenInsert(t, cache'[i])
      BY <1>2 DEF HeadDone
    <2>2. /\ leases'[i].held /\ leases'[i].base = cache'[i] /\ ~leases'[i].pendingDelete
      BY <2>1, InsertData
    <2>3. CopyOK(i)'
      BY <1>2, <2>2 DEF CopyOK, Stored
    <2>4. Marked(i)' /\ Finish(t)
      BY <1>2, <2>1 DEF Marked, OpenInsert
    <2> QED BY <2>3, <2>4, FlowFinish DEF MoverOK
  <1>3. CASE task[t].op # "open"
    <2>1. Finish(t) /\ UNCHANGED leases
      BY <1>3 DEF HeadDone
    <2>2. CopyOK(i)'
      BY <1>3, <2>1 DEF CopyOK, Stored
    <2>3. Marked(i)'
      BY <1>3, <2>1 DEF Marked
    <2> QED BY <2>1, <2>2, <2>3, FlowFinish DEF MoverOK
  <1> QED BY <1>2, <1>3

LEMMA HeadAnsweredData ==
    ASSUME BaseInv, "truncate" \notin OpenModes, NEW t \in Tasks, MoverOK(t), StageOK(t),
           UNCHANGED fileLock, HeadAnswered(t)
    PROVE  MoverOK(t)'
  <1> DEFINE i == I(t)
             val == resp[t].val
  <1>1. /\ i \in Instances /\ CopyOK(i) /\ UNCHANGED <<object, cache, queue>>
        /\ task[t].pc = "head" /\ task[t].mode # "truncate" /\ task[t].op \in {"open", "check"}
    BY Facts DEF MoverOK, HeadAnswered, Resumes, object, TaskOK, ControlOK, TaskType
  <1>2. ~leases[i].held
    BY <1>1 DEF StageOK, Entry, MoverOK, FlowOK, CopyFlow
  <1>3. InSync(i) \/ queue[i] # <<>>
    BY <1>1, <1>2 DEF MoverOK, FlowOK, CopyFlow, Pushing, Marked
  <1>4. task[t].op = "open" => queue[i] = <<>> /\ InSync(i)
    BY <1>1, <1>3 DEF MoverOK, FlowOK, CopyFlow
  <1>5. CASE /\ resp[t].status = "ok" /\ val \in {Absent, cache[i]} /\ HeadDone(t, val)
             /\ IF task[t].op = "open" THEN LocalOpen(i, task[t].mode)
                ELSE UNCHANGED <<local, fds>>
    <2>1. val = cache'[i]
      BY <1>1, <1>5 DEF MoverOK, FlowOK, QueryFlow
    <2>2. Stored(cache'[i])
      BY <1>1 DEF CopyOK
    <2>3. CASE task[t].op = "open"
      <3>1. /\ Within(cache[i], local'[i]) /\ fds'[i].orphan = fds[i].orphan
            /\ InSync(i)'
        BY <1>1, <1>4, <1>5, <2>3, OpenData DEF CopyOK
      <3>2. fds'[i].orphan = 0 /\ Within(cache'[i], local'[i])
        BY <1>1, <3>1 DEF CopyOK
      <3> QED BY <1>1, <1>5, <2>1, <2>2, <2>3, <3>1, <3>2, HeadDoneData
    <2>4. CASE task[t].op # "open"
      <3>1. UNCHANGED <<local, fds>>
        BY <1>5, <2>4
      <3>2. /\ fds'[i].orphan = 0 /\ Within(cache'[i], local'[i])
            /\ InSync(i)' \/ queue[i] # <<>>
        BY <1>1, <1>3, <3>1 DEF CopyOK, InSync
      <3> QED BY <1>1, <1>2, <1>5, <2>1, <2>2, <2>4, <3>2, HeadDoneData
    <2> QED BY <2>3, <2>4
  <1>6. CASE Await(t, "get", Get("file")) /\ UNCHANGED <<leases, local, fds>>
    <2>1. CopyOK(i)' /\ Marked(i)'
      BY <1>1, <1>2, <1>3, <1>6 DEF CopyOK, Stored, Marked, InSync
    <2> QED BY <1>1, <1>2, <1>4, <1>6, <2>1, FlowAwait DEF MoverOK
  <1>7. resp[t].status # "error"
    BY DEF MoverOK, PushOK
  <1> QED BY <1>5, <1>6, <1>7 DEF HeadAnswered

LEMMA HeadGotData ==
    ASSUME BaseInv, "truncate" \notin OpenModes, NEW t \in Tasks, MoverOK(t), StageOK(t),
           UNCHANGED fileLock, HeadGot(t)
    PROVE  MoverOK(t)'
  <1> DEFINE i == I(t)
             val == resp[t].val
  <1>1. /\ i \in Instances /\ CopyOK(i) /\ UNCHANGED <<object, queue>>
        /\ task[t].pc = "get" /\ task[t].mode # "truncate" /\ task[t].op \in {"open", "check"}
        /\ local \in [Instances -> Contents] /\ cache \in [Instances -> Contents]
        /\ fds \in [Instances -> DescriptorType] /\ fds[i] \in DescriptorType
    BY Facts DEF MoverOK, HeadGot, Resumes, object, TaskOK, ControlOK, TaskType,
                 BaseInv, Types, InstanceTypes
  <1>2. ~leases[i].held
    BY <1>1 DEF StageOK, Entry, MoverOK, FlowOK, CopyFlow
  <1>3. InSync(i) \/ queue[i] # <<>>
    BY <1>1, <1>2 DEF MoverOK, FlowOK, CopyFlow, Pushing, Marked
  <1>4. task[t].op = "open" => InSync(i)
    BY <1>1, <1>3 DEF MoverOK, FlowOK, CopyFlow
  <1>5. CASE /\ resp[t].status = "ok" /\ val # Absent /\ HeadDone(t, val)
             /\ cache' = [cache EXCEPT ![i] = val] /\ local' = [local EXCEPT ![i] = val]
             /\ fds' = [fds EXCEPT ![i].linked = IF task[t].op = "open" THEN @ + 1 ELSE @]
    <2>1. val = cache'[i] /\ val = local'[i] /\ Within(cache'[i], local'[i]) /\ InSync(i)'
      BY <1>1, <1>5 DEF Within, InSync
    <2>2. Stored(cache'[i])
      BY <1>1, <1>5, <2>1 DEF MoverOK, FlowOK, QueryFlow, KeyOf, LockPcs
    <2>3. fds'[i].orphan = 0
      BY <1>1, <1>5 DEF DescriptorType, CopyOK
    <2> QED BY <1>1, <1>2, <1>5, <2>1, <2>2, <2>3, HeadDoneData
  <1>6. CASE /\ resp[t].status = "ok" /\ val = Absent /\ HeadDone(t, Absent) /\ UNCHANGED cache
             /\ IF task[t].op = "open" THEN LocalOpen(i, task[t].mode) ELSE UNCHANGED <<local, fds>>
    <2>1. cache'[i] = Absent /\ cache[i] = Absent
      BY <1>1, <1>6 DEF MoverOK, FlowOK, QueryFlow
    <2>2. Stored(cache'[i]) /\ Within(cache'[i], local'[i])
      BY <2>1 DEF Stored, Within
    <2>3. CASE task[t].op = "open"
      <3>1. fds'[i].orphan = 0 /\ InSync(i)'
        BY <1>1, <1>4, <1>6, <2>3, OpenData DEF CopyOK
      <3> QED BY <1>1, <1>6, <2>1, <2>2, <2>3, <3>1, HeadDoneData
    <2>4. CASE task[t].op # "open"
      <3>1. fds'[i].orphan = 0 /\ (InSync(i)' \/ queue[i] # <<>>)
        BY <1>1, <1>3, <1>6, <2>4 DEF CopyOK, InSync
      <3> QED BY <1>1, <1>2, <1>6, <2>1, <2>2, <2>4, <3>1, HeadDoneData
    <2> QED BY <2>3, <2>4
  <1>7. resp[t].status # "error"
    BY DEF MoverOK, PushOK
  <1> QED BY <1>1, <1>5, <1>6, <1>7 DEF HeadGot

\* The inbound queries are answered.
LEMMA AnsweredData ==
    ASSUME BaseInv, NEW t \in Tasks, MoverOK(t), UNCHANGED fileLock,
           LeaseDeleted(t) \/ QueueDeleted(t) \/ PollListed(t) \/ BootListed(t) \/ Got(t)
    PROVE  MoverOK(t)'
  <1> DEFINE i == I(t)
             val == resp[t].val
  <1>1. /\ i \in Instances /\ CopyOK(i) /\ UNCHANGED object
        /\ local \in [Instances -> Contents] /\ cache \in [Instances -> Contents]
    BY Facts DEF MoverOK, LeaseDeleted, QueueDeleted, PollListed, BootListed, Got, object,
                 BaseInv, Types, InstanceTypes
  <1>2. ~LeaseDeleted(t) /\ ~QueueDeleted(t)
    BY DEF MoverOK, FlowOK, QueryFlow, LeaseDeleted, QueueDeleted, Resumes
  <1>3. task[t].pc \in {"list", "get"} /\ UNCHANGED <<leases, queue>>
    BY <1>2 DEF PollListed, BootListed, Got, Resumes
  <1>4. Marked(i) /\ task[t].op # "open"
    BY <1>2, <1>3 DEF MoverOK, FlowOK, CopyFlow, Pushing, PollListed, BootListed, Got
  <1>5. /\ resp[t].status = "ok" => Stored(val)
        /\ resp[t].status = "ok" /\ val = Absent => cache[i] = Absent
    BY <1>3 DEF MoverOK, FlowOK, QueryFlow, KeyOf, LockPcs
  <1>6. CASE UNCHANGED <<local, cache, fds>>
    <2>1. CopyOK(i)' /\ Marked(i)'
      BY <1>1, <1>3, <1>4, <1>6 DEF CopyOK, Stored, Marked, InSync
    <2>2. CASE Finish(t)
      BY <2>1, <2>2, FlowFinish DEF MoverOK
    <2>3. CASE Await(t, "get", Get("file")) /\ (task[t].op = "boot" \/ ~leases[i].held)
      <3>1. ~leases'[i].held
        BY <1>3, <2>3 DEF MoverOK, FlowOK, CopyFlow
      <3> QED BY <1>4, <2>1, <2>3, <3>1, FlowAwait DEF MoverOK
    <2> QED BY <1>2, <2>2, <2>3 DEF PollListed, BootListed, Got
  <1>7. CASE ~UNCHANGED <<local, cache, fds>>
    <2>1. Got(t) /\ resp[t].status = "ok" /\ val # Absent /\ Download(i, val) /\ Finish(t)
      BY <1>2, <1>5, <1>7 DEF PollListed, BootListed, Got
    <2>2. /\ local'[i] = val /\ cache'[i] = val /\ UNCHANGED fds
      BY <1>1, <2>1 DEF Download, Got
    <2>3. ~leases[i].held
      BY <2>1 DEF MoverOK, FlowOK, CopyFlow, Got, Resumes
    <2>4. InSync(i)' /\ Marked(i)'
      BY <2>2 DEF InSync, Marked
    <2>5. CopyOK(i)'
      BY <1>1, <1>3, <1>5, <2>1, <2>2, <2>3, <2>4 DEF CopyOK, Stored, Within
    <2> QED BY <2>1, <2>4, <2>5, FlowFinish DEF MoverOK
  <1> QED BY <1>6, <1>7

\* A lease call goes on.
LEMMA LeaseStepData ==
    ASSUME BaseInv, NEW t \in Tasks, MoverOK(t), LeaseStep(t),
           UNCHANGED <<fileLock, localVars, task>>
    PROVE  MoverOK(t)'
  <1> DEFINE i == I(t)
  <1>1. Pc(t) \in AwaitPcs /\ UNCHANGED <<object, local, cache, leases, queue, fds>>
    BY DEF LeaseStep, AcquireGot, AcquirePut, AcquireVerified, AcquireWake, RenewDone,
           ReleaseDone, AwaitPcs, object, localVars
  <1>2. task[t].pc \in LockPcs /\ i \in Instances /\ task'[t] = task[t] /\ ControlOK(t)
    BY <1>1, Calling, Facts DEF TaskOK
  <1>3. task[t].op \in {"open", "close", "renew"} /\ (task[t].op = "close" => task[t].pc = "release")
    BY <1>2 DEF ControlOK, LockPcs
  <1>4. CopyOK(i) /\ Marked(i) /\ (task[t].op = "close" => InSync(i))
    BY <1>2, <1>3 DEF MoverOK, FlowOK, CopyFlow, Pushing, LockPcs
  <1>5. CopyOK(i)' /\ Marked(i)' /\ (task[t].op = "close" => InSync(i)')
    BY <1>1, <1>2, <1>4 DEF CopyOK, Stored, Marked, InSync
  <1>6. \E r : Send(t, r) /\ (r.op # "none" => r.key = "lock")
    BY DEF LeaseStep, AcquireGot, AcquirePut, AcquireVerified, AcquireWake, RenewDone,
           ReleaseDone, Goto, RetryOrBusy, PutRecord, NoRequest, Get, PutIf
  <1>7. resp'[t].status = "none" /\ (req'[t].op # "none" => req'[t].key = "lock")
    BY <1>6, Facts DEF Send, TaskTypes, NoResponse
  <1>8. PushOK(t)' /\ FlowOK(t)'
    BY <1>2, <1>3, <1>5, <1>7, FlowLock
  <1> QED BY <1>5, <1>8 DEF MoverOK

-----------------------------------------------------------------------------
(***************************************************************************)
(* Data: the store.                                                        *)
(***************************************************************************)

\* A version of the object is followed by one that contains it.
ObjectGrows ==
    object' # object =>
        /\ object' # Absent
        /\ fileLock /\ object # Absent => object.updates \subseteq object'.updates

\* Without faults a request is served once and answered, unless it is a
\* conditional delete that is emulated.
LEMMA ServesOnce ==
    ASSUME BaseInv, MaxFaults = 0, NEW t \in Tasks, StoreStep(t), ~Downgraded(t)
    PROVE  LET r == req[t]
               cur == store[r.key] IN
           r.op # "none" /\ Served(t, After(r, cur), Response(r, cur))
  BY StoreStepEffect DEF Handled, HandledAs

\* What the answer to a file request and the object have to do with each other.
LEMMA FileServed ==
    ASSUME BaseInv, MaxFaults = 0, NEW t \in Tasks, PushOK(t), StoreStep(t), ~Downgraded(t)
    PROVE  LET r == req[t]
               a == resp'[t] IN
           /\ req'[t] = NoRequest /\ a.status \in {"ok", "precondition", "notFound"}
           /\ \A u \in Tasks \ {t} : req'[u] = req[u] /\ resp'[u] = resp[u]
           /\ ObjectGrows
           /\ r.op # "none"
           /\ r.key = "file" /\ r.op = "get" /\ a.status = "ok" => a.val = object /\ object' = object
           /\ r.key = "file" /\ r.op = "put" /\ a.status = "ok" => a.val = r.body /\ object' = r.body
           /\ r.key = "file" /\ a.status = "precondition" => object # Absent
           /\ r.key = "file" /\ a.status = "notFound" => r.cond = "ifMatch" /\ object = Absent
  <1> DEFINE r == req[t]
             cur == store[r.key]
             a == Response(r, cur)
             obj == After(r, cur)
  <1>1. /\ r \in RequestType /\ r.op # "none" /\ r.key \in {"file", "lock"}
        /\ r.etag \in Values(r.key) /\ r.body \in Values(r.key)
        /\ r.op = "put" => r.body # Absent
    BY ServesOnce, Facts DEF TaskOK, RequestOK
  <1>2. cur \in Values(r.key) /\ r.key \in Keys
    BY <1>1, KeyValues
  <1>3. Served(t, obj, a)
    BY ServesOnce
  <1>4. /\ req'[t] = NoRequest /\ resp'[t] = a
        /\ \A u \in Tasks \ {t} : req'[u] = req[u] /\ resp'[u] = resp[u]
        /\ store'[r.key] = obj
        /\ \A k \in Keys : k # r.key => store'[k] = store[k]
    BY <1>1, <1>3, ServedTo
  <1>5. /\ r.op = "get" => obj = cur
        /\ r.op = "get" /\ a.status = "ok" => a.val = cur
        /\ r.op = "put" /\ a.status = "ok" => a.val = r.body /\ obj = r.body
        /\ obj # cur => /\ obj = IF r.op = "put" THEN r.body ELSE Absent
                        /\ r.cond = "ifMatch" => cur = r.etag /\ cur # Absent
                        /\ r.cond = "ifNoneMatch" => cur = Absent
    <2>1. HandledAs(r, cur, obj, a)
      BY DEF HandledAs
    <2> HIDE DEF obj, a
    <2> QED BY <1>1, <1>2, <2>1, HandledEffect
  <1>6. a.status = Outcome(r, cur)
    BY DEF Response
  <1>7. /\ a.status \in {"ok", "precondition", "notFound"}
        /\ a.status = "precondition" => cur # Absent
        /\ a.status = "notFound" => r.cond = "ifMatch" /\ cur = Absent
    BY <1>1, <1>6 DEF Outcome, CheckCond, RequestType
  <1> HIDE DEF obj, a
  <1>8. r.key = "file" => cur = object /\ obj = object'
    BY <1>1, <1>4 DEF object
  <1>9. r.key # "file" => object' = object
    BY <1>1, <1>4, KeyValues DEF object
  <1>10. ObjectGrows
    <2> SUFFICES ASSUME object' # object
                 PROVE  /\ object' # Absent
                        /\ fileLock /\ object # Absent => object.updates \subseteq object'.updates
      BY DEF ObjectGrows
    <2>1. r.key = "file" /\ cur = object /\ obj = object' /\ obj # cur
      BY <1>8, <1>9
    <2>2. r.op = "put" /\ obj = r.body /\ obj # Absent
      BY <1>1, <1>5, <2>1 DEF PushOK, RequestType
    <2>3. fileLock /\ object # Absent => r.cond = "ifMatch" /\ cur = r.etag /\ Within(r.etag, r.body)
      BY <1>1, <1>5, <2>1, <2>2 DEF PushOK, RequestType
    <2> QED BY <2>1, <2>2, <2>3 DEF Within
  <1> QED BY <1>1, <1>4, <1>5, <1>7, <1>8, <1>10

LEMMA Growth ==
    ASSUME ObjectGrows
    PROVE  /\ object # Absent => object' # Absent
           /\ fileLock /\ object # Absent => object.updates \subseteq object'.updates
  BY DEF ObjectGrows

\* The object grows: what the tasks and the copies have to do with it stays.
LEMMA GrowthData ==
    ASSUME ObjectGrows, UNCHANGED <<fileLock, localVars, task>>, NEW u \in Tasks,
           req'[u] = req[u], resp'[u] = resp[u], PushOK(u), Live(u) => FlowOK(u)
    PROVE  PushOK(u)' /\ (Live(u)' => FlowOK(u)')
  <1>1. PushOK(u)'
    BY DEF PushOK
  <1>2. ASSUME Live(u)' PROVE FlowOK(u)'
    <2>1. FlowOK(u)
      BY <1>2 DEF Live, localVars
    <2>2. object # Absent => object' # Absent
      BY Growth
    <2>3. UploadFlow(u)'
      BY <2>1, <2>2 DEF FlowOK, UploadFlow, localVars
    <2>4. QueryFlow(u)'
      <3>1. Stored(resp[u].val) => Stored(resp[u].val)'
        BY Growth DEF Stored
      <3> QED BY <2>1, <2>2, <3>1 DEF FlowOK, QueryFlow, localVars, KeyOf
    <2>5. CopyFlow(u)'
      BY <2>1 DEF FlowOK, CopyFlow, Pushing, Marked, InSync, localVars
    <2> QED BY <2>3, <2>4, <2>5 DEF FlowOK
  <1> QED BY <1>1, <1>2

LEMMA GrowthCopy ==
    ASSUME ObjectGrows, UNCHANGED <<fileLock, localVars>>, NEW i \in Instances, CopyOK(i)
    PROVE  CopyOK(i)'
  <1>1. Stored(cache[i]) => Stored(cache[i])'
    BY Growth DEF Stored, localVars
  <1> QED BY <1>1 DEF CopyOK, InSync, localVars

\* The task that is answered is told the truth.
LEMMA OwnAnswerData ==
    ASSUME BaseInv, MaxFaults = 0, NEW t \in Tasks, MoverOK(t), Live(t), StoreStep(t),
           ~Downgraded(t), UNCHANGED <<fileLock, localVars, task>>
    PROVE  FlowOK(t)'
  <1> DEFINE i == I(t)
             r == req[t]
             a == resp'[t]
  <1>1. /\ req'[t] = NoRequest /\ a.status \in {"ok", "precondition", "notFound"} /\ r.op # "none"
        /\ ObjectGrows
        /\ r.key = "file" /\ r.op = "get" /\ a.status = "ok" => a.val = object /\ object' = object
        /\ r.key = "file" /\ r.op = "put" /\ a.status = "ok" => a.val = r.body /\ object' = r.body
        /\ r.key = "file" /\ a.status = "precondition" => object # Absent
        /\ r.key = "file" /\ a.status = "notFound" => r.cond = "ifMatch" /\ object = Absent
    BY FileServed DEF MoverOK
  <1>2. /\ r.key = KeyOf(t) /\ req'[t].op = "none" /\ r \in RequestType
        /\ r.op = "put" => r.body # Absent
    BY <1>1, Facts DEF TaskOK, AnswerOK, RequestOK, NoRequest
  <1>3. object # Absent => object' # Absent
    BY <1>1, Growth
  <1>4. UploadFlow(t) /\ QueryFlow(t) /\ CopyFlow(t) /\ Stored(cache[i])
    BY DEF MoverOK, FlowOK, CopyOK
  <1>5. UploadFlow(t)'
    <2> SUFFICES ASSUME task[t].pc = "upload"
                 PROVE  /\ a.status = "ok" => a.val = task[t].content
                        /\ a.status = "precondition" => object' # Absent
                        /\ a.status # "notFound"
      BY <1>2, <1>4 DEF UploadFlow, localVars
    <2>1. r.key = "file" /\ r.op = "put"
      BY <1>1, <1>2, <1>4 DEF UploadFlow, KeyOf, LockPcs
    <2>2. r.body = task[t].content
      BY <1>4, <2>1 DEF UploadFlow, PutIf, PutAlways
    <2>3. r.cond = "ifMatch" => cache[i] # Absent
      BY <1>4, <2>1 DEF UploadFlow, PutIf, PutAlways
    <2> QED BY <1>1, <1>3, <1>4, <2>1, <2>2, <2>3 DEF Stored
  <1>6. QueryFlow(t)'
    <2>1. task[t].pc \in {"uploadHead", "refresh", "head", "get", "list"} =>
             r.key = "file" /\ r.op = "get"
      BY <1>1, <1>2, <1>4 DEF QueryFlow, KeyOf, LockPcs
    <2>2. task[t].pc \in {"uploadHead", "refresh"} =>
             /\ object' # Absent /\ local'[i] # Absent
             /\ a.status = "ok" => a.val # Absent
      BY <1>1, <1>3, <1>4, <2>1 DEF QueryFlow, localVars
    <2>3. KeyOf(t)' = "file" /\ a.status = "ok" => Stored(resp[t].val)'
      <3> SUFFICES ASSUME KeyOf(t)' = "file", a.status = "ok" PROVE Stored(resp[t].val)'
        OBVIOUS
      <3>1. r.key = "file" /\ r.op \in {"get", "put"}
        BY <1>1, <1>2 DEF KeyOf, MoverOK, PushOK, RequestType
      <3>2. a.val = object'
        BY <1>1, <3>1
      <3> QED BY <3>2 DEF Stored
    <2>4. task[t].pc \in {"head", "get", "list"} /\ a.status = "ok" /\ a.val = Absent =>
             cache'[i] = Absent
      BY <1>1, <1>4, <2>1 DEF Stored, localVars
    <2> QED BY <1>2, <1>4, <2>2, <2>3, <2>4 DEF QueryFlow
  <1>7. CopyFlow(t)'
    BY <1>4 DEF CopyFlow, Pushing, Marked, InSync, localVars
  <1> QED BY <1>5, <1>6, <1>7 DEF FlowOK

\* The emulated conditional delete is that of a lock object.
LEMMA DowngradedData ==
    ASSUME BaseInv, DataOK, NEW t \in Tasks, Downgraded(t),
           UNCHANGED <<fileLock, localVars, task, synced>>
    PROVE  DataOK'
  <1>1. /\ req'[t] = DeleteIf("lock", Absent) /\ req[t].op = "delete" /\ UNCHANGED <<object, resp>>
        /\ \A u \in Tasks \ {t} : req'[u] = req[u]
    BY Facts DEF Downgraded, Emulated, DataOK, PushOK, TaskTypes, object
  <1>2. req'[t].op = "delete" /\ req'[t].key = "lock" /\ ObjectGrows
    BY <1>1 DEF DeleteIf, ObjectGrows
  <1>3. \A i \in Instances : CopyOK(i)'
    BY <1>2, GrowthCopy DEF DataOK
  <1>4. ASSUME NEW u \in Tasks \ {t} PROVE PushOK(u)' /\ (Live(u)' => FlowOK(u)')
    BY <1>1, <1>2, <1>4, GrowthData DEF DataOK
  <1>5. PushOK(t)'
    BY <1>1, <1>2 DEF DataOK, PushOK
  <1>6. ASSUME Live(t)' PROVE FlowOK(t)'
    <2>1. FlowOK(t)
      BY <1>6 DEF DataOK, Live, localVars
    <2>2. UploadFlow(t)'
      BY <1>1, <1>2, <2>1 DEF FlowOK, UploadFlow, localVars
    <2>3. QueryFlow(t)'
      BY <1>1, <1>2, <2>1 DEF FlowOK, QueryFlow, KeyOf, Stored, localVars
    <2>4. CopyFlow(t)'
      BY <2>1 DEF FlowOK, CopyFlow, Pushing, Marked, InSync, localVars
    <2> QED BY <2>2, <2>3, <2>4 DEF FlowOK
  <1> QED BY <1>1, <1>3, <1>4, <1>5, <1>6 DEF DataOK

LEMMA StoreData ==
    ASSUME BaseInv, MaxFaults = 0, DataOK, NEW t \in Tasks, StoreStep(t),
           UNCHANGED <<fileLock, localVars, task, synced>>
    PROVE  DataOK'
  <1> SUFFICES ASSUME ~Downgraded(t) PROVE DataOK'
    BY DowngradedData
  <1>1. /\ req'[t] = NoRequest /\ resp'[t].status # "error" /\ ObjectGrows
        /\ \A u \in Tasks \ {t} : req'[u] = req[u] /\ resp'[u] = resp[u]
    BY FileServed DEF DataOK
  <1>2. \A i \in Instances : CopyOK(i)'
    BY <1>1, GrowthCopy DEF DataOK
  <1>3. ASSUME NEW u \in Tasks \ {t} PROVE PushOK(u)' /\ (Live(u)' => FlowOK(u)')
    BY <1>1, <1>3, GrowthData DEF DataOK
  <1>4. PushOK(t)'
    BY <1>1 DEF PushOK, NoRequest
  <1>5. ASSUME Live(t)' PROVE FlowOK(t)'
    <2>1. Live(t) /\ MoverOK(t)
      BY <1>5, InstanceType DEF DataOK, MoverOK, Live, localVars
    <2> QED BY <2>1, OwnAnswerData
  <1>6. fileLock' => synced' \subseteq (IF object' = Absent THEN {} ELSE object'.updates)
    <2> SUFFICES ASSUME fileLock PROVE synced \subseteq (IF object' = Absent THEN {} ELSE object'.updates)
      OBVIOUS
    <2>1. synced \subseteq (IF object = Absent THEN {} ELSE object.updates)
      BY DEF DataOK
    <2>2. CASE object = Absent
      BY <2>1, <2>2
    <2>3. CASE object # Absent
      BY <1>1, <2>1, <2>3, Growth
    <2> QED BY <2>2, <2>3
  <1> QED BY <1>2, <1>3, <1>4, <1>5, <1>6 DEF DataOK

-----------------------------------------------------------------------------
(***************************************************************************)
(* Data: all steps.                                                        *)
(***************************************************************************)

\* Operations other than the start itself, and leases, are those of instances
\* that have started.
RunningInv ==
    /\ \A t \in Tasks : task[t].op \notin {"none", "boot"} => status[I(t)] = "up"
    /\ \A i \in Instances : leases[i].held => status[i] = "up"

\* An instance that has started does not start again.
LEMMA StatusAfter ==
    ASSUME BaseInv, NEW t \in Tasks, StepOf(t)
    PROVE  status'[I(t)] = status[I(t)] \/ (ManagerStep(t) /\ status'[I(t)] = "up")
  <1>1. status \in [Instances -> {"new", "up", "dead"}] /\ I(t) \in Instances
    BY InstanceType DEF BaseInv, Types, InstanceTypes
  <1>2. CASE LowerStep(t) \/ Boot(t)
    BY <1>2 DEF LowerStep, Boot, localVars
  <1>3. CASE AppStep(t) \/ TickStep(t)
    BY <1>3 DEF AppStep, TickStep, OpenWrite, Write, Unlink, Fsync, Close, Read, Check, Renew,
                Flush, Poll, localVars
  <1>4. CASE ManagerStep(t)
    <2>1. UNCHANGED status \/ status' = [status EXCEPT ![I(t)] = "up"]
      BY <1>4 DEF ManagerStep, UploadPut, UploadHead, UploadRecreate, UploadVerified, Refreshed,
                  OpenFailed, OpenAcquired, HeadAnswered, HeadGot, Released, LeaseDeleted, Renewed,
                  QueueDeleted, PollListed, BootListed, Got, UploadConflict, localVars
    <2> QED BY <1>1, <1>4, <2>1
  <1> QED BY <1>2, <1>3, <1>4 DEF StepOf

LEMMA RunningNext ==
    ASSUME BaseInv, SingleThreaded, RunningInv, [Next]_vars
    PROVE  RunningInv'
  <1>1. ASSUME NEW t \in Tasks, StepOf(t) PROVE RunningInv'
    <2> DEFINE i == I(t)
    <2>1. i \in Instances /\ TaskFrame(t) /\ InstanceFrame(i)
      BY <1>1, FrameOfStep, InstanceType
    <2>2. status'[i] = status[i] \/ (ManagerStep(t) /\ status'[i] = "up")
      BY <1>1, StatusAfter
    <2>3. status[i] = "up" => status'[i] = "up"
      BY <2>2
    <2>4. /\ task'[t].op \notin {"none", "boot"} => status'[i] = "up"
          /\ leases'[i].held => status'[i] = "up"
      <3>1. CASE status[i] = "up"
        BY <2>3, <3>1
      <3>2. CASE status[i] # "up"
        <4>1. ~leases[i].held /\ task[t].op \in {"none", "boot"}
          BY <2>1, <3>2 DEF RunningInv
        <4>2. ~AppStep(t) /\ ~TickStep(t)
          BY <3>2 DEF AppStep, TickStep, OpenWrite, Write, Unlink, Fsync, Close, Read, Check,
                      Renew, Flush, Poll, Ready
        <4>3. CASE LowerStep(t)
          BY <4>1, <4>3 DEF LowerStep, localVars
        <4>4. CASE Boot(t)
          <5>1. task'[t].op = "boot" /\ UNCHANGED leases
            BY <4>4, Facts DEF Boot, localVars, TaskTypes, TaskType
          <5> QED BY <4>1, <5>1
        <4>5. CASE ManagerStep(t)
          <5>1. task[t].pc # "idle"
            BY <4>5 DEF ManagerStep, UploadPut, UploadHead, UploadRecreate, UploadVerified, Refreshed,
                  OpenFailed, OpenAcquired, HeadAnswered, HeadGot, Released, LeaseDeleted, Renewed,
                  QueueDeleted, PollListed, BootListed, Got, Resumes
          <5>2. task[t].op = "boot" /\ task[t].pc \in {"get", "list"}
            BY <4>1, <5>1, Facts DEF TaskOK, ControlOK, TaskType, Pcs, PushPcs
          <5>3. BootListed(t) \/ Got(t)
            BY <4>5, <5>2 DEF ManagerStep, UploadPut, UploadHead, UploadRecreate, UploadVerified,
                  Refreshed, OpenFailed, OpenAcquired, HeadAnswered, HeadGot, Released, LeaseDeleted,
                  Renewed, QueueDeleted, PollListed, Resumes
          <5>4. UNCHANGED leases /\ (Finish(t) \/ Await(t, "get", Get("file")))
            BY <5>3 DEF BootListed, Got
          <5>5. task'[t].op \in {"none", "boot"}
            BY <5>2, <5>4, Facts DEF Finish, Await, Idle, TaskTypes, TaskType
          <5> QED BY <4>1, <5>4, <5>5
        <4> QED BY <1>1, <4>2, <4>3, <4>4, <4>5 DEF StepOf
      <3> QED BY <3>1, <3>2
    <2>5. \A u \in Tasks \ {t} : task'[u] = task[u] /\ I(u) \in Instances \ {i}
      BY <2>1, InstanceType DEF TaskFrame, SingleThreaded
    <2>6. \A j \in Instances \ {i} : leases'[j] = leases[j] /\ status'[j] = status[j]
      BY <2>1 DEF InstanceFrame
    <2> QED BY <2>4, <2>5, <2>6 DEF RunningInv
  <1>2. ASSUME NEW i \in Instances, Crash(i) PROVE RunningInv'
    <2>1. /\ leases'[i] = NoLease
          /\ \A j \in Instances \ {i} : leases'[j] = leases[j] /\ status'[j] = status[j]
          /\ \A u \in Tasks : task'[u] = IF I(u) = i THEN Idle ELSE task[u]
      BY <1>2 DEF Crash, BaseInv, Types, InstanceTypes
    <2> QED BY <2>1, InstanceType DEF RunningInv, NoLease, Idle
  <1>3. CASE UNCHANGED <<task, status, leases>>
    BY <1>3 DEF RunningInv
  <1> QED BY <1>1, <1>2, <1>3 DEF Next, StepOf, Tick, vars, localVars

\* Unlinks are counted.
LEMMA UnlinksCounted ==
    ASSUME BaseInv, NEW t \in Tasks, StepOf(t), used'.unlink = 0
    PROVE  used.unlink = 0 /\ ~Unlink(t)
  <1>1. used \in UsedType /\ used.unlink \in Nat
    BY Facts, ManagerAssumption DEF UsedType
  <1>2. CASE Unlink(t)
    BY <1>1, <1>2 DEF Unlink, UsedType
  <1>3. CASE OpenWrite(t) \/ Write(t)
    <2>1. used'.unlink = used.unlink
      BY <1>1, <1>3 DEF OpenWrite, Write, UsedType
    <2>2. ~Unlink(t)
      BY <1>1, <2>1 DEF Unlink, UsedType
    <2> QED BY <2>1, <2>2
  <1>4. CASE UNCHANGED used
    BY <1>1, <1>4 DEF Unlink, UsedType
  <1>5. CASE Boot(t) \/ TickStep(t) \/ LowerStep(t) \/ AppStep(t)
    BY <1>2, <1>3, <1>4, <1>5 DEF Boot, TickStep, LowerStep, AppStep, Fsync, Close, Read, Check,
       Renew, Flush, Poll
  <1>6. CASE ManagerStep(t)
    BY <1>4, <1>6 DEF ManagerStep, UploadPut, UploadHead, UploadRecreate, UploadVerified, Refreshed,
                  OpenFailed, OpenAcquired, HeadAnswered, HeadGot, Released, LeaseDeleted, Renewed,
                  QueueDeleted, PollListed, BootListed, Got
  <1> QED BY <1>5, <1>6 DEF StepOf

\* What a step keeps for the task that makes it.
LEMMA MoverData ==
    ASSUME BaseInv, "truncate" \notin OpenModes, NEW t \in Tasks,
           \/ Boot(t) \/ AppStep(t) \/ TickStep(t) \/ ManagerStep(t)
           \/ LeaseStep(t) /\ UNCHANGED <<localVars, task>>,
           ~Unlink(t), MoverOK(t), StageOK(t), RunningInv, UNCHANGED fileLock
    PROVE  MoverOK(t)' /\ UNCHANGED object
  <1>1. status[I(t)] = "new" => ~leases[I(t)].held
    BY InstanceType DEF RunningInv
  <1>2. CASE Boot(t) \/ AppStep(t)
    <2>1. UNCHANGED object
      BY <1>2 DEF Boot, AppStep, OpenWrite, Write, Unlink, Fsync, Close, Read, Check, object
    <2>2. MoverOK(t)'
      BY <1>1, <1>2, OpenWriteData, WriteData, FsyncData, CloseData, QueryData DEF AppStep
    <2> QED BY <2>1, <2>2
  <1>3. CASE TickStep(t)
    <2>1. UNCHANGED object
      BY <1>3 DEF TickStep, Renew, Flush, Poll, object
    <2>2. MoverOK(t)'
      BY <1>1, <1>3, RenewData, FlushData, QueryData DEF TickStep
    <2> QED BY <2>1, <2>2
  <1>4. CASE ManagerStep(t)
    <2>1. UNCHANGED object
      BY <1>4 DEF ManagerStep, UploadPut, UploadHead, UploadRecreate, UploadVerified, Refreshed,
                  OpenFailed, OpenAcquired, HeadAnswered, HeadGot, Released, LeaseDeleted, Renewed,
                  QueueDeleted, PollListed, BootListed, Got, object
    <2>2. CASE OpenFailed(t) \/ Renewed(t) \/ Released(t)
      <3>1. ~Pushing(t)
        BY <2>2 DEF OpenFailed, Renewed, Released, Pushing
      <3> QED BY <2>1, <2>2, <3>1, FinishData
    <2>3. CASE UploadPut(t) \/ UploadHead(t) \/ UploadRecreate(t) \/ UploadVerified(t)
      BY <2>1, <2>3, UploadData
    <2>4. CASE \/ LeaseDeleted(t) \/ QueueDeleted(t) \/ PollListed(t) \/ BootListed(t) \/ Got(t)
               \/ Refreshed(t)
      BY <2>1, <2>4, AnsweredData, RefreshedData
    <2>5. CASE OpenAcquired(t) \/ HeadAnswered(t) \/ HeadGot(t)
      BY <2>1, <2>5, OpenAcquiredData, HeadAnsweredData, HeadGotData
    <2> QED BY <1>4, <2>2, <2>3, <2>4, <2>5 DEF ManagerStep
  <1>5. CASE LeaseStep(t) /\ UNCHANGED <<localVars, task>>
    <2>1. UNCHANGED object
      BY <1>5 DEF LeaseStep, AcquireGot, AcquirePut, AcquireVerified, AcquireWake, RenewDone,
                  ReleaseDone, object
    <2> QED BY <1>5, <2>1, LeaseStepData
  <1> QED BY <1>2, <1>3, <1>4, <1>5

\* fsync reports what is stored.
LEMMA SyncedData ==
    ASSUME BaseInv, NEW t \in Tasks, StepOf(t), MoverOK(t), fileLock
    PROVE  synced' \subseteq (synced \union (IF object = Absent THEN {} ELSE object.updates))
  <1> DEFINE i == I(t)
             stored == IF object = Absent THEN {} ELSE object.updates
  <1>1. \A v : Stored(v) /\ v # Absent => v.updates \subseteq stored
    BY DEF Stored
  <1>2. CASE Fsync(t)
    <2> SUFFICES ASSUME synced' # synced PROVE local[i].updates \subseteq stored
      BY <1>2 DEF Fsync
    <2>1. leases[i].held /\ ~leases[i].dirty /\ local[i] # Absent
      BY <1>2, Facts DEF Fsync, EntryType
    <2>2. InSync(i)
      BY <1>2, <2>1 DEF MoverOK, FlowOK, CopyFlow, Pushing, Marked, Fsync, Ready
    <2>3. Stored(cache[i])
      BY DEF MoverOK, CopyOK
    <2>4. CASE local[i] = cache[i]
      BY <1>1, <2>1, <2>3, <2>4
    <2>5. CASE local[i] = EmptyFile
      <3>1. local[i].updates = {}
        BY <2>5 DEF EmptyFile, File
      <3> QED BY <3>1
    <2> QED BY <2>2, <2>4, <2>5 DEF InSync
  <1>3. CASE UploadPut(t) \/ UploadRecreate(t) \/ UploadVerified(t) \/ UploadHead(t)
    <2>1. task[t].pc \notin {"recreate", "verify"} /\ resp[t].status # "error"
      BY DEF MoverOK, FlowOK, QueryFlow, PushOK
    <2>2. \/ synced' = synced
          \/ task[t].pc = "upload" /\ resp[t].status = "ok" /\ UploadOk(t, resp[t].val)
      BY <1>3, <2>1 DEF UploadPut, UploadRecreate, UploadVerified, UploadHead, Resumes,
                        UploadConflict, UploadError
    <2>3. CASE task[t].pc = "upload" /\ resp[t].status = "ok" /\ UploadOk(t, resp[t].val)
      <3>1. resp[t].val = task[t].content /\ Stored(resp[t].val)
        BY <2>3 DEF MoverOK, FlowOK, UploadFlow, QueryFlow, KeyOf, LockPcs
      <3>2. task[t].content.updates \subseteq stored
        BY <1>1, <3>1, Facts, AbsentAssumption DEF TaskType
      <3> QED BY <2>3, <3>2 DEF UploadOk
    <2> QED BY <2>2, <2>3
  <1>4. CASE UNCHANGED synced
    BY <1>4
  <1>5. CASE Boot(t) \/ TickStep(t) \/ LowerStep(t) \/ AppStep(t)
    BY <1>2, <1>4, <1>5 DEF Boot, TickStep, LowerStep, AppStep, OpenWrite, Write, Unlink, Close,
       Read, Check, Renew, Flush, Poll
  <1>6. CASE ManagerStep(t)
    BY <1>3, <1>4, <1>6 DEF ManagerStep, Refreshed,
                  OpenFailed, OpenAcquired, HeadAnswered, HeadGot, Released, LeaseDeleted, Renewed,
                  QueueDeleted, PollListed, BootListed, Got
  <1> QED BY <1>5, <1>6 DEF StepOf

\* A task and an instance that nobody touches, while the object stays.
LEMMA DataUntouched ==
    ASSUME UNCHANGED <<object, fileLock>>, NEW u \in Tasks, PushOK(u), Live(u) => FlowOK(u),
           task'[u] = task[u], req'[u] = req[u], resp'[u] = resp[u],
           local'[I(u)] = local[I(u)], cache'[I(u)] = cache[I(u)], leases'[I(u)] = leases[I(u)],
           queue'[I(u)] = queue[I(u)], status'[I(u)] = status[I(u)]
    PROVE  PushOK(u)' /\ (Live(u)' => FlowOK(u)')
  <1>1. PushOK(u)'
    BY DEF PushOK
  <1>2. ASSUME Live(u)' PROVE FlowOK(u)'
    <2>1. FlowOK(u)
      BY <1>2 DEF Live
    <2>2. UploadFlow(u)' /\ QueryFlow(u)'
      BY <2>1 DEF FlowOK, UploadFlow, QueryFlow, Stored, KeyOf
    <2>3. CopyFlow(u)'
      BY <2>1 DEF FlowOK, CopyFlow, Pushing, Marked, InSync
    <2> QED BY <2>2, <2>3 DEF FlowOK
  <1> QED BY <1>1, <1>2

LEMMA CopyUntouched ==
    ASSUME UNCHANGED <<object, fileLock>>, NEW j \in Instances, CopyOK(j),
           local'[j] = local[j], cache'[j] = cache[j], leases'[j] = leases[j],
           queue'[j] = queue[j], fds'[j] = fds[j]
    PROVE  CopyOK(j)'
  BY DEF CopyOK, Stored, InSync

\* A task that makes a step is alive.
LEMMA StepIsAlive ==
    ASSUME BaseInv, NEW t \in Tasks,
           \/ Boot(t) \/ AppStep(t) \/ TickStep(t) \/ ManagerStep(t) \/ LeaseStep(t)
    PROVE  Live(t)
  <1>1. CASE Boot(t)
    BY <1>1 DEF Boot, Live
  <1>2. CASE AppStep(t) \/ TickStep(t)
    BY <1>2 DEF AppStep, TickStep, OpenWrite, Write, Unlink, Fsync, Close, Read, Check, Renew,
                Flush, Poll, Ready, Live
  <1>3. CASE ManagerStep(t)
    <2>1. task[t].pc # "idle"
      BY <1>3 DEF ManagerStep, UploadPut, UploadHead, UploadRecreate, UploadVerified, Refreshed,
                  OpenFailed, OpenAcquired, HeadAnswered, HeadGot, Released, LeaseDeleted, Renewed,
                  QueueDeleted, PollListed, BootListed, Got, Resumes
    <2> QED BY <2>1, Alive
  <1>4. CASE LeaseStep(t)
    <2>1. Pc(t) \in AwaitPcs
      BY <1>4 DEF LeaseStep, AcquireGot, AcquirePut, AcquireVerified, AcquireWake, RenewDone,
                  ReleaseDone, AwaitPcs
    <2>2. task[t].pc # "idle"
      BY <2>1, Calling DEF LockPcs
    <2> QED BY <2>2, Alive
  <1> QED BY <1>1, <1>2, <1>3, <1>4

LEMMA StepData ==
    ASSUME BaseInv, LeaseInv, RunningInv, SingleThreaded, MaxFaults = 0,
           "truncate" \notin OpenModes, DataInv, NEW t \in Tasks, StepOf(t), UNCHANGED fileLock,
           used'.unlink = 0
    PROVE  DataOK'
  <1> DEFINE i == I(t)
  <1>1. DataOK /\ ~Unlink(t)
    BY UnlinksCounted DEF DataInv
  <1>2. CASE StoreStep(t) /\ UNCHANGED <<localVars, task, synced>>
    BY <1>1, <1>2, StoreData
  <1>3. CASE \/ Boot(t) \/ AppStep(t) \/ TickStep(t) \/ ManagerStep(t)
             \/ LeaseStep(t) /\ UNCHANGED <<localVars, task>>
    <2>1. Live(t)
      BY <1>3, StepIsAlive
    <2>2. i \in Instances /\ MoverOK(t) /\ StageOK(t)
      BY <1>1, <2>1, InstanceType DEF DataOK, MoverOK, LeaseInv, LeaseOK
    <2>3. MoverOK(t)' /\ UNCHANGED object
      BY <1>1, <1>3, <2>2, MoverData
    <2>4. TaskFrame(t) /\ InstanceFrame(i)
      BY FrameOfStep
    <2>5. ASSUME NEW u \in Tasks \ {t} PROVE PushOK(u)' /\ (Live(u)' => FlowOK(u)')
      <3>1. I(u) \in Instances \ {i} /\ PushOK(u) /\ (Live(u) => FlowOK(u))
        BY <1>1, <2>5, InstanceType DEF SingleThreaded, DataOK
      <3> QED BY <2>3, <2>4, <2>5, <3>1, DataUntouched DEF TaskFrame, InstanceFrame
    <2>6. ASSUME NEW j \in Instances \ {i} PROVE CopyOK(j)'
      BY <1>1, <2>3, <2>4, <2>6, CopyUntouched DEF DataOK, InstanceFrame
    <2>7. fileLock' => synced' \subseteq (IF object' = Absent THEN {} ELSE object'.updates)
      <3> SUFFICES ASSUME fileLock
                   PROVE  synced' \subseteq (IF object' = Absent THEN {} ELSE object'.updates)
        OBVIOUS
      <3>1. synced \subseteq (IF object = Absent THEN {} ELSE object.updates)
        BY <1>1 DEF DataOK
      <3>2. synced' \subseteq (synced \union (IF object = Absent THEN {} ELSE object.updates))
        BY <2>2, SyncedData
      <3> QED BY <2>3, <3>1, <3>2
    <2> QED BY <2>3, <2>5, <2>6, <2>7 DEF DataOK, MoverOK
  <1> QED BY <1>2, <1>3 DEF StepOf, LowerStep

\* A crash takes the copy along; the object and the requests in flight stay.
LEMMA CrashData ==
    ASSUME BaseInv, DataOK, NEW i \in Instances, Crash(i), UNCHANGED fileLock
    PROVE  DataOK'
  <1>1. /\ UNCHANGED <<object, req, resp, synced>>
        /\ local'[i] = Absent /\ cache'[i] = Absent /\ leases'[i] = NoLease /\ queue'[i] = <<>>
        /\ fds'[i] = [linked |-> 0, orphan |-> 0] /\ status'[i] = "dead"
        /\ \A u \in Tasks : I(u) # i => task'[u] = task[u]
    BY DEF Crash, storeVars, object, BaseInv, Types, InstanceTypes
  <1>2. \A j \in Instances \ {i} :
          /\ local'[j] = local[j] /\ cache'[j] = cache[j] /\ leases'[j] = leases[j]
          /\ queue'[j] = queue[j] /\ fds'[j] = fds[j] /\ status'[j] = status[j]
    BY DEF Crash, BaseInv, Types, InstanceTypes
  <1>3. CopyOK(i)'
    BY <1>1 DEF CopyOK, Within, Stored, NoLease, InSync
  <1>4. ASSUME NEW j \in Instances \ {i} PROVE CopyOK(j)'
    BY <1>1, <1>2, <1>4, CopyUntouched DEF DataOK
  <1>5. ASSUME NEW u \in Tasks PROVE PushOK(u)' /\ (Live(u)' => FlowOK(u)')
    <2>1. PushOK(u) /\ (Live(u) => FlowOK(u)) /\ I(u) \in Instances
      BY InstanceType DEF DataOK
    <2>2. CASE I(u) = i
      BY <1>1, <2>1, <2>2 DEF Live, PushOK
    <2>3. CASE I(u) # i
      BY <1>1, <1>2, <2>1, <2>3, DataUntouched
    <2> QED BY <2>2, <2>3
  <1>6. (fileLock => synced \subseteq (IF object = Absent THEN {} ELSE object.updates))'
    BY <1>1 DEF DataOK
  <1> QED BY <1>3, <1>4, <1>5, <1>6 DEF DataOK

LEMMA DataStart ==
    ASSUME Init
    PROVE  DataInv
  <1>1. ASSUME NEW u \in Tasks PROVE PushOK(u) /\ FlowOK(u)
    <2>1. /\ task[u].pc = "idle" /\ task[u].op = "none" /\ req[u].op = "none"
          /\ resp[u].status = "none"
      BY DEF Init, StoreInit, Idle, NoRequest, NoResponse
    <2>2. InSync(I(u))
      BY InstanceType DEF Init, InSync
    <2>3. PushOK(u) /\ UploadFlow(u) /\ QueryFlow(u) /\ CopyFlow(u)
      BY <2>1, <2>2 DEF PushOK, UploadFlow, QueryFlow, CopyFlow, Marked
    <2> QED BY <2>3 DEF FlowOK
  <1>2. ASSUME NEW i \in Instances PROVE CopyOK(i)
    BY DEF Init, CopyOK, Within, Stored, NoLease, InSync
  <1>3. synced = {}
    BY DEF Init
  <1> QED BY <1>1, <1>2, <1>3 DEF DataInv, DataOK

LEMMA DataNext ==
    ASSUME BaseInv, LeaseInv, RunningInv, SingleThreaded, MaxFaults = 0,
           "truncate" \notin OpenModes, DataInv, [Next]_vars
    PROVE  DataInv'
  <1> SUFFICES ASSUME used'.unlink = 0 PROVE DataOK'
    BY DEF DataInv
  <1>1. ASSUME NEW t \in Tasks, StepOf(t), UNCHANGED fileLock PROVE DataOK'
    BY <1>1, StepData
  <1>2. ASSUME NEW i \in Instances, Crash(i), UNCHANGED fileLock PROVE DataOK'
    <2>1. used'.unlink = used.unlink
      BY <1>2 DEF Crash, BaseInv, Types, SharedTypes, UsedType
    <2> QED BY <1>2, <2>1, CrashData DEF DataInv
  <1>3. CASE UNCHANGED <<fileLock, store, req, resp, localVars, task, used, synced>>
    <2>1. DataOK /\ UNCHANGED <<object, local, cache, leases, queue, fds, status>>
      BY <1>3 DEF DataInv, object, localVars
    <2>2. \A u \in Tasks : PushOK(u)' /\ (Live(u)' => FlowOK(u)')
      BY <1>3, <2>1, DataUntouched DEF DataOK
    <2>3. \A j \in Instances : CopyOK(j)'
      BY <1>3, <2>1, CopyUntouched DEF DataOK
    <2> QED BY <1>3, <2>1, <2>2, <2>3 DEF DataOK
  <1> QED BY <1>1, <1>2, <1>3 DEF Next, StepOf, Tick, vars, leaseVars, storeVars

\* DataInv is an invariant of instances with a single thread, on a store that
\* supports conditional deletes and answers every request, with opens that do
\* not truncate.  Instances may still crash at any time, race for the lock, and
\* let their leases run out while a PUT is in flight.
THEOREM DataIsInvariant ==
    ASSUME SingleThreaded, MaxFaults = 0, "truncate" \notin OpenModes
    PROVE  Spec => []DataInv
  <1>1. Init => RunningInv
    BY DEF Init, RunningInv, NoLease, Idle
  <1>2. BaseInv /\ RunningInv /\ [Next]_vars => RunningInv'
    BY RunningNext
  <1>3. Init => DataInv
    BY DataStart
  <1>4. BaseInv /\ LeaseInv /\ RunningInv /\ DataInv /\ [Next]_vars => DataInv'
    BY DataNext
  <1> QED BY <1>1, <1>2, <1>3, <1>4, BaseIsInvariant, LeaseIsInvariant, PTL DEF Spec

LEMMA LocksEnabled ==
    ASSUME FileLocks \subseteq {TRUE} PROVE Spec => []fileLock
  <1>1. Init => fileLock
    BY DEF Init
  <1>2. fileLock /\ [Next]_vars => fileLock'
    BY DEF Next, vars
  <1> QED BY <1>1, <1>2, PTL DEF Spec

\* "A write never silently overwrites another instance's newer content": with
\* leases enabled, every version of the object contains the updates of the one
\* it replaces, because every PUT of upload_with_cond carries If-Match on a
\* version whose updates its content contains.
THEOREM NoLostUpdateHolds ==
    ASSUME SingleThreaded, MaxFaults = 0, "truncate" \notin OpenModes,
           FileLocks \subseteq {TRUE}
    PROVE  Spec => NoLostUpdate
  <1> DEFINE Kept == used.unlink = 0 /\ object # Absent /\ object' # Absent =>
                        object.updates \subseteq object'.updates
  <1>1. BaseInv /\ DataInv /\ fileLock /\ [Next]_vars => [Kept]_vars
    <2> SUFFICES ASSUME BaseInv, DataInv, fileLock, [Next]_vars, used.unlink = 0, object # Absent,
                        object' # Absent
                 PROVE  object.updates \subseteq object'.updates
      OBVIOUS
    <2>1. CASE object' = object
      BY <2>1
    <2>2. CASE object' # object
      <3>1. PICK t \in Tasks : StoreStep(t) /\ ~Downgraded(t)
        BY <2>2, StoreChanges DEF object, Downgraded
      <3>2. PushOK(t)
        BY DEF DataInv, DataOK
      <3>3. ObjectGrows
        BY <3>1, <3>2, FileServed
      <3> QED BY <3>3, Growth
    <2> QED BY <2>1, <2>2
  <1>2. Spec => [][Kept]_vars
    BY <1>1, BaseIsInvariant, DataIsInvariant, LocksEnabled, PTL DEF Spec
  <1> QED BY <1>2 DEF NoLostUpdate

\* What on_fsync has reported as stored is in the object and stays there.
THEOREM SyncedIsStoredHolds ==
    ASSUME SingleThreaded, MaxFaults = 0, "truncate" \notin OpenModes,
           FileLocks \subseteq {TRUE}
    PROVE  Spec => []SyncedIsStored
  <1>1. DataInv /\ fileLock => SyncedIsStored
    BY DEF DataInv, DataOK, SyncedIsStored
  <1> QED BY <1>1, DataIsInvariant, LocksEnabled, PTL

\* As long as nothing is ever unlinked, a leased copy at rest without pending
\* changes is the version pinned as the base.
THEOREM CleanCopyIsBaseHolds ==
    ASSUME SingleThreaded, MaxFaults = 0, "truncate" \notin OpenModes,
           MaxUnlinks = 0
    PROVE  Spec => []CleanCopyIsBase
  <1>1. BaseInv /\ LeaseInv /\ DataInv => CleanCopyIsBase
    <2> SUFFICES ASSUME BaseInv, LeaseInv, DataInv, NEW i \in Instances, leases[i].held,
                        Settled(i), ~leases[i].dirty
                 PROVE  \/ local[i] = leases[i].base
                        \/ local[i] = EmptyFile /\ leases[i].base = Absent
      BY DEF CleanCopyIsBase
    <2>1. DataOK
      BY DEF BaseInv, Types, SharedTypes, UsedType, DataInv
    <2>2. PICK t \in Tasks : I(t) = i
      BY DEF LeaseInv, OwnedEntries
    <2>3. FlowOK(t) /\ task[t].pc = "idle"
      BY <2>1, <2>2 DEF LeaseInv, OwnedEntries, DataOK, Live, Settled
    <2>4. InSync(i)
      BY <2>2, <2>3 DEF FlowOK, CopyFlow, Pushing, Marked
    <2>5. leases[i].base = cache[i]
      BY <2>1 DEF DataOK, CopyOK
    <2> QED BY <2>4, <2>5 DEF InSync
  <1> QED BY <1>1, BaseIsInvariant, LeaseIsInvariant, DataIsInvariant, PTL

\* As long as nothing is ever unlinked, an instance at rest without a lease and
\* with an empty queue has nothing that it has not sent: every path that ends
\* an operation leaves a change marked, or sent.
THEOREM NothingUnsentHolds ==
    ASSUME SingleThreaded, MaxFaults = 0, "truncate" \notin OpenModes,
           MaxUnlinks = 0
    PROVE  Spec => []NothingUnsent
  <1>1. BaseInv /\ DataInv => NothingUnsent
    <2> SUFFICES ASSUME BaseInv, DataInv, NEW i \in Instances, status[i] = "up", Settled(i),
                        ~leases[i].held, queue[i] = <<>>
                 PROVE  InSync(i)
      BY DEF NothingUnsent, InSync
    <2>1. DataOK
      BY DEF BaseInv, Types, SharedTypes, UsedType, DataInv
    <2>2. CASE \A t \in Tasks : I(t) # i
      BY <2>1, <2>2 DEF DataOK, CopyOK
    <2>3. ASSUME NEW t \in Tasks, I(t) = i PROVE InSync(i)
      <3>1. FlowOK(t) /\ task[t].pc = "idle"
        BY <2>1, <2>3 DEF DataOK, Live, Settled
      <3> QED BY <2>3, <3>1 DEF FlowOK, CopyFlow, Pushing, Marked
    <2> QED BY <2>2, <2>3
  <1> QED BY <1>1, BaseIsInvariant, DataIsInvariant, PTL

=============================================================================
