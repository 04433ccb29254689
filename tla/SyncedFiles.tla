---------------------------- MODULE SyncedFiles ----------------------------
(***************************************************************************)
(* The file system and the sync manager as their callers see them: the     *)
(* inodes, the tree and the descriptors of fs-core, and what the sync      *)
(* manager promises about them.  It counts the write descriptors of a path *)
(* under one lease, remembers whether the path is dirty, and pushes the    *)
(* file when the last one closes.  What happens inside a call of fs-core   *)
(* is OpenFiles and InodeTree, what the sync manager does with S3 in       *)
(* detail is SyncManager; here one call is one step.                       *)
(*                                                                         *)
(* A file is the set of the writes it holds, each with the offset it was   *)
(* written at; the object that S3 stores has them and a mark, by which an  *)
(* empty object differs from none.                                         *)
(***************************************************************************)
EXTENDS Naturals, Sequences, FiniteSets, FiniteSetsExt

CONSTANTS
    Clients,
    NoClient,
    Paths,        \* paths, sequences of names
    Configs,      \* the configurations a process is started with: see config
    ForeignPaths  \* the paths another instance may have leased

ASSUME FilesAssumption ==
    /\ NoClient \notin Clients
    /\ Paths \subseteq Seq(STRING) \ {<<>>}
    /\ \A cfg \in Configs : IsFiniteSet(cfg.start.dirs) /\ IsFiniteSet(cfg.start.files)

VARIABLES
    config,     \* [lock, realtime, readS3 : BOOLEAN, start, faults : Nat, ...]:
                \* file locks, sync mode, VFS_READ_MODE=s3; the directories and
                \* files there are at the start, the objects in S3, and whether
                \* the files were loaded from them, start = [dirs, files,
                \* objects, loaded]; a bound on the requests to S3 that fail.
                \* The callers' modules have more
    faults,     \* how many more requests to S3 may fail
    nodes,      \* the inodes, a sequence of [dir, writes]
    tree,       \* path -> inode
    fds,        \* open descriptor -> [inode, path, write, pos]
    nextFd,     \* the next descriptor number
    leases,     \* path -> [refs, dirty, delete] of the paths leased
    queue,      \* path -> its operation in the outbound queue: [op, etag], etag
                \* being the object a delete is meant for ({}: any)
    store,      \* path -> its object in S3; {} for none
    known,      \* the paths whose ETag is in the metadata cache
    foreign     \* the paths that another instance has leased

fsVars == <<nodes, tree, fds, nextFd>>
syncVars == <<leases, queue, store, known>>

NoLease == [refs |-> 0, dirty |-> FALSE, delete |-> FALSE]
NoOp == [op |-> "none", etag |-> {}]

\* What files hold at the start.
Original == {[c |-> NoClient, n |-> 0, at |-> 0]}

\* The object with the content writes.
Mark == [c |-> NoClient, n |-> 1, at |-> 0]
Object(writes) == writes \union {Mark}

\* Nothing is open.
FilesInit ==
    /\ config \in Configs /\ faults = config.faults
    /\ LET start == config.start
           paths == start.dirs \union start.files
           number == CHOOSE f \in [paths -> 1 .. Cardinality(paths)] :
                        \A p, q \in paths : f[p] = f[q] => p = q IN
       /\ tree = number
       /\ nodes = [i \in 1 .. Cardinality(paths) |->
                     [dir |-> \E p \in start.dirs : number[p] = i,
                      writes |-> IF \E p \in start.files : number[p] = i THEN Original ELSE {}]]
       /\ store = [p \in Paths |-> IF p \in start.objects THEN Object(Original) ELSE {}]
       /\ known = IF start.loaded THEN start.files ELSE {}
    /\ fds = <<>> /\ nextFd = 3
    /\ leases = [p \in Paths |-> NoLease]
    /\ queue = [p \in Paths |-> NoOp]
    /\ foreign \in IF config.lock THEN SUBSET ForeignPaths ELSE {{}}

-----------------------------------------------------------------------------
(***************************************************************************)
(* Helpers                                                                 *)
(***************************************************************************)

With(f, x, y) == [z \in DOMAIN f \union {x} |-> IF z = x THEN y ELSE f[z]]
Without(f, xs) == [z \in DOMAIN f \ xs |-> f[z]]

\* The inodes and the tree; some operators take them as they are after a step.
Files == [nodes |-> nodes, tree |-> tree]

ExistsIn(f, p) == p \in DOMAIN f.tree
IsDirIn(f, p) == p = <<>> \/ (ExistsIn(f, p) /\ f.nodes[f.tree[p]].dir)
Exists(p) == ExistsIn(Files, p)
IsDir(p) == IsDirIn(Files, p)
IsFile(p) == Exists(p) /\ ~IsDir(p)
Parent(p) == SubSeq(p, 1, Len(p) - 1)
Under(p, dir) == Len(p) > Len(dir) /\ SubSeq(p, 1, Len(dir)) = dir
Size(i) == Max({0} \union {w.at + 1 : w \in nodes[i].writes})
Replaced(f, i, writes) == [nodes |-> [f.nodes EXCEPT ![i].writes = writes], tree |-> f.tree]
NewFile(f, p, writes) ==
    [nodes |-> Append(f.nodes, [dir |-> FALSE, writes |-> writes]),
     tree |-> With(f.tree, p, Len(f.nodes) + 1)]

\* The files f with the directories new, each below the one before it.
NewDirs(f, new) ==
    [nodes |-> f.nodes \o [k \in 1 .. Cardinality(new) |-> [dir |-> TRUE, writes |-> {}]],
     tree |-> [q \in DOMAIN f.tree \union new |->
                  IF q \in new THEN Len(f.nodes) + Cardinality({r \in new : Len(r) <= Len(q)})
                  ELSE f.tree[q]]]

-----------------------------------------------------------------------------
(***************************************************************************)
(* What the callers use of fs-core                                         *)
(***************************************************************************)

\* open_path_with_flags, open_at on the files f: the inode there is, emptied for
\* O_TRUNC, or a new file.  path is the one the caller keeps for the descriptor.
CanOpen(f, p, write, creat) ==
    IF ExistsIn(f, p) THEN ~(IsDirIn(f, p) /\ write) ELSE creat /\ IsDirIn(f, Parent(p))
OpenFile(f, p, path, write, trunc) ==
    LET g == CASE ~ExistsIn(f, p) -> NewFile(f, p, {})
               [] ExistsIn(f, p) /\ trunc -> Replaced(f, f.tree[p], {})
               [] OTHER -> f IN
    /\ nodes' = g.nodes /\ tree' = g.tree
    /\ fds' = With(fds, nextFd, [inode |-> g.tree[p], path |-> path, write |-> write, pos |-> 0])
    /\ nextFd' = nextFd + 1

\* write, write_at, append_write: the writes data of client c, one after the
\* other from offset at on.
WriteFile(i, c, at, data) ==
    nodes' = [nodes EXCEPT ![i].writes = @ \union
                 {[c |-> c, n |-> data[k], at |-> at + k - 1] : k \in DOMAIN data}]

\* mkdir, and mkdir_p with the directories on the way (all)
CanMakeDir(p, all) ==
    IF all
    THEN \A k \in 1 .. Len(p) : Exists(SubSeq(p, 1, k)) => IsDir(SubSeq(p, 1, k))
    ELSE ~Exists(p) /\ IsDir(Parent(p))
Missing(p) == {SubSeq(p, 1, k) : k \in 1 .. Len(p)} \ DOMAIN tree
MakeDir(p, all) ==
    LET f == NewDirs(Files, IF all THEN Missing(p) ELSE {p}) IN
    nodes' = f.nodes /\ tree' = f.tree

\* unlink, and rmdir (dir)
CanRemove(p, dir) ==
    Exists(p) /\ IsDir(p) = dir /\ ~\E q \in DOMAIN tree : Under(q, p)

\* rename: to the same path it succeeds whether the file exists or not, and a
\* directory that is moved below itself is out of reach.
CanRename(old, new) ==
    \/ old = new
    \/ /\ Exists(old) /\ IsDir(Parent(new))
       /\ Exists(new) => IsDir(new) = IsDir(old)
       /\ ~\E q \in DOMAIN tree : Under(q, new)
Renamed(old, new) ==
    LET moved == {p \in DOMAIN tree : p = old \/ Under(p, old)}
        Origin(q) == old \o SubSeq(q, Len(new) + 1, Len(q))
        target == IF Under(new, old) THEN {}
                  ELSE {q \in Paths : (q = new \/ Under(q, new)) /\ Origin(q) \in moved} IN
    IF old = new THEN tree
    ELSE [q \in (DOMAIN tree \ moved) \union target |-> IF q \in target THEN tree[Origin(q)] ELSE tree[q]]

-----------------------------------------------------------------------------
(***************************************************************************)
(* What the callers use of the sync manager                                *)
(***************************************************************************)

\* Whether the requests of a hook to S3 get through.
S3Answers == IF faults > 0 THEN BOOLEAN ELSE {TRUE}
CountFault(ok) == faults' = IF ok THEN faults ELSE faults - 1

Leased(p) == leases[p].refs > 0

\* write_file_content with the object of p: the directories on the way to it are
\* made, and the file gets what the object holds.
CanDownload(p) == CanMakeDir(Parent(p), TRUE) /\ ~IsDir(p)
Content(p) == store[p] \ {Mark}
Downloaded(p) ==
    IF Exists(p) THEN Replaced(Files, tree[p], Content(p))
    ELSE NewFile(NewDirs(Files, Missing(Parent(p))), p, Content(p))

\* refresh_file_from_s3: not while p is leased; pending operations do not matter.
Fetches(p) == ~Leased(p) /\ store[p] # {} /\ CanDownload(p)
RefreshFile(p) ==
    LET f == IF Fetches(p) THEN Downloaded(p) ELSE Files IN
    /\ nodes' = f.nodes /\ tree' = f.tree
    /\ known' = IF Fetches(p) THEN known \union {p} ELSE known

\* sync_file_now: conditional on what the cache or the lease knows.  Without a
\* lease, and with an object that the cache does not know, S3 refuses: then the
\* object wins, or with file locks off the upload is made all the same.
Refused(p) == config.lock /\ ~Leased(p) /\ p \notin known /\ store[p] # {}
Upload(p) ==
    /\ store' = [store EXCEPT ![p] = Object(nodes'[tree'[p]].writes)]
    /\ leases' = [leases EXCEPT ![p].dirty = FALSE]
    /\ known' = known \union {p}

\* on_open_write joins the lease of this instance or acquires one, trying once.
\* Before it has the lease a queued upload is sent; it leaves the queue whether
\* that succeeds or not, and when it is refused the object replaces the file.
\* Without one, the object replaces a file that the cache does not know.
OpenSends(p) == ~Leased(p) /\ queue[p].op = "upload"
OpenRefreshes(p) == ~Leased(p) /\ queue[p].op # "upload" /\ p \notin known /\ store[p] # {}
OpenAnswer(p, ok) ==
    CASE Leased(p) -> "Ok"
      [] ~Leased(p) /\ p \in foreign -> "Busy"
      [] OTHER -> IF /\ ok
                     /\ OpenSends(p) => IsFile(p) /\ ~Refused(p)
                     /\ OpenRefreshes(p) => CanDownload(p)
                  THEN "Ok" ELSE "Error"
OpenDownloads(p, ok) ==
    \/ OpenAnswer(p, ok) = "Ok" /\ OpenRefreshes(p)
    \/ OpenAnswer(p, ok) = "Error" /\ ok /\ OpenSends(p) /\ IsFile(p)
OpenFiles(p, ok) == IF OpenDownloads(p, ok) THEN Downloaded(p) ELSE Files
OnOpenWrite(p, ok) ==
    LET answer == OpenAnswer(p, ok)
        sent == answer = "Ok" /\ OpenSends(p) IN
    /\ leases' = IF answer = "Ok" THEN [leases EXCEPT ![p].refs = @ + 1] ELSE leases
    /\ \E gone \in IF answer = "Busy" THEN {FALSE} ELSE IF ok THEN {TRUE} ELSE BOOLEAN :
          queue' = IF OpenSends(p) /\ gone THEN [queue EXCEPT ![p] = NoOp] ELSE queue
    /\ store' = IF sent THEN [store EXCEPT ![p] = Object(nodes[tree[p]].writes)] ELSE store
    /\ known' = IF sent \/ OpenDownloads(p, ok) THEN known \union {p} ELSE known

\* enqueue_upload, enqueue_delete: under a lease only the lease is marked, and
\* otherwise the operation replaces the one in the queue.
EnqueueUpload(p) ==
    IF Leased(p)
    THEN /\ leases' = [leases EXCEPT ![p].dirty = TRUE, ![p].delete = FALSE]
         /\ UNCHANGED queue
    ELSE queue' = [queue EXCEPT ![p] = [op |-> "upload", etag |-> {}]] /\ UNCHANGED leases
EnqueueDelete(p) ==
    IF Leased(p)
    THEN /\ leases' = [leases EXCEPT ![p].dirty = FALSE, ![p].delete = TRUE]
         /\ UNCHANGED <<queue, known>>
    ELSE /\ queue' = [queue EXCEPT ![p] =
               [op |-> "delete", etag |-> IF p \in known THEN store[p] ELSE {}]]
         /\ known' = known \ {p}
         /\ UNCHANGED leases

\* The hook for a write of a leased file, or with file locks off: in realtime
\* mode the file is pushed at once, and a failure only logged; in batch mode it
\* is marked dirty or queued.
OnWrite(p, ok) ==
    IF config.realtime
    THEN /\ IF ok /\ IsFile(p) THEN Upload(p) ELSE UNCHANGED <<store, leases, known>>
         /\ UNCHANGED queue
    ELSE EnqueueUpload(p) /\ UNCHANGED <<store, known>>

\* flush_lease: what is pending under a lease is the delete, or the upload of the
\* file that has the path now; that fails when there is none.
Pending(p) == leases[p].dirty \/ leases[p].delete
CanPush(p) == leases[p].delete \/ IsFile(p)
Pushed(p) == IF leases[p].delete THEN {} ELSE Object(nodes[tree[p]].writes)
KnownOnceSent(ps) ==
    (known \union {p \in ps : ~leases[p].delete}) \ {p \in ps : leases[p].delete}

\* on_close for each write descriptor in closed: the last one of a path pushes
\* what is pending and ends the lease, whether the push succeeds or not.
Writers(p, closed) == Cardinality({fd \in closed : fds[fd].path = p /\ fds[fd].write})

\* Mutant: the first close ends the lease.
IsLastAny(p, closed) == leases[p].refs > 0 /\ Writers(p, closed) > 0

IsLast(p, closed) == leases[p].refs > 0 /\ Writers(p, closed) >= leases[p].refs

Pushes(p, closed) == IsLast(p, closed) /\ Pending(p)
OnClose(closed, ok) ==
    LET sent == {p \in Paths : ok /\ Pushes(p, closed) /\ CanPush(p)} IN
    /\ leases' = [p \in Paths |->
          IF IsLast(p, closed) \/ ~Leased(p) THEN NoLease
          ELSE [leases[p] EXCEPT !.refs = @ - Writers(p, closed)]]
    /\ store' = [p \in Paths |-> IF p \in sent THEN Pushed(p) ELSE store[p]]
    /\ known' = KnownOnceSent(sent)
    /\ CountFault(ok)

\* on_fsync pushes what is pending under the lease; without one it is
\* sync_file_now.
FsyncPushes(p) == ~Leased(p) \/ Pending(p)
FsyncSucceeds(p, ok) == FsyncPushes(p) => ok /\ CanPush(p) /\ ~Refused(p)
OnFsync(p, ok) ==
    IF FsyncPushes(p) /\ FsyncSucceeds(p, ok)
    THEN /\ store' = [store EXCEPT ![p] = Pushed(p)]
         /\ leases' = [leases EXCEPT ![p].dirty = FALSE]
         /\ known' = KnownOnceSent({p})
    ELSE UNCHANGED <<store, leases, known>>

\* flush_outbound takes one operation.  An upload is dropped when the path is
\* leased (the close pushes it) and in realtime mode; it stays in the queue when
\* it fails, which that of a file that is gone always does.  A delete takes only
\* the object that was known, or any if none was; when there is another one, it
\* is restored, or with file locks off deleted all the same.
Sends(p) == queue[p].op = "upload" /\ ~config.realtime /\ ~Leased(p)
Deletes(p) == queue[p].op = "delete" /\ (queue[p].etag \in {{}, store[p]} \/ ~config.lock)
Restores(p) ==
    /\ store[p] # {} /\ CanDownload(p)
    /\ (Sends(p) /\ IsFile(p) /\ Refused(p)) \/ (queue[p].op = "delete" /\ ~Deletes(p))
Uploads(p) == Sends(p) /\ IsFile(p) /\ ~Refused(p)
FlushFails(p, ok) == Sends(p) /\ ~(ok /\ IsFile(p))
FlushOne(p, ok) ==
    LET f == IF ok /\ Restores(p) THEN Downloaded(p) ELSE Files IN
    /\ queue[p] # NoOp
    /\ queue' = IF FlushFails(p, ok) THEN queue ELSE [queue EXCEPT ![p] = NoOp]
    /\ nodes' = f.nodes /\ tree' = f.tree
    /\ store' = CASE ok /\ Deletes(p) -> [store EXCEPT ![p] = {}]
                   [] ok /\ Uploads(p) -> [store EXCEPT ![p] = Object(nodes[tree[p]].writes)]
                   [] OTHER -> store
    /\ known' = IF ok /\ (Restores(p) \/ Uploads(p)) THEN known \union {p} ELSE known
    /\ leases' = IF ok /\ Restores(p) THEN [leases EXCEPT ![p].dirty = FALSE] ELSE leases
    /\ CountFault(ok)
=============================================================================
