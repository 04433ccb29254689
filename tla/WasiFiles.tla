----------------------------- MODULE WasiFiles -----------------------------
(***************************************************************************)
(* What the two in-process implementations of wasi:filesystem share: the   *)
(* static adapter (vfs-adapter, StaticAdapter), composed into one          *)
(* single-threaded component, and the native host (vfs-host, NativeHost),  *)
(* whose guests run in threads over one file system.  A call changes the   *)
(* file system and runs hooks of the sync manager around that; here it is  *)
(* its first step, which leaves the rest to be done in todo, and then one  *)
(* step for each of those.                                                 *)
(*                                                                         *)
(* A guest has descriptors and streams.  A stream keeps the descriptor     *)
(* number and the path, not the descriptor: it may outlive it.             *)
(***************************************************************************)
EXTENDS SyncedFiles

VARIABLES
    \* config has the frontend, "static" or "host", its guests, whether
    \* VFS_METADATA_MODE=s3 (headS3), and bounds: [opens, streams, writes, calls].
    descs,    \* the descriptors: [c, fd, path, write, dirty, live]; dirty for those
              \* in dirty_descriptors (static adapter)
    streams,  \* the streams: [c, fd, inode, path, kind, start, count, used, live],
              \* kind being "in", "out" or "append"; used once it has been written
              \* to (dirty) or read from (s3_refreshed)
    todo,     \* guest -> what is left of its call, a sequence of Do records
    wrote,    \* guest -> history of its writes: [inode, path, kind, meant, order]
    synced,   \* guest -> the writes that a sync has confirmed
    moved,    \* the paths that a rename took or gave
    calls,    \* number of the calls that are not opens or writes
    exited,   \* the guests of the host whose state was dropped
    thread    \* the background thread of the host, [state, closing, due]: "run";
              \* "stop" and "release" once a guest's state was dropped; "done".
              \* closing are the paths whose lease is still to be released; due,
              \* history, the writes <<p, w>> that were dirty or queued at "stop"

history == <<wrote, synced, moved, calls, exited, thread>>
guestVars == <<descs, streams, todo, history>>
vars == <<config, faults, fsVars, syncVars, foreign, guestVars>>

\* The offset of a write that is meant for the end of the file.
Anywhere == 99

Init ==
    /\ FilesInit
    /\ descs = <<>> /\ streams = <<>>
    /\ todo = [c \in Clients |-> <<>>]
    /\ wrote = [c \in Clients |-> <<>>]
    /\ synced = [c \in Clients |-> {}]
    /\ moved = {} /\ calls = 0 /\ exited = {}
    /\ thread = [state |-> IF config.frontend = "host" THEN "run" ELSE "done", closing |-> {}, due |-> {}]

-----------------------------------------------------------------------------
(***************************************************************************)
(* Helpers                                                                 *)
(***************************************************************************)

\* Something left to do: op on path p, or on descriptor number fd.
Do(op, p, fd) == [op |-> op, p |-> p, fd |-> fd, write |-> FALSE, creat |-> FALSE, trunc |-> FALSE]

May(c, frontend) == config.frontend = frontend /\ c \in config.guests \ exited /\ todo[c] = <<>>
Counted == calls < config.calls /\ calls' = calls + 1

Descs(c) == {h \in DOMAIN descs : descs[h].live /\ descs[h].c = c}
Streams(c, kinds) ==
    {s \in DOMAIN streams : streams[s].live /\ streams[s].c = c /\ streams[s].kind \in kinds}

\* The directories that calls of c start from: the preopened root, and its
\* descriptors of directories.
Bases(c) == {<<>>} \union {descs[h].path : h \in {g \in Descs(c) : nodes[fds[descs[g].fd].inode].dir}}

\* The call of c goes on with the steps ops.
Then(c, ops) == todo' = [todo EXCEPT ![c] = ops]
If(cond, ops) == IF cond THEN ops ELSE <<>>
Doing(c, op) == todo[c] # <<>> /\ Head(todo[c]).op = op
Done(c) == todo' = [todo EXCEPT ![c] = Tail(@)]

\* A write of c to descriptor fd at offset at.
CanWrite(fd) == fd \in DOMAIN fds /\ fds[fd].write
Put(c, fd, at) ==
    /\ CanWrite(fd) /\ Len(wrote[c]) < config.writes
    /\ WriteFile(fds[fd].inode, c, at, <<Len(wrote[c]) + 1>>)
Order == FoldSet(LAMBDA c, n : Len(wrote[c]) + n, 0, Clients)
Record(c, inode, path, kind, meant) ==
    wrote' = [wrote EXCEPT ![c] =
        Append(@, [inode |-> inode, path |-> path, kind |-> kind, meant |-> meant, order |-> Order])]

NewStream(c, h, kind, start) ==
    streams' = Append(streams,
        [c |-> c, fd |-> descs[h].fd, inode |-> fds[descs[h].fd].inode, path |-> descs[h].path,
         kind |-> kind, start |-> start, count |-> 0, used |-> FALSE, live |-> TRUE])

-----------------------------------------------------------------------------
(***************************************************************************)
(* The steps of a call after the first                                     *)
(***************************************************************************)

\* on_open: for a write open with file locks the lease, and an error ends the
\* call; otherwise with VFS_METADATA_MODE=s3 a look at the object.
DoOnOpen(c) ==
    LET d == Head(todo[c])
        lease == config.lock /\ d.write IN
    /\ Doing(c, "on_open")
    /\ \E ok \in S3Answers :
          LET answer == OpenAnswer(d.p, ok)
              f == OpenFiles(d.p, ok) IN
          IF lease
          THEN /\ ok \/ answer = "Error"
               /\ CountFault(ok)
               /\ OnOpenWrite(d.p, ok)
               /\ nodes' = f.nodes /\ tree' = f.tree
               /\ IF answer = "Ok" THEN Done(c) ELSE Then(c, <<>>)
          ELSE /\ ok \/ config.headS3
               /\ CountFault(ok)
               /\ IF config.headS3 /\ ok /\ d.p \notin known THEN RefreshFile(d.p)
                  ELSE UNCHANGED <<nodes, tree, known>>
               /\ Done(c)
               /\ UNCHANGED <<leases, queue, store>>
    /\ UNCHANGED <<config, fds, nextFd, foreign, descs, streams, history>>

\* open_path_with_flags, and a descriptor; when it fails the lease stays.
DoOpen(c) ==
    LET d == Head(todo[c]) IN
    /\ Doing(c, "open")
    /\ Done(c)
    /\ IF CanOpen(Files, d.p, d.write, d.creat)
       THEN /\ OpenFile(Files, d.p, d.p, d.write, d.trunc)
            /\ descs' = Append(descs, [c |-> c, fd |-> nextFd, path |-> d.p, write |-> d.write,
                                       dirty |-> FALSE, live |-> TRUE])
       ELSE UNCHANGED <<fsVars, descs>>
    /\ UNCHANGED <<config, faults, syncVars, foreign, streams, history>>

\* on_write: in realtime mode an object that the cache does not know wins.
DoOnWrite(c) ==
    LET p == Head(todo[c]).p IN
    /\ Doing(c, "on_write")
    /\ Done(c)
    /\ \E ok \in S3Answers :
          /\ ok \/ config.realtime
          /\ CountFault(ok)
          /\ IF config.realtime /\ IsFile(p) /\ Refused(p)
             THEN /\ IF ok THEN RefreshFile(p) ELSE UNCHANGED <<nodes, tree, known>>
                  /\ UNCHANGED <<leases, queue, store>>
             ELSE UNCHANGED <<nodes, tree>> /\ OnWrite(p, ok)
    /\ UNCHANGED <<config, fds, nextFd, foreign, descs, streams, history>>

\* on_close for one write descriptor.
DoOnClose(c) ==
    LET d == Head(todo[c])
        last == leases[d.p].refs = 1
        sends(ok) == ok /\ last /\ Pending(d.p) /\ CanPush(d.p) IN
    /\ Doing(c, "on_close")
    /\ Done(c)
    /\ \E ok \in S3Answers :
          /\ ok \/ (last /\ Pending(d.p))
          /\ CountFault(ok)
          /\ leases' = CASE leases[d.p].refs = 0 -> leases
                         [] leases[d.p].refs = 1 -> [leases EXCEPT ![d.p] = NoLease]
                         [] OTHER -> [leases EXCEPT ![d.p].refs = @ - 1]
          /\ store' = IF sends(ok) THEN [store EXCEPT ![d.p] = Pushed(d.p)] ELSE store
          /\ known' = IF sends(ok) THEN KnownOnceSent({d.p}) ELSE known
    /\ UNCHANGED <<config, fsVars, queue, foreign, descs, streams, history>>

\* close in fs-core
DoClose(c) ==
    /\ Doing(c, "close")
    /\ Done(c)
    /\ fds' = Without(fds, {Head(todo[c]).fd})
    /\ UNCHANGED <<config, faults, nodes, tree, nextFd, syncVars, foreign, descs, streams, history>>

\* enqueue_upload, as on_fsync of the static adapter calls it.
DoEnqueue(c) ==
    /\ Doing(c, "enqueue")
    /\ Done(c)
    /\ EnqueueUpload(Head(todo[c]).p)
    /\ UNCHANGED <<config, faults, fsVars, store, known, foreign, descs, streams, history>>

\* on_fsync: success confirms the writes the guest has made to the file.
DoOnFsync(c) ==
    LET d == Head(todo[c])
        mine == {n \in DOMAIN wrote[c] : wrote[c][n].inode = fds[d.fd].inode} IN
    /\ Doing(c, "on_fsync")
    /\ Done(c)
    /\ \E ok \in S3Answers :
          /\ ok \/ FsyncPushes(d.p)
          /\ CountFault(ok)
          /\ IF ok /\ ~Leased(d.p) /\ IsFile(d.p) /\ Refused(d.p)
             THEN RefreshFile(d.p) /\ UNCHANGED <<leases, store>>
             ELSE UNCHANGED <<nodes, tree>> /\ OnFsync(d.p, ok)
          /\ synced' = IF FsyncSucceeds(d.p, ok) THEN [synced EXCEPT ![c] = @ \union mine] ELSE synced
    /\ UNCHANGED <<config, fds, nextFd, queue, foreign, descs, streams, wrote, moved, calls, exited, thread>>

\* on_delete
DoOnDelete(c) ==
    /\ Doing(c, "on_delete")
    /\ Done(c)
    /\ EnqueueDelete(Head(todo[c]).p)
    /\ UNCHANGED <<config, faults, fsVars, store, foreign, descs, streams, history>>

\* on_read, with VFS_READ_MODE=s3
DoOnRead(c) ==
    /\ Doing(c, "on_read")
    /\ Done(c)
    /\ \E ok \in S3Answers :
          /\ ok \/ config.readS3
          /\ CountFault(ok)
          /\ IF config.readS3 /\ ok THEN RefreshFile(Head(todo[c]).p)
             ELSE UNCHANGED <<nodes, tree, known>>
    /\ UNCHANGED <<config, fds, nextFd, leases, queue, store, foreign, descs, streams, history>>

\* Another instance gives back the lease of a path.
ForeignRelease(p) ==
    /\ p \in foreign
    /\ foreign' = foreign \ {p}
    /\ UNCHANGED <<config, faults, fsVars, syncVars, guestVars>>

\* seek and read; the descriptor keeps the position.
DoRead(c) ==
    LET fd == Head(todo[c]).fd IN
    /\ Doing(c, "read")
    /\ Done(c)
    /\ fds' = IF fd \in DOMAIN fds THEN [fds EXCEPT ![fd].pos = Size(fds[fd].inode)] ELSE fds
    /\ UNCHANGED <<config, faults, nodes, tree, nextFd, syncVars, foreign, descs, streams, history>>

\* maybe_sync, as the hooks of the static adapter call it: in batch mode whether
\* a flush is due is a choice, in realtime mode there is one for a delete.
DoMaybeSync(c) ==
    LET deletes == \E p \in Paths : queue[p].op = "delete" IN
    /\ Doing(c, "maybe_sync")
    /\ \/ /\ config.realtime => deletes
          /\ \E p \in Paths, ok \in S3Answers : FlushOne(p, ok)
          /\ UNCHANGED todo
       \/ /\ ~(config.realtime /\ deletes)
          /\ Done(c)
          /\ UNCHANGED <<faults, nodes, tree, syncVars>>
    /\ UNCHANGED <<config, fds, nextFd, foreign, descs, streams, history>>

GuestStep(c) ==
    \/ DoOnOpen(c) \/ DoOpen(c) \/ DoOnWrite(c) \/ DoOnClose(c) \/ DoClose(c)
    \/ DoEnqueue(c) \/ DoOnFsync(c) \/ DoOnDelete(c) \/ DoOnRead(c) \/ DoRead(c)
    \/ DoMaybeSync(c)
=============================================================================
