----------------------------- MODULE NativeHost -----------------------------
(***************************************************************************)
(* The native host: wasi:filesystem for the guests of a wasmtime process   *)
(* (vfs-host).  Each guest has a clone of the host state with descriptors  *)
(* and streams of its own; the file system, the sync manager and its       *)
(* background thread are shared.  Guests run in threads: between the steps *)
(* of one guest's call come those of others.                               *)
(***************************************************************************)
EXTENDS WasiFiles, SequencesExt

Host(c) == May(c, "host")
HostUnchanged == UNCHANGED <<config, faults, syncVars, foreign>>

-----------------------------------------------------------------------------
(***************************************************************************)
(* Descriptors                                                             *)
(***************************************************************************)

\* open_at
HostOpenAt(c, base, o) ==
    LET p == base \o o.path
        open == [Do("open", p, 0) EXCEPT !.write = o.write, !.creat = o.creat, !.trunc = o.trunc] IN
    /\ Host(c) /\ Len(descs) < config.opens
    /\ Then(c, <<[open EXCEPT !.op = "on_open"], open>>)
    /\ HostUnchanged /\ UNCHANGED <<fsVars, descs, streams, history>>

\* drop of a descriptor: the hook, then the close.
HostDropDescriptor(c, h) ==
    LET d == descs[h] IN
    /\ Host(c) /\ h \in Descs(c)
    /\ descs' = [descs EXCEPT ![h].live = FALSE]
    /\ Then(c, If(config.lock /\ d.write, <<Do("on_close", d.path, 0)>>) \o <<Do("close", <<>>, d.fd)>>)
    /\ HostUnchanged /\ UNCHANGED <<fsVars, streams, history>>

\* write: write_at and no hook.
HostWrite(c, h, at) ==
    LET d == descs[h] IN
    /\ Host(c) /\ h \in Descs(c)
    /\ Put(c, d.fd, at)
    /\ Record(c, fds[d.fd].inode, d.path, "direct", at)
    /\ HostUnchanged
    /\ UNCHANGED <<tree, fds, nextFd, descs, streams, todo, synced, moved, calls, exited, thread>>

\* set_size, to nothing; on_truncate does what on_write does.
HostSetSize(c, h) ==
    LET d == descs[h] IN
    /\ Host(c) /\ h \in Descs(c) /\ Counted
    /\ CanWrite(d.fd)
    /\ nodes' = [nodes EXCEPT ![fds[d.fd].inode].writes = {}]
    /\ Then(c, <<Do("on_write", d.path, 0)>>)
    /\ HostUnchanged
    /\ UNCHANGED <<tree, fds, nextFd, descs, streams, wrote, synced, moved, exited, thread>>

\* fsync_descriptor: on_write, then on_fsync.
HostFsync(c, h) ==
    LET d == descs[h] IN
    /\ Host(c) /\ h \in Descs(c) /\ Counted
    /\ Then(c, If(d.write, <<Do("on_write", d.path, 0), Do("on_fsync", d.path, d.fd)>>))
    /\ HostUnchanged
    /\ UNCHANGED <<fsVars, descs, streams, wrote, synced, moved, exited, thread>>

-----------------------------------------------------------------------------
(***************************************************************************)
(* Streams                                                                 *)
(***************************************************************************)

\* read_via_stream, write_via_stream, append_via_stream: a stream that appends
\* has no offset.
HostOpenStream(c, h, kind, at) ==
    /\ Host(c) /\ h \in Descs(c) /\ Len(streams) < config.streams
    /\ NewStream(c, h, kind, IF kind = "append" THEN Size(fds[descs[h].fd].inode) ELSE at)
    /\ HostUnchanged /\ UNCHANGED <<fsVars, descs, todo, history>>

\* FsInputStreamWrapper.read: the file is refreshed before the first read.
HostStreamRead(c, s) ==
    /\ Host(c) /\ s \in Streams(c, {"in"}) /\ Counted
    /\ streams' = [streams EXCEPT ![s].used = TRUE]
    /\ Then(c, If(~streams[s].used, <<Do("on_read", streams[s].path, 0)>>))
    /\ HostUnchanged /\ UNCHANGED <<fsVars, descs, wrote, synced, moved, exited, thread>>

\* FsOutputStreamWrapper.write: write_at, or append_write at the end there is now.
HostStreamWrite(c, s) ==
    LET r == streams[s]
        at == IF r.kind = "append" THEN Size(r.inode) ELSE r.start + r.count IN
    /\ Host(c) /\ s \in Streams(c, {"out", "append"})
    /\ Put(c, r.fd, at)
    /\ Record(c, r.inode, r.path, r.kind, at)
    /\ streams' = [streams EXCEPT ![s].count = @ + 1, ![s].used = TRUE]
    /\ HostUnchanged
    /\ UNCHANGED <<tree, fds, nextFd, descs, todo, synced, moved, calls, exited, thread>>

\* Drop for FsOutputStreamWrapper: on_write, whether it has been written to or not.
HostDropStream(c, s) ==
    /\ Host(c) /\ s \in Streams(c, {"in", "out", "append"})
    /\ streams' = [streams EXCEPT ![s].live = FALSE]
    /\ Then(c, If(streams[s].kind # "in", <<Do("on_write", streams[s].path, 0)>>))
    /\ HostUnchanged /\ UNCHANGED <<fsVars, descs, history>>

-----------------------------------------------------------------------------
(***************************************************************************)
(* Paths, below a descriptor of a directory                                *)
(***************************************************************************)

\* create_directory_at
HostMkdir(c, base, p) ==
    /\ Host(c) /\ Counted
    /\ CanMakeDir(base \o p, FALSE) /\ MakeDir(base \o p, FALSE)
    /\ HostUnchanged
    /\ UNCHANGED <<fds, nextFd, descs, streams, todo, wrote, synced, moved, exited, thread>>

\* unlink_file_at, remove_directory_at (dir)
HostRemove(c, base, p, dir) ==
    LET full == base \o p IN
    /\ Host(c) /\ Counted
    /\ CanRemove(full, dir)
    /\ tree' = Without(tree, {full})
    /\ Then(c, If(~dir, <<Do("on_delete", full, 0)>>))
    /\ HostUnchanged
    /\ UNCHANGED <<nodes, fds, nextFd, descs, streams, wrote, synced, moved, exited, thread>>

\* rename_at: both paths are below the old one's descriptor.  There is no hook.
HostRename(c, base, old, newBase, new) ==
    LET from == base \o old
        to == base \o new IN
    /\ Host(c) /\ Counted
    /\ CanRename(from, to) /\ tree' = Renamed(from, to)
    /\ moved' = moved \union {from, to}
    /\ HostUnchanged
    /\ UNCHANGED <<nodes, fds, nextFd, descs, streams, todo, wrote, synced, exited, thread>>

-----------------------------------------------------------------------------
(***************************************************************************)
(* The background thread, and its end                                      *)
(***************************************************************************)

\* maybe_sync
HostTick ==
    /\ thread.state = "run"
    /\ config.realtime => \E p \in Paths : queue[p].op = "delete"
    /\ \E p \in Paths, ok \in S3Answers : FlushOne(p, ok)
    /\ UNCHANGED <<config, fds, nextFd, foreign, guestVars>>

\* Drop for VfsHostState, of any clone: the shared manager is shut down.  Then the
\* guest's resources go: the streams with their hook, the descriptors without.
HostDropState(c) ==
    LET dropped == SetToSeq(Streams(c, {"out", "append"}))
        due == UNION {{<<p, w>> : w \in nodes[tree[p]].writes} :
                      p \in {q \in Paths : IsFile(q) /\ (leases[q].dirty \/ queue[q].op = "upload")}} IN
    /\ Host(c)
    /\ thread' = IF thread.state = "run" THEN [thread EXCEPT !.state = "stop", !.due = due] ELSE thread
    /\ exited' = exited \union {c}
    /\ descs' = [h \in DOMAIN descs |-> IF h \in Descs(c) THEN [descs[h] EXCEPT !.live = FALSE] ELSE descs[h]]
    /\ streams' = [s \in DOMAIN streams |->
          IF streams[s].c = c THEN [streams[s] EXCEPT !.live = FALSE] ELSE streams[s]]
    /\ Then(c, [k \in DOMAIN dropped |-> Do("on_write", streams[dropped[k]].path, 0)])
    /\ HostUnchanged /\ UNCHANGED <<fsVars, wrote, synced, moved, calls>>

\* force_flush, until nothing is left or a request fails ...
HostFinalFlush ==
    LET release == [thread EXCEPT !.state = "release", !.closing = {p \in Paths : Leased(p)}] IN
    /\ thread.state = "stop"
    /\ \/ /\ \A p \in Paths : queue[p] = NoOp
          /\ thread' = release
          /\ UNCHANGED <<faults, nodes, tree, syncVars>>
       \/ \E p \in Paths, ok \in S3Answers :
             /\ FlushOne(p, ok)
             /\ thread' = IF FlushFails(p, ok) THEN release ELSE thread
    /\ UNCHANGED <<config, fds, nextFd, foreign, descs, streams, todo, wrote, synced, moved, calls, exited>>

\* Mutant: what is pending is not pushed.
HostReleaseAllUnpushed ==
    /\ thread.state = "release"
    /\ \/ /\ thread.closing = {}
          /\ thread' = [thread EXCEPT !.state = "done"]
          /\ UNCHANGED <<faults, syncVars>>
       \/ \E p \in thread.closing :
             /\ thread' = [thread EXCEPT !.closing = @ \ {p}]
             /\ leases' = [leases EXCEPT ![p] = NoLease]
             /\ UNCHANGED <<faults, store, known, queue>>
    /\ UNCHANGED <<config, fsVars, foreign, descs, streams, todo, wrote, synced, moved, calls, exited>>

\* ... then release_all_leases, of those there are at that time, and the end.
HostReleaseAll ==
    /\ thread.state = "release"
    /\ \/ /\ thread.closing = {}
          /\ thread' = [thread EXCEPT !.state = "done"]
          /\ UNCHANGED <<faults, syncVars>>
       \/ \E p \in thread.closing, ok \in S3Answers :
             LET sends == ok /\ Pending(p) /\ CanPush(p) IN
             /\ ok \/ Pending(p)
             /\ CountFault(ok)
             /\ thread' = [thread EXCEPT !.closing = @ \ {p}]
             /\ leases' = [leases EXCEPT ![p] = NoLease]
             /\ store' = IF sends THEN [store EXCEPT ![p] = Pushed(p)] ELSE store
             /\ known' = IF sends THEN KnownOnceSent({p}) ELSE known
             /\ UNCHANGED queue
    /\ UNCHANGED <<config, fsVars, foreign, descs, streams, todo, wrote, synced, moved, calls, exited>>

HostThread == HostTick \/ HostFinalFlush \/ HostReleaseAll
=============================================================================
