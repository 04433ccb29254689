--------------------------- MODULE StaticAdapter ---------------------------
(***************************************************************************)
(* The static adapter: wasi:filesystem exported by a component that is     *)
(* composed with one application (vfs-adapter).  There is one guest and no *)
(* background thread; maybe_sync runs only inside hooks.  A write through  *)
(* a descriptor or a stream is local: it leaves a mark, on the descriptor  *)
(* or on the stream, and the hook for it runs when that is dropped.        *)
(***************************************************************************)
EXTENDS WasiFiles

Static(c) == May(c, "static")
StaticUnchanged == UNCHANGED <<config, faults, syncVars, foreign>>

\* on_write: in batch mode the queue may be flushed after it.
StaticOnWrite(p) == <<Do("on_write", p, 0)>> \o If(~config.realtime, <<Do("maybe_sync", p, 0)>>)

-----------------------------------------------------------------------------
(***************************************************************************)
(* Descriptors                                                             *)
(***************************************************************************)

\* open_at; "." opens the directory again, read-only and without a hook.
StaticOpenAt(c, base, o) ==
    LET p == base \o o.path
        open == [Do("open", p, 0) EXCEPT !.write = o.write, !.creat = o.creat, !.trunc = o.trunc] IN
    /\ Static(c) /\ Len(descs) < config.opens
    /\ o.path = <<>> => base # <<>>
    /\ Then(c, IF o.path = <<>> THEN <<Do("open", p, 0)>> ELSE <<[open EXCEPT !.op = "on_open"], open>>)
    /\ StaticUnchanged /\ UNCHANGED <<fsVars, descs, streams, history>>

\* Mutant: on_close also for a read descriptor.
StaticDropDescriptorAny(c, h) ==
    LET d == descs[h] IN
    /\ Static(c) /\ h \in Descs(c)
    /\ fds' = Without(fds, {d.fd})
    /\ descs' = [descs EXCEPT ![h].live = FALSE, ![h].dirty = FALSE]
    /\ Then(c, If(d.dirty, StaticOnWrite(d.path)) \o If(config.lock, <<Do("on_close", d.path, 0)>>))
    /\ StaticUnchanged /\ UNCHANGED <<nodes, tree, nextFd, streams, history>>

\* Drop for DescriptorImpl: the descriptor goes first, then the hooks run.
StaticDropDescriptor(c, h) ==
    LET d == descs[h] IN
    /\ Static(c) /\ h \in Descs(c)
    /\ fds' = Without(fds, {d.fd})
    /\ descs' = [descs EXCEPT ![h].live = FALSE, ![h].dirty = FALSE]
    /\ Then(c, If(d.dirty, StaticOnWrite(d.path))
               \o If(config.lock /\ d.write, <<Do("on_close", d.path, 0)>>))
    /\ StaticUnchanged /\ UNCHANGED <<nodes, tree, nextFd, streams, history>>

\* read
StaticRead(c, h) ==
    /\ Static(c) /\ h \in Descs(c) /\ Counted
    /\ Then(c, <<Do("on_read", descs[h].path, 0), Do("read", <<>>, descs[h].fd)>>)
    /\ StaticUnchanged
    /\ UNCHANGED <<fsVars, descs, streams, wrote, synced, moved, exited, thread>>

\* write: seek, write, and the mark for the close.
StaticWrite(c, h, at) ==
    LET d == descs[h] IN
    /\ Static(c) /\ h \in Descs(c)
    /\ Put(c, d.fd, at)
    /\ fds' = [fds EXCEPT ![d.fd].pos = at + 1]
    /\ Record(c, fds[d.fd].inode, d.path, "direct", at)
    /\ descs' = [descs EXCEPT ![h].dirty = TRUE]
    /\ StaticUnchanged
    /\ UNCHANGED <<tree, nextFd, streams, todo, synced, moved, calls, exited, thread>>

\* set_size, to nothing
StaticSetSize(c, h) ==
    /\ Static(c) /\ h \in Descs(c) /\ Counted
    /\ CanWrite(descs[h].fd)
    /\ nodes' = [nodes EXCEPT ![fds[descs[h].fd].inode].writes = {}]
    /\ descs' = [descs EXCEPT ![h].dirty = TRUE]
    /\ StaticUnchanged
    /\ UNCHANGED <<tree, fds, nextFd, streams, todo, wrote, synced, moved, exited, thread>>

\* Mutant: what is written through a stream is not registered.
StaticFsyncMarked(c, h) ==
    LET d == descs[h] IN
    /\ Static(c) /\ h \in Descs(c) /\ Counted
    /\ descs' = [descs EXCEPT ![h].dirty = FALSE]
    /\ Then(c, If(d.write, If(d.dirty, <<Do("enqueue", d.path, 0)>>) \o <<Do("on_fsync", d.path, d.fd)>>))
    /\ StaticUnchanged /\ UNCHANGED <<fsVars, streams, wrote, synced, moved, exited, thread>>

\* fsync: the mark is dropped, and the write registered whether there was one.
StaticFsync(c, h) ==
    LET d == descs[h] IN
    /\ Static(c) /\ h \in Descs(c) /\ Counted
    /\ descs' = [descs EXCEPT ![h].dirty = FALSE]
    /\ Then(c, If(d.write, <<Do("enqueue", d.path, 0), Do("on_fsync", d.path, d.fd)>>))
    /\ StaticUnchanged /\ UNCHANGED <<fsVars, streams, wrote, synced, moved, exited, thread>>

-----------------------------------------------------------------------------
(***************************************************************************)
(* Streams                                                                 *)
(***************************************************************************)

\* read_via_stream, write_via_stream, append_via_stream: a stream that appends
\* takes the end of the file once, by a seek of the descriptor.
StaticOpenStream(c, h, kind, at) ==
    LET fd == descs[h].fd
        end == Size(fds[fd].inode) IN
    /\ Static(c) /\ h \in Descs(c) /\ Len(streams) < config.streams
    /\ IF kind = "append"
       THEN NewStream(c, h, kind, end) /\ fds' = [fds EXCEPT ![fd].pos = end]
       ELSE NewStream(c, h, kind, at) /\ UNCHANGED fds
    /\ StaticUnchanged /\ UNCHANGED <<nodes, tree, nextFd, descs, todo, history>>

\* VfsInputStream.read: the file is refreshed before the first read.
StaticStreamRead(c, s) ==
    /\ Static(c) /\ s \in Streams(c, {"in"}) /\ Counted
    /\ streams' = [streams EXCEPT ![s].used = TRUE]
    /\ Then(c, If(~streams[s].used, <<Do("on_read", streams[s].path, 0)>>)
               \o <<Do("read", <<>>, streams[s].fd)>>)
    /\ StaticUnchanged /\ UNCHANGED <<fsVars, descs, wrote, synced, moved, exited, thread>>

\* Mutant: it writes where the descriptor is.
StaticStreamWriteUnseeked(c, s) ==
    LET r == streams[s] IN
    /\ Static(c) /\ s \in Streams(c, {"out", "append"})
    /\ Put(c, r.fd, fds[r.fd].pos)
    /\ fds' = [fds EXCEPT ![r.fd].pos = @ + 1]
    /\ Record(c, r.inode, r.path, r.kind, r.start + r.count)
    /\ streams' = [streams EXCEPT ![s].count = @ + 1, ![s].used = TRUE]
    /\ StaticUnchanged
    /\ UNCHANGED <<tree, nextFd, descs, todo, synced, moved, calls, exited, thread>>

\* VfsOutputStream.write: seek of the descriptor to the offset of the stream,
\* and write.  When the descriptor has been dropped the write fails.
StaticStreamWrite(c, s) ==
    LET r == streams[s]
        at == r.start + r.count IN
    /\ Static(c) /\ s \in Streams(c, {"out", "append"})
    /\ Put(c, r.fd, at)
    /\ fds' = [fds EXCEPT ![r.fd].pos = at + 1]
    /\ Record(c, r.inode, r.path, r.kind, at)
    /\ streams' = [streams EXCEPT ![s].count = @ + 1, ![s].used = TRUE]
    /\ StaticUnchanged
    /\ UNCHANGED <<tree, nextFd, descs, todo, synced, moved, calls, exited, thread>>

\* Drop for VfsOutputStream
StaticDropStream(c, s) ==
    LET r == streams[s] IN
    /\ Static(c) /\ s \in Streams(c, {"in", "out", "append"})
    /\ streams' = [streams EXCEPT ![s].live = FALSE]
    /\ Then(c, If(r.kind # "in" /\ r.used, StaticOnWrite(r.path)))
    /\ StaticUnchanged /\ UNCHANGED <<fsVars, descs, history>>

-----------------------------------------------------------------------------
(***************************************************************************)
(* Paths, below a descriptor of a directory                                *)
(***************************************************************************)

\* create_directory_at
StaticMkdir(c, base, p) ==
    /\ Static(c) /\ Counted
    /\ CanMakeDir(base \o p, FALSE) /\ MakeDir(base \o p, FALSE)
    /\ StaticUnchanged
    /\ UNCHANGED <<fds, nextFd, descs, streams, todo, wrote, synced, moved, exited, thread>>

\* unlink_file_at, remove_directory_at (dir)
StaticRemove(c, base, p, dir) ==
    LET full == base \o p IN
    /\ Static(c) /\ Counted
    /\ CanRemove(full, dir)
    /\ tree' = Without(tree, {full})
    /\ Then(c, If(~dir, <<Do("on_delete", full, 0), Do("maybe_sync", full, 0)>>))
    /\ StaticUnchanged
    /\ UNCHANGED <<nodes, fds, nextFd, descs, streams, wrote, synced, moved, exited, thread>>

\* rename_at: the new path is below the other descriptor.  There is no hook.
StaticRename(c, base, old, newBase, new) ==
    LET from == base \o old
        to == newBase \o new IN
    /\ Static(c) /\ Counted
    /\ CanRename(from, to) /\ tree' = Renamed(from, to)
    /\ moved' = moved \union {from, to}
    /\ StaticUnchanged
    /\ UNCHANGED <<nodes, fds, nextFd, descs, streams, todo, wrote, synced, exited, thread>>
=============================================================================
