----------------------------- MODULE WasiSystem -----------------------------
(***************************************************************************)
(* Guests of the static adapter and of the native host at work: what they  *)
(* open, where they stream and which calls on paths they make is given by  *)
(* the constants.                                                          *)
(***************************************************************************)
EXTENDS StaticAdapter, NativeHost

CONSTANTS
    Opens(_),    \* configuration -> the opens: [base, path, write, creat, trunc]
    Streaming(_),\* configuration -> the streams: [kind, at]
    Calls(_)     \* configuration -> the calls on a descriptor or a path that are
                 \* made: [op, base, path, newBase, newPath]

StaticGuest(c) ==
    \/ \E o \in Opens(config) : o.base \in Bases(c) /\ StaticOpenAt(c, o.base, o)
    \/ \E h \in Descs(c) :
          \/ StaticDropDescriptor(c, h)
          \/ \E k \in Streaming(config) : StaticOpenStream(c, h, k.kind, k.at)
    \/ \E s \in Streams(c, {"in", "out", "append"}) : StaticStreamWrite(c, s) \/ StaticDropStream(c, s)
    \/ \E k \in Calls(config) : k.base \in Bases(c) /\
          \/ k.op = "read" /\ \E h \in Descs(c) : StaticRead(c, h)
          \/ k.op = "read" /\ \E s \in Streams(c, {"in"}) : StaticStreamRead(c, s)
          \/ k.op = "write" /\ \E h \in Descs(c) : StaticWrite(c, h, 0)
          \/ k.op = "set_size" /\ \E h \in Descs(c) : StaticSetSize(c, h)
          \/ k.op = "sync" /\ \E h \in Descs(c) : StaticFsync(c, h)
          \/ k.op = "mkdir" /\ StaticMkdir(c, k.base, k.path)
          \/ k.op = "unlink" /\ StaticRemove(c, k.base, k.path, FALSE)
          \/ k.op = "rmdir" /\ StaticRemove(c, k.base, k.path, TRUE)
          \/ k.op = "rename" /\ StaticRename(c, k.base, k.path, k.newBase, k.newPath)

HostGuest(c) ==
    \/ \E o \in Opens(config) : o.base \in Bases(c) /\ HostOpenAt(c, o.base, o)
    \/ \E h \in Descs(c) :
          \/ HostDropDescriptor(c, h)
          \/ \E k \in Streaming(config) : HostOpenStream(c, h, k.kind, k.at)
    \/ \E s \in Streams(c, {"in", "out", "append"}) : HostStreamWrite(c, s) \/ HostDropStream(c, s)
    \/ \E k \in Calls(config) : k.base \in Bases(c) /\
          \/ k.op = "read" /\ \E s \in Streams(c, {"in"}) : HostStreamRead(c, s)
          \/ k.op = "write" /\ \E h \in Descs(c) : HostWrite(c, h, 0)
          \/ k.op = "set_size" /\ \E h \in Descs(c) : HostSetSize(c, h)
          \/ k.op = "sync" /\ \E h \in Descs(c) : HostFsync(c, h)
          \/ k.op = "mkdir" /\ HostMkdir(c, k.base, k.path)
          \/ k.op = "unlink" /\ HostRemove(c, k.base, k.path, FALSE)
          \/ k.op = "rmdir" /\ HostRemove(c, k.base, k.path, TRUE)
          \/ k.op = "rename" /\ HostRename(c, k.base, k.path, k.newBase, k.newPath)
          \/ k.op = "exit" /\ HostDropState(c)

Next ==
    \/ \E c \in Clients : StaticGuest(c) \/ HostGuest(c) \/ GuestStep(c)
    \/ HostThread
    \/ \E p \in ForeignPaths : ForeignRelease(p)

Spec == Init /\ [][Next]_vars

-----------------------------------------------------------------------------
(***************************************************************************)
(* Properties                                                              *)
(***************************************************************************)

\* Nobody has shut the sync manager down.
Running == config.frontend = "host" => thread.state = "run"

\* While the lease is wanted it is there: with file locks, a path counts at least
\* as many lease references as guests have write descriptors on it, whatever
\* guests open, close and drop in between, until the host is shut down.
LeaseCoversWriters ==
    config.lock /\ Running =>
        \A p \in Paths :
            leases[p].refs >= Cardinality({h \in DOMAIN descs :
                                             descs[h].live /\ descs[h].write /\ descs[h].path = p})

\* The write w of the file at p is in S3, or will be taken there: the lease is
\* dirty, the upload queued, or there is a mark on a descriptor, a stream that was
\* written to or a hook still to run for the path.
Accounted(p, w) ==
    \/ w \in store[p]
    \/ leases[p].dirty \/ queue[p].op = "upload"
    \/ \E h \in DOMAIN descs : descs[h].dirty /\ descs[h].path = p
    \/ \E s \in DOMAIN streams : streams[s].live /\ streams[s].used /\ streams[s].path = p
    \/ \E c \in Clients, k \in 1 .. 4 :
          k \in DOMAIN todo[c] /\ todo[c][k].p = p /\ todo[c][k].op \in {"on_write", "enqueue"}

\* After the shutdown of the host: the write is in S3, or the final flush or the
\* release of the lease is still to come and will take it there.
StillToSend(p, w) ==
    \/ w \in store[p]
    \/ thread.state = "stop" /\ (leases[p].dirty \/ queue[p].op = "upload")
    \/ thread.state = "release" /\ p \in thread.closing /\ leases[p].dirty

\* As long as S3 answers, no write is forgotten: what a guest has written and the
\* file still holds is stored or accounted for, in whatever order it drops
\* streams and descriptors; and when the host is shut down, what was dirty or
\* queued at that time gets to S3, whatever the other guests still do.  Left out
\* are renamed files and writes through a descriptor of the host, which has no
\* hook.
NothingForgotten ==
    faults = config.faults =>
        \A p \in Paths \ moved : Exists(p) =>
            \A w \in nodes[tree[p]].writes :
                \/ w.c = NoClient
                \/ config.frontend = "host" /\ wrote[w.c][w.n].kind = "direct"
                \/ IF Running THEN Accounted(p, w) ELSE <<p, w>> \in thread.due => StillToSend(p, w)

\* What guests of the host have written through streams is in S3 in the end.  The
\* code does not keep this: Drop for VfsHostState first shuts the manager down,
\* and the streams, dropped after it, enqueue what nobody sends any more.
ExitForgetsNothing ==
    /\ config.frontend = "host" /\ thread.state = "done" /\ faults = config.faults
    /\ exited = config.guests /\ \A c \in config.guests : todo[c] = <<>>
    => \A p \in Paths \ moved : Exists(p) =>
          \A w \in nodes[tree[p]].writes :
              w.c = NoClient \/ wrote[w.c][w.n].kind = "direct" \/ w \in store[p]

\* A write is found in the file that was opened and where it was meant to be:
\* behind what the stream wrote before, whatever else is done with the
\* descriptor; and a stream of the host that appends never writes over what
\* another guest or stream has appended before.
WritesLandWhereMeant ==
    \A i \in DOMAIN nodes : \A w \in nodes[i].writes : w.c # NoClient =>
        LET r == wrote[w.c][w.n] IN
        /\ r.inode = i \/ (r.path \in DOMAIN tree /\ tree[r.path] = i)
        /\ w.at = r.meant
        /\ config.frontend = "host" /\ r.kind = "append" =>
              \A v \in nodes[i].writes :
                  v.c # NoClient /\ wrote[v.c][v.n].order < r.order => v.at < w.at

\* A sync that has reported success is durable: the writes that the guest had
\* made to the file are in its object, unless the path was emptied, unlinked or
\* renamed since, although requests to S3 may fail before and after.
FsyncIsDurable ==
    \A c \in Clients : \A n \in synced[c] :
        LET r == wrote[c][n] IN
        \/ r.path \in moved
        \/ [c |-> c, n |-> n, at |-> r.meant] \in store[r.path]
        \/ ~(\E w \in nodes[r.inode].writes : w.c = c /\ w.n = n)
        \/ ~(r.path \in DOMAIN tree /\ tree[r.path] = r.inode)

\* In realtime mode the close of a descriptor "has nothing left to push and only
\* releases the lease" (docs/sync-semantics.md): what S3 holds of a file that is
\* there stays.  The code does not keep this: a file that is removed and made
\* again under one lease still has its delete pending, and the last close sends
\* it, although the writes to the new file have been pushed since.
CloseOnlyReleases ==
    [][ config.realtime =>
          \A c \in Clients : DoOnClose(c) =>
              \A p \in Paths : Exists(p) => nodes[tree[p]].writes \intersect store[p] \subseteq store'[p] ]_vars
=============================================================================
