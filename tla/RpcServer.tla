------------------------------ MODULE RpcServer ------------------------------
(***************************************************************************)
(* The RPC server (vfs-rpc-server, vfs-rpc-server-core): one thread polls  *)
(* the listening socket and all connections, and serves one request at a   *)
(* time.  Each connection gets a session; a descriptor belongs to the      *)
(* session that opened it, and a disconnect closes what the session left   *)
(* open.  The files and the sync manager are SyncedFiles.                  *)
(***************************************************************************)
EXTENDS SyncedFiles

CONSTANT
    Direct        \* the clients that do not use the adapter; connected at the start

ASSUME ServerAssumption ==
    /\ Direct \subseteq Clients /\ IsFiniteSet(Direct)
    /\ \A cfg \in Configs : cfg.version \in Nat \ {0} /\ cfg.connected \subseteq Direct

\* config has, too, whether VFS_METADATA_MODE=s3 (headS3), the protocol version
\* of the server, the direct clients that have a session at the start (connected),
\* whether they name descriptors of others (any), and bounds on what happens:
\* [version, breaks, streams, writes, calls, others : Nat].
VARIABLES
    sessionFds, \* session -> the descriptors it opened
    refreshed,  \* s3_refreshed_fds
    strays,     \* history: the descriptors that a client opened without a session
                \* or whose session it replaced
    sessions,   \* client -> session of its connection; 0 for none
    accepted,   \* the clients in the server's list
    mode,       \* "poll", "drop", "flush" and "leave" (a client is dropped), or
                \* "stalled" (in write_message)
    dropping,   \* the client that is dropped
    conn,       \* client -> its connection: [state, req, resp]
    breaks      \* how many connections have broken

tableVars == <<sessionFds, refreshed, strays>>
loopVars == <<mode, dropping, sessions, accepted>>
serverVars == <<config, faults, fsVars, syncVars, tableVars, loopVars, foreign, conn, breaks>>

\* A request: kind is the name of a Request; the other fields where it has them.
Request(kind) ==
    [kind |-> kind, fd |-> 0, path |-> <<>>, to |-> <<>>, write |-> FALSE, creat |-> FALSE,
     data |-> <<>>, at |-> 0, version |-> 0]
NoRequest == Request("none")
RequestKinds ==
    {"none", "Connect", "OpenPath", "OpenAt", "Read", "Write", "AppendWrite", "Ftruncate", "Close", "Fsync",
     "Seek", "Fstat", "ReaddirFd", "Stat", "Readdir", "Undecodable", "Mkdir", "MkdirP", "Unlink", "Rmdir", "Rename"}
Requests ==
    [kind : RequestKinds, fd : Nat, path : Seq(STRING), to : Seq(STRING), write : BOOLEAN, creat : BOOLEAN,
     data : Seq(Nat), at : Nat, version : Nat]

\* A response: "Ok" stands for all that answer without a descriptor.
Response(kind) == [kind |-> kind, fd |-> 0, version |-> 0]
NoResponse == Response("none")
ResponseKinds == {"none", "Connected", "ProtocolError", "Fd", "Ok", "Busy", "Error"}
Responses == [kind : ResponseKinds, fd : Nat, version : Nat]
Ok == Response("Ok")
Busy == Response("Busy")
Error == Response("Error")

NoConnection == [state |-> "none", req |-> NoRequest, resp |-> NoResponse]

\* init_server; the direct clients have been accepted, and some have a session.
ServerInit ==
    /\ FilesInit
    /\ sessionFds = <<>> /\ refreshed = {} /\ strays = {}
    /\ sessions \in [Clients -> 0 .. Cardinality(Direct)]
    /\ {c \in Clients : sessions[c] > 0} = config.connected
    /\ \A c, d \in config.connected : sessions[c] = sessions[d] => c = d
    /\ accepted = Direct
    /\ mode = "poll" /\ dropping = NoClient
    /\ conn = [c \in Clients |->
                  IF c \in Direct THEN [NoConnection EXCEPT !.state = "up"] ELSE NoConnection]
    /\ breaks = 0

-----------------------------------------------------------------------------
\* The request of client c that the server serves.
Serves(c, kinds) == mode = "poll" /\ c \in accepted /\ conn[c].req.kind \in kinds
Req(c) == conn[c].req

\* write_message: the response goes out.  When the connection is gone, a failed
\* write drops the client, but a failed check_write or flush is tried again for
\* ever: the stream is closed, and answers with an error each time.
Reply(c, resp) ==
    /\ conn' = [conn EXCEPT ![c].req = NoRequest,
                           ![c].resp = IF conn[c].state = "up" THEN resp ELSE NoResponse]
    /\ \/ conn[c].state = "up" /\ UNCHANGED <<mode, dropping>>
       \/ conn[c].state = "down" /\ mode' = "drop" /\ dropping' = c
       \/ conn[c].state = "down" /\ mode' = "stalled" /\ UNCHANGED dropping
    /\ UNCHANGED <<config, accepted, foreign, breaks>>

-----------------------------------------------------------------------------
(***************************************************************************)
(* handle_request                                                          *)
(***************************************************************************)

\* negotiate_version: from 1 up to the version of the server.
Negotiated(v) == v \in 1 .. config.version

\* What session s has open.
OpenedIn(s) == IF s \in DOMAIN sessionFds THEN sessionFds[s] ELSE {}

\* A new session, in place of the one the client may have had.
ServeConnect(c) ==
    /\ Serves(c, {"Connect"})
    /\ IF Negotiated(Req(c).version)
       THEN /\ sessions' = [sessions EXCEPT ![c] = Max({0} \union {sessions[d] : d \in Clients}
                                                      \union DOMAIN sessionFds) + 1]
            /\ strays' = strays \union OpenedIn(sessions[c])
            /\ Reply(c, [Response("Connected") EXCEPT !.version = Req(c).version])
       ELSE Reply(c, Response("ProtocolError")) /\ UNCHANGED <<sessions, strays>>
    /\ UNCHANGED <<faults, fsVars, syncVars, sessionFds, refreshed>>

\* register_fd: before Connect there is no session to register it with.
RegisterFd(c, fd) ==
    IF sessions[c] = 0
    THEN strays' = strays \union {fd} /\ UNCHANGED sessionFds
    ELSE /\ sessionFds' = With(sessionFds, sessions[c], OpenedIn(sessions[c]) \union {fd})
         /\ UNCHANGED strays

OpenInode(c, f, p, path) ==
    IF CanOpen(f, p, Req(c).write, Req(c).creat)
    THEN /\ OpenFile(f, p, path, Req(c).write, FALSE)
         /\ RegisterFd(c, nextFd)
         /\ Reply(c, [Response("Fd") EXCEPT !.fd = nextFd])
    ELSE /\ nodes' = f.nodes /\ tree' = f.tree
         /\ Reply(c, Error)
         /\ UNCHANGED <<fds, nextFd, sessionFds, strays>>

\* check_and_refresh_from_s3
Renews(p) == p \notin known /\ Fetches(p)

\* OpenPath and OpenAt: before_open takes a lease for a write open (it stays
\* when the open then fails), otherwise it looks, with VFS_METADATA_MODE=s3, at
\* the object; and the file is opened.  OpenAt knows the path by the one its
\* directory was opened with, and opens where the directory is now.
ServeOpen(c) ==
    LET dir == Req(c).fd
        at == Req(c).kind = "OpenAt"
        found == ~at \/ dir \in DOMAIN fds
        path == IF at /\ found THEN fds[dir].path \o Req(c).path ELSE Req(c).path
        lease == found /\ config.lock /\ Req(c).write
        look == found /\ ~lease /\ config.headS3 IN
    /\ Serves(c, {"OpenPath", "OpenAt"})
    /\ \E ok \in S3Answers :
          LET answer == IF lease THEN OpenAnswer(path, ok) ELSE "Ok"
              renewed == look /\ ok /\ Renews(path)
              f == IF lease THEN OpenFiles(path, ok) ELSE IF renewed THEN Downloaded(path) ELSE Files IN
          /\ ok \/ look \/ answer = "Error"
          /\ CountFault(ok)
          /\ IF lease THEN OnOpenWrite(path, ok)
             ELSE /\ known' = IF renewed THEN known \union {path} ELSE known
                  /\ UNCHANGED <<leases, queue, store>>
          /\ IF answer # "Ok" \/ ~found
             THEN /\ nodes' = f.nodes /\ tree' = f.tree
                  /\ Reply(c, IF answer = "Busy" THEN Busy ELSE Error)
                  /\ UNCHANGED <<fds, nextFd, sessionFds, strays>>
             ELSE IF ~at THEN OpenInode(c, f, path, path)
             ELSE \E p \in DOMAIN f.tree :
                     f.tree[p] = fds[dir].inode /\ OpenInode(c, f, p \o Req(c).path, path)
    /\ UNCHANGED <<refreshed, sessions>>

\* Where a read of inode i from a position can end: there, or behind what it
\* has read.
ReadEnds(i, from) == {from} \union {w.at + 1 : w \in {v \in nodes'[i].writes : v.at >= from}}

\* Read, at the position: with VFS_READ_MODE=s3 the first read of a descriptor
\* fetches the file.  A descriptor that may write need not be one that may read.
ServeRead(c) ==
    LET fd == Req(c).fd
        i == fds[fd].inode IN
    /\ Serves(c, {"Read"})
    /\ \E ok \in S3Answers :
          /\ CountFault(ok)
          /\ IF config.readS3 /\ fd \notin refreshed
             THEN /\ refreshed' = refreshed \union {fd}
                  /\ IF ok /\ fd \in DOMAIN fds THEN RefreshFile(fds[fd].path)
                     ELSE UNCHANGED <<nodes, tree, known>>
             ELSE ok /\ UNCHANGED <<refreshed, nodes, tree, known>>
    /\ \/ /\ fd \in DOMAIN fds /\ ~nodes[i].dir
          /\ \E end \in ReadEnds(i, fds[fd].pos) : fds' = [fds EXCEPT ![fd].pos = end]
          /\ Reply(c, Ok)
       \/ /\ fd \in DOMAIN fds => nodes[i].dir \/ fds[fd].write
          /\ Reply(c, Error) /\ UNCHANGED fds
    /\ UNCHANGED <<nextFd, sessionFds, strays, leases, queue, store, sessions>>

\* Write (at the position), AppendWrite (at the end), Ftruncate.
ServeWrite(c) ==
    LET fd == Req(c).fd
        kind == Req(c).kind IN
    /\ Serves(c, {"Write", "AppendWrite", "Ftruncate"})
    /\ IF fd \in DOMAIN fds /\ fds[fd].write
       THEN LET i == fds[fd].inode
                at == IF kind = "AppendWrite" THEN Size(i) ELSE fds[fd].pos
                data == Req(c).data IN
            /\ WriteFile(i, c, at, data)
            /\ fds' = IF kind = "Ftruncate" THEN fds
                      ELSE [fds EXCEPT ![fd].pos = at + Len(data)]
            /\ UNCHANGED tree
            /\ \E ok \in S3Answers : (config.realtime \/ ok) /\ CountFault(ok) /\ OnWrite(fds[fd].path, ok)
            /\ Reply(c, Ok)
       ELSE /\ Reply(c, Error)
            /\ UNCHANGED <<faults, nodes, tree, fds, syncVars>>
    /\ UNCHANGED <<nextFd, tableVars, sessions>>

\* close_fd: the descriptor is forgotten everywhere (unregister_fd) and closed;
\* on_close for a write descriptor.
CloseFd(fd, ok) ==
    LET closed == {fd} \intersect DOMAIN fds IN
    /\ refreshed' = refreshed \ {fd}
    /\ fds' = Without(fds, closed)
    /\ sessionFds' = [s \in DOMAIN sessionFds |-> sessionFds[s] \ {fd}]
    /\ ok \/ \E p \in Paths : Pushes(p, closed)
    /\ OnClose(closed, ok)
    /\ UNCHANGED <<nodes, tree, nextFd, queue, strays>>

\* Close.  The session that asks need not be the one that opened it.
ServeClose(c) ==
    LET fd == Req(c).fd IN
    /\ Serves(c, {"Close"})
    /\ \E ok \in S3Answers :
          /\ CloseFd(fd, ok)
          /\ Reply(c, IF fd \in DOMAIN fds /\ ok /\ \A p \in Paths : Pushes(p, {fd}) => CanPush(p)
                      THEN Ok ELSE Error)
    /\ UNCHANGED sessions

\* Fsync: on_fsync for a write descriptor.
ServeFsync(c) ==
    LET fd == Req(c).fd
        open == fd \in DOMAIN fds
        p == fds[fd].path IN
    /\ Serves(c, {"Fsync"})
    /\ \E ok \in S3Answers :
          /\ ok \/ (open /\ fds[fd].write /\ FsyncPushes(p))
          /\ CountFault(ok)
          /\ IF open /\ fds[fd].write THEN OnFsync(p, ok) ELSE UNCHANGED <<store, leases, known>>
          /\ Reply(c, IF open /\ (fds[fd].write => FsyncSucceeds(p, ok)) THEN Ok ELSE Error)
    /\ UNCHANGED <<fsVars, tableVars, queue, sessions>>

ServeSeek(c) ==
    LET fd == Req(c).fd IN
    /\ Serves(c, {"Seek"})
    /\ IF fd \in DOMAIN fds
       THEN fds' = [fds EXCEPT ![fd].pos = Req(c).at] /\ Reply(c, Ok)
       ELSE UNCHANGED fds /\ Reply(c, Error)
    /\ UNCHANGED <<faults, nodes, tree, nextFd, syncVars, tableVars, sessions>>

\* Requests that change nothing: Fstat, ReaddirFd; Stat, Readdir; and messages
\* that cannot be decoded.
ServeQuery(c) ==
    /\ Serves(c, {"Fstat", "ReaddirFd", "Stat", "Readdir", "Undecodable"})
    /\ Reply(c, CASE Req(c).kind = "Fstat" -> IF Req(c).fd \in DOMAIN fds THEN Ok ELSE Error
                  [] Req(c).kind = "Stat" -> IF Exists(Req(c).path) THEN Ok ELSE Error
                  [] Req(c).kind = "Readdir" -> IF IsDir(Req(c).path) THEN Ok ELSE Error
                  [] Req(c).kind = "ReaddirFd" ->
                        IF Req(c).fd \in DOMAIN fds /\ nodes[fds[Req(c).fd].inode].dir THEN Ok ELSE Error
                  [] OTHER -> Error)
    /\ UNCHANGED <<faults, fsVars, syncVars, tableVars, sessions>>

\* Mkdir, MkdirP; the marker that on_mkdir puts in S3 is left out, as is the one
\* that on_rmdir removes.
ServeMkdir(c) ==
    LET p == Req(c).path
        all == Req(c).kind = "MkdirP" IN
    /\ Serves(c, {"Mkdir", "MkdirP"})
    /\ IF CanMakeDir(p, all)
       THEN MakeDir(p, all) /\ Reply(c, Ok)
       ELSE Reply(c, Error) /\ UNCHANGED <<nodes, tree>>
    /\ UNCHANGED <<faults, fds, nextFd, syncVars, tableVars, sessions>>

\* Unlink, with enqueue_delete; Rmdir
ServeRemove(c) ==
    LET p == Req(c).path
        dir == Req(c).kind = "Rmdir" IN
    /\ Serves(c, {"Unlink", "Rmdir"})
    /\ IF CanRemove(p, dir)
       THEN /\ tree' = Without(tree, {p})
            /\ IF dir THEN UNCHANGED <<leases, queue, known>> ELSE EnqueueDelete(p)
            /\ Reply(c, Ok)
       ELSE Reply(c, Error) /\ UNCHANGED <<tree, leases, queue, known>>
    /\ UNCHANGED <<faults, nodes, fds, nextFd, store, tableVars, sessions>>

\* Rename: in the tree only; neither the paths of open descriptors nor the leases
\* follow, and nothing is queued for S3.
ServeRename(c) ==
    /\ Serves(c, {"Rename"})
    /\ IF CanRename(Req(c).path, Req(c).to)
       THEN tree' = Renamed(Req(c).path, Req(c).to) /\ Reply(c, Ok)
       ELSE Reply(c, Error) /\ UNCHANGED tree
    /\ UNCHANGED <<faults, nodes, fds, nextFd, syncVars, tableVars, sessions>>

Serve(c) ==
    \/ ServeConnect(c) \/ ServeOpen(c) \/ ServeRead(c) \/ ServeWrite(c) \/ ServeClose(c)
    \/ ServeFsync(c) \/ ServeSeek(c) \/ ServeQuery(c) \/ ServeMkdir(c) \/ ServeRemove(c)
    \/ ServeRename(c)

-----------------------------------------------------------------------------
(***************************************************************************)
(* The poll loop (async_main).  maybe_sync also runs after each request;   *)
(* whether its interval has passed is a choice, so that Tick stands for    *)
(* both.                                                                   *)
(***************************************************************************)

\* accept_new_client
Accept(c) ==
    /\ mode = "poll" /\ c \notin accepted /\ conn[c].state \in {"up", "down"}
    /\ accepted' = accepted \union {c}
    /\ sessions' = [sessions EXCEPT ![c] = 0]
    /\ UNCHANGED <<config, faults, fsVars, syncVars, tableVars, mode, dropping, foreign, conn, breaks>>

\* Mutant: a connection without a session stays in the list.
DisconnectedWithSession(c) ==
    /\ mode = "poll" /\ c \in accepted /\ sessions[c] # 0
    /\ conn[c].state = "down" /\ conn[c].req = NoRequest
    /\ mode' = "drop" /\ dropping' = c
    /\ UNCHANGED <<config, faults, fsVars, syncVars, tableVars, sessions, accepted, foreign, conn, breaks>>

\* handle_one_request reads the end of the stream.
Disconnected(c) ==
    /\ mode = "poll" /\ c \in accepted
    /\ conn[c].state = "down" /\ conn[c].req = NoRequest
    /\ mode' = "drop" /\ dropping' = c
    /\ UNCHANGED <<config, faults, fsVars, syncVars, tableVars, sessions, accepted, foreign, conn, breaks>>

\* Mutant: only the session is forgotten.
CloseSessionForgets(c) ==
    /\ mode = "drop" /\ dropping = c
    /\ sessionFds' = Without(sessionFds, {sessions[c]})
    /\ mode' = "flush"
    /\ UNCHANGED <<config, faults, fsVars, syncVars, refreshed, strays, dropping, sessions, accepted, foreign,
                   conn, breaks>>

\* close_session: what the session left open is closed, one descriptor after the
\* other and whether that fails or not ...
CloseSession(c) ==
    /\ mode = "drop" /\ dropping = c
    /\ \/ /\ \E fd \in OpenedIn(sessions[c]), ok \in S3Answers : CloseFd(fd, ok)
          /\ UNCHANGED mode
       \/ /\ OpenedIn(sessions[c]) = {}
          /\ sessionFds' = Without(sessionFds, {sessions[c]})
          /\ mode' = "flush"
          /\ UNCHANGED <<faults, fsVars, syncVars, refreshed, strays>>
    /\ UNCHANGED <<config, dropping, sessions, accepted, foreign, conn, breaks>>

\* ... what is queued is flushed, until nothing is left or a request fails ...
ForceFlush(c) ==
    /\ mode = "flush" /\ dropping = c
    /\ \E p \in Paths, ok \in S3Answers :
          /\ FlushOne(p, ok)
          /\ mode' = IF FlushFails(p, ok) THEN "leave" ELSE "flush"
    /\ UNCHANGED <<config, fds, nextFd, tableVars, dropping, sessions, accepted, foreign, conn, breaks>>

\* ... and the client leaves the list.
Leave(c) ==
    /\ mode = "leave" \/ (mode = "flush" /\ \A p \in Paths : queue[p] = NoOp)
    /\ dropping = c
    /\ mode' = "poll" /\ dropping' = NoClient
    /\ accepted' = accepted \ {c}
    /\ sessions' = [sessions EXCEPT ![c] = 0]
    /\ conn' = [conn EXCEPT ![c].state = "gone"]
    /\ UNCHANGED <<config, faults, fsVars, syncVars, tableVars, foreign, breaks>>

\* maybe_sync: in realtime mode only when there is a delete.
Tick ==
    /\ mode = "poll"
    /\ config.realtime => \E p \in Paths : queue[p].op = "delete"
    /\ \E p \in Paths, ok \in S3Answers : FlushOne(p, ok)
    /\ UNCHANGED <<config, fds, nextFd, tableVars, loopVars, foreign, conn, breaks>>

\* Another instance gives back the lease of a path.
ForeignRelease(p) ==
    /\ p \in foreign
    /\ foreign' = foreign \ {p}
    /\ UNCHANGED <<config, faults, fsVars, syncVars, tableVars, loopVars, conn, breaks>>

\* A connection ends: the client exits or is cut off.  A request that has been
\* sent may still arrive, a response does not.
Break(c) ==
    /\ conn[c].state = "up" /\ breaks < config.breaks
    /\ breaks' = breaks + 1
    /\ \E req \in {NoRequest, conn[c].req} :
          conn' = [conn EXCEPT ![c] = [state |-> "down", req |-> req, resp |-> NoResponse]]
    /\ UNCHANGED <<config, faults, fsVars, syncVars, tableVars, loopVars, foreign>>

ServerStep(c) == Accept(c) \/ Serve(c) \/ Disconnected(c) \/ CloseSession(c) \/ ForceFlush(c) \/ Leave(c)

\* What neither the server's requests nor its clients decide.
Environment == Tick \/ (\E p \in ForeignPaths : ForeignRelease(p)) \/ (\E c \in Clients : Break(c))
=============================================================================
