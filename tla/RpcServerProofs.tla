-------------------------- MODULE RpcServerProofs --------------------------
(***************************************************************************)
(* The RPC server never forgets a descriptor and never gives up a lease    *)
(* that one of its descriptors writes under, whatever its clients send and *)
(* whenever their connections break.                                       *)
(*                                                                         *)
(* The inductive invariant has a part for each thing that is kept apart in *)
(* the code: the files (Disk), the handshake (LoopInv), the sessions       *)
(* (SessionsInv), what a client knows of its descriptors (OwnInv) and what *)
(* it has still to send (CallInv).                                         *)
(***************************************************************************)
EXTENDS RpcAdapter, SyncedFilesProofs

-----------------------------------------------------------------------------
(***************************************************************************)
(* Types                                                                   *)
(***************************************************************************)

Connections == [state : {"none", "up", "down", "gone"}, req : Requests, resp : Responses]
ServerTypes ==
    /\ config \in Configs
    /\ sessions \in [Clients -> Nat]
    /\ accepted \subseteq Clients
    /\ conn \in [Clients -> Connections]

Descriptors == [fd : Nat, write : BOOLEAN, state : {"open", "pending", "released"}]
Streams == [h : Nat, append : BOOLEAN, offset : Nat, buffer : Seq(Nat), live : BOOLEAN]
Calls == {r \in Requests : r.kind # "none"}
CallRecords ==
    [op : {"none", "open", "call", "fsync", "drop", "close"}, h : Nat, s : Nat, todo : Seq(Calls), retries : Nat]
WriteRecords == [h : Nat, at : Nat]
ClientTypes ==
    /\ link \in [Clients -> Nat]
    /\ descs \in [Clients -> Seq(Descriptors)]
    /\ streams \in [Clients -> Seq(Streams)]
    /\ call \in [Clients -> CallRecords]
    /\ wrote \in [Clients -> Seq(WriteRecords)]

\* An adapter's calls leave the handshake to connect.
NoHandshake == \A c \in Adapters : \A i \in DOMAIN call[c].todo : call[c].todo[i].kind # "Connect"

-----------------------------------------------------------------------------
(***************************************************************************)
(* Files: what they hold has been written by someone, and by adapters      *)
(* where it was meant to be, unless other clients use their descriptors.   *)
(***************************************************************************)

Good(b) ==
    {w \in [c : Clients \union {NoClient}, n : Nat, at : 0 .. b] :
        w.c \in Adapters /\ ~config.any => w.n \in 1 .. Len(wrote[w.c]) /\ wrote[w.c][w.n].at \in {Anywhere, w.at}}
FilesInv == \E b \in Nat : FilesIn(Files, Good(b)) /\ StoreIn(Good(b))
Disk == FilesInv /\ FdsOK /\ LeasesOK /\ LeaseCoversWriters

-----------------------------------------------------------------------------
(***************************************************************************)
(* The handshake.  A client that has been told of its connection, and is   *)
(* not cut off, is in the server's list, and an adapter has a session.     *)
(***************************************************************************)

Up(c) == conn[c].state = "up"
Linked(c) == conn[c].state \in {"up", "down"}
Shaken(c) ==
    LET req == conn[c].req
        resp == conn[c].resp IN
    /\ c \in accepted => Linked(c)
    /\ (link[c] > 0 \/ resp.kind = "Connected") /\ Linked(c) => c \in accepted /\ (c \in Adapters => sessions[c] > 0)
    /\ c \in Direct => link[c] > 0
    /\ req.kind = "Connect" => resp = NoResponse
    /\ req.kind = "Connect" /\ c \in Adapters => link[c] = 0 /\ (c \in accepted => sessions[c] = 0)
    /\ req.kind \notin {"none", "Connect"} => link[c] > 0
    /\ req.kind = "none" => req = NoRequest
    /\ resp.kind = "none" => resp = NoResponse
    /\ resp.kind # "none" => Up(c) /\ req = NoRequest
    /\ resp.kind = "Connected" => resp.version > 0
    /\ resp.kind = "Connected" /\ c \in Adapters => link[c] = 0
    /\ resp.kind = "ProtocolError" /\ c \in Adapters => link[c] = 0 /\ sessions[c] = 0
    /\ resp.kind \notin {"none", "Connected", "ProtocolError"} => link[c] > 0
LoopInv ==
    /\ \A c \in Clients : Shaken(c)
    /\ mode \in {"drop", "flush", "leave"} => dropping \in accepted /\ conn[dropping].state = "down"
    /\ mode \in {"flush", "leave"} => sessions[dropping] \notin DOMAIN sessionFds

-----------------------------------------------------------------------------
(***************************************************************************)
(* Sessions: connections have different ones, and they different           *)
(* descriptors; those that no session closes are the strays.               *)
(***************************************************************************)

HaveSession == \A fd \in DOMAIN fds \ strays : \E c \in accepted : fd \in OpenedIn(sessions[c])
SessionsInv ==
    /\ \E n \in Nat : (\A c \in Clients : sessions[c] <= n) /\ DOMAIN sessionFds \subseteq 1 .. n
    /\ \A c, d \in Clients : sessions[c] = sessions[d] /\ sessions[c] > 0 => c = d
    /\ \A s \in DOMAIN sessionFds : sessionFds[s] \subseteq 3 .. nextFd - 1
    /\ \A r, s \in DOMAIN sessionFds : r # s => sessionFds[r] \intersect sessionFds[s] = {}
    /\ strays \subseteq 3 .. nextFd - 1
    /\ HaveSession

-----------------------------------------------------------------------------
(***************************************************************************)
(* What the server must know of the requests that it serves.               *)
(***************************************************************************)

\* The write n of the history ws was meant for offset at.
Meant(ws, n, at) == n \in 1 .. Len(ws) /\ ws[n].at = at

\* An open names a path, and a write what its client has written: at the end of
\* the file, or where the position is, which others may move in between.
Served(r) ==
    /\ r.kind = "OpenPath" => r.path \in Paths
    /\ r.kind = "OpenAt" => r.fd < nextFd /\ (r.fd \in DOMAIN fds => fds[r.fd].path \o r.path \in Paths)
WroteThere(c, r) ==
    /\ r.kind \in {"AppendWrite", "Ftruncate"} => \A k \in DOMAIN r.data : Meant(wrote[c], r.data[k], Anywhere)
    /\ r.kind = "Write" /\ r.fd \in DOMAIN fds =>
          \A k \in DOMAIN r.data : Meant(wrote[c], r.data[k], fds[r.fd].pos + k - 1)
Wrote(c, r) == c \in Adapters /\ ~config.any => WroteThere(c, r)
RequestsInv == \A c \in Clients : Served(conn[c].req) /\ Wrote(c, conn[c].req)

-----------------------------------------------------------------------------
(***************************************************************************)
(* Steps that leave the writes alone                                       *)
(***************************************************************************)

LEMMA GoodSame ==
    ASSUME UNCHANGED <<wrote, config>>, NEW b
    PROVE  Good(b)' = Good(b)
BY DEF Good

\* Files that hold what they may hold are good.
LEMMA FilesKept ==
    ASSUME NEW b \in Nat, NEW W, W \subseteq Good(b)', FilesIn(Files', W), StoreIn(W)'
    PROVE  FilesInv'
<1> DEFINE G == Good(b)'
<1>1. PICK V : V = Good(b)'
    OBVIOUS
<1>2. FilesIn(Files', V)
    BY <1>1, FilesInMore
<1>3. StoreIn(V)'
    BY <1>1 DEF StoreIn, Object
<1> QED BY <1>1, <1>2, <1>3 DEF FilesInv

\* Steps with no effect on the files.
LEMMA DiskSame ==
    ASSUME Disk, UNCHANGED <<config, fsVars, leases, store, wrote>>
    PROVE  Disk'
<1>1. FilesInv'
    BY DEF Disk, FilesInv, FilesIn, Files, StoreIn, fsVars, Good
<1>2. FdsOK' /\ LeasesOK' /\ LeaseCoversWriters'
    BY DEF Disk, FdsOK, LeasesOK, LeaseCoversWriters, Writers, fsVars
<1> QED BY <1>1, <1>2 DEF Disk

\* Disk', from its parts.
LEMMA DiskNext ==
    ASSUME NEW b \in Nat, NEW W, W = Good(b), UNCHANGED <<wrote, config>>,
           FilesIn(Files', W), StoreIn(W)', FdsOK', LeasesOK', LeaseCoversWriters'
    PROVE  Disk'
<1>1. W \subseteq Good(b)'
    BY GoodSame
<1>2. FilesInv'
    BY <1>1, FilesKept
<1> QED BY <1>2 DEF Disk

\* The descriptors keep path and mode, the leases their references.
LEMMA CoverSame ==
    ASSUME LeaseCoversWriters, UNCHANGED config, SameRefs, SameWriters
    PROVE  LeaseCoversWriters'
<1>1. ASSUME NEW p \in Paths PROVE Writers(p, DOMAIN fds)' = Writers(p, DOMAIN fds)
    BY WritersSame DEF SameWriters
<1> QED BY <1>1 DEF LeaseCoversWriters, SameRefs

\* Files change, and inodes are added, but no descriptor does.
LEMMA DiskFiles ==
    ASSUME NEW b \in Nat, NEW W, W = Good(b), UNCHANGED <<wrote, config, fds, nextFd>>, Disk,
           FilesIn(Files, W), FilesIn(Files', W), StoreIn(W)', Len(nodes') >= Len(nodes), LeasesOK', SameRefs
    PROVE  Disk'
<1>1. FdsOK'
    <2>1. Len(nodes) \in Nat /\ Len(nodes') \in Nat
        BY DEF FilesIn, Files
    <2> QED BY <2>1, FdsGrow DEF Disk
<1>2. SameWriters
    BY DEF SameWriters
<1>3. LeaseCoversWriters'
    BY <1>2, CoverSame DEF Disk
<1> QED BY <1>1, <1>3, DiskNext

-----------------------------------------------------------------------------
(***************************************************************************)
(* The requests                                                            *)
(***************************************************************************)

LEMMA ReqType ==
    ASSUME ServerTypes, NEW c \in Clients
    PROVE  /\ conn[c] \in Connections /\ conn[c].state \in {"none", "up", "down", "gone"}
           /\ Req(c) \in Requests /\ conn[c].resp \in Responses
           /\ Req(c).kind \in RequestKinds /\ Req(c).fd \in Nat /\ Req(c).path \in Seq(STRING)
           /\ Req(c).to \in Seq(STRING) /\ Req(c).write \in BOOLEAN /\ Req(c).data \in Seq(Nat)
           /\ Req(c).at \in Nat
<1>1. conn[c] \in Connections
    BY DEF ServerTypes
<1>2. Req(c) \in Requests /\ conn[c].resp \in Responses /\ conn[c].state \in {"none", "up", "down", "gone"}
    BY <1>1 DEF Connections, Req
<1> QED BY <1>1, <1>2 DEF Requests

\* An inode's number is one of the descriptor's.
LEMMA FdType ==
    ASSUME FdsOK, NEW fd \in DOMAIN fds
    PROVE  /\ fds[fd].inode \in 1 .. Len(nodes) /\ fds[fd].path \in Paths
           /\ fds[fd].write \in BOOLEAN /\ fds[fd].pos \in Nat /\ fd \in Nat /\ fd >= 3 /\ fd < nextFd
<1>1. fds[fd] \in FdRecords(Len(nodes))
    BY DEF FdsOK
<1> QED BY <1>1 DEF FdRecords, FdsOK

\* A position moves while inodes are added.
LEMMA FdsMoveGrow ==
    ASSUME FdsOK, NEW fd, fd \in DOMAIN fds, NEW n \in Nat, Moved(fd, n), UNCHANGED nextFd,
           Len(nodes) \in Nat, Len(nodes') \in Nat, Len(nodes') >= Len(nodes)
    PROVE  FdsOK' /\ SameWriters
<1> DEFINE r == [fds[fd] EXCEPT !.pos = n]
<1>1. fds[fd] \in FdRecords(Len(nodes))
    BY DEF FdsOK
<1>2. r \in FdRecords(Len(nodes)) /\ r.path = fds[fd].path /\ r.write = fds[fd].write
    BY <1>1 DEF FdRecords
<1>3. fds' = [fds EXCEPT ![fd] = r]
    BY DEF Moved
<1> HIDE DEF r
<1>4. fds' \in [DOMAIN fds -> FdRecords(Len(nodes))] /\ SameWriters
    BY <1>2, <1>3 DEF FdsOK, SameWriters
<1>5. FdRecords(Len(nodes)) \subseteq FdRecords(Len(nodes'))
    BY DEF FdRecords
<1> QED BY <1>4, <1>5 DEF FdsOK

\* What a read does: the files may be fetched first, and the position moves.
ReadMoves(fd) ==
    \/ UNCHANGED fds
    \/ fd \in DOMAIN fds /\ \E end \in ReadEnds(fds[fd].inode, fds[fd].pos) : Moved(fd, end)
LEMMA ReadIs ==
    ASSUME NEW c, ServeRead(c)
    PROVE  ReadMoves(Req(c).fd)
BY DEF ServeRead, ReadMoves, Moved

LEMMA ReadEndIs ==
    ASSUME NEW b \in Nat, NEW W, \A w \in W : w.at \in 0 .. b, FilesIn(Files', W),
           NEW i \in 1 .. Len(nodes'), NEW from \in Nat, NEW end \in ReadEnds(i, from)
    PROVE  end \in Nat
<1>1. nodes'[i] \in Inodes(W)
    BY DEF FilesIn, Files
<1>2. nodes'[i].writes \subseteq W
    BY <1>1 DEF Inodes
<1>3. \A w \in nodes'[i].writes : w.at + 1 \in Nat
    BY <1>2
<1> QED BY <1>3 DEF ReadEnds

LEMMA DiskRead ==
    ASSUME ServerTypes, Disk, NEW c \in Clients, ServeRead(c), UNCHANGED wrote
    PROVE  Disk'
<1>1. PICK b, W : b \in Nat /\ W = Good(b) /\ FilesIn(Files, W) /\ StoreIn(W)
    BY DEF Disk, FilesInv
<1>2. UNCHANGED <<config, nextFd, leases, store>>
    BY DEF ServeRead, Reply
<1>3. StoreIn(W)' /\ LeasesOK' /\ SameRefs
    BY <1>1, <1>2 DEF StoreIn, Disk, LeasesOK, SameRefs
<1>4. FilesIn(Files', W) /\ Len(nodes') >= Len(nodes)
    <2>0. Len(nodes) \in Nat
        BY <1>1 DEF FilesIn, Files
    <2>1. CASE UNCHANGED <<nodes, tree>>
        BY <1>1, <2>0, <2>1 DEF FilesIn, Files
    <2>2. CASE Req(c).fd \in DOMAIN fds /\ RefreshFile(fds[Req(c).fd].path)
        <3>1. fds[Req(c).fd].path \in Paths
            BY <2>2, FdType DEF Disk
        <3> QED BY <1>1, <2>2, <3>1, RefreshIn
    <2> QED BY <2>1, <2>2 DEF ServeRead
<1>5. Len(nodes) \in Nat /\ Len(nodes') \in Nat /\ FdsOK
    BY <1>1, <1>4 DEF FilesIn, Files, Disk
<1>6. FdsOK' /\ SameWriters
    <2>1. CASE UNCHANGED fds
        BY <1>2, <1>4, <1>5, <2>1, FdsGrow DEF SameWriters
    <2>2. CASE ~UNCHANGED fds
        <3>1. PICK fd, end : /\ fd = Req(c).fd /\ fd \in DOMAIN fds
                             /\ end \in ReadEnds(fds[fd].inode, fds[fd].pos) /\ Moved(fd, end)
            BY <2>2, ReadIs DEF ReadMoves
        <3>2. fds[fd].inode \in 1 .. Len(nodes') /\ fds[fd].pos \in Nat
            BY <1>4, <1>5, <3>1, FdType
        <3>3. \A w \in W : w.at \in 0 .. b
            BY <1>1 DEF Good
        <3>4. end \in Nat
            BY <1>1, <1>4, <3>1, <3>2, <3>3, ReadEndIs
        <3> QED BY <1>2, <1>4, <1>5, <3>1, <3>4, FdsMoveGrow
    <2> QED BY <2>1, <2>2
<1>7. LeaseCoversWriters'
    BY <1>2, <1>3, <1>6, CoverSame DEF Disk
<1> QED BY <1>1, <1>2, <1>3, <1>4, <1>6, <1>7, DiskNext

LEMMA DiskSeek ==
    ASSUME ServerTypes, Disk, NEW c \in Clients, ServeSeek(c), UNCHANGED wrote
    PROVE  Disk'
<1>1. PICK b, W : b \in Nat /\ W = Good(b) /\ FilesIn(Files, W) /\ StoreIn(W)
    BY DEF Disk, FilesInv
<1>2. UNCHANGED <<config, nodes, tree, nextFd, leases, store>>
    BY DEF ServeSeek, Reply, syncVars
<1>3. FilesIn(Files', W) /\ StoreIn(W)' /\ LeasesOK' /\ SameRefs
    BY <1>1, <1>2 DEF FilesIn, Files, StoreIn, Disk, LeasesOK, SameRefs
<1>4. CASE Req(c).fd \in DOMAIN fds
    <2>1. fds' = [fds EXCEPT ![Req(c).fd].pos = Req(c).at] /\ Req(c).at \in Nat
        BY <1>4, ReqType DEF ServeSeek
    <2>2. FdsOK' /\ SameWriters
        <3>1. UNCHANGED nextFd /\ Len(nodes') = Len(nodes) /\ FdsOK
            BY <1>2 DEF Disk
        <3>2. PICK n, fd : n \in Nat /\ fd \in DOMAIN fds /\ n = Req(c).at /\ fd = Req(c).fd
            BY <1>4, <2>1
        <3>3. Moved(fd, n)
            BY <2>1, <3>2 DEF Moved
        <3> QED BY <3>1, <3>2, <3>3, FdsMove
    <2>3. LeaseCoversWriters'
        BY <1>2, <1>3, <2>2, CoverSame DEF Disk
    <2> QED BY <1>1, <1>2, <1>3, <2>2, <2>3, DiskNext
<1>5. CASE Req(c).fd \notin DOMAIN fds
    <2>1. UNCHANGED fsVars
        BY <1>2, <1>5 DEF ServeSeek, fsVars
    <2> QED BY <1>2, <2>1, DiskSame
<1> QED BY <1>4, <1>5

LEMMA DiskMkdir ==
    ASSUME ServerTypes, Disk, NEW c \in Clients, ServeMkdir(c), UNCHANGED wrote
    PROVE  Disk'
<1>1. PICK b, W : b \in Nat /\ W = Good(b) /\ FilesIn(Files, W) /\ StoreIn(W)
    BY DEF Disk, FilesInv
<1>2. UNCHANGED <<config, fds, nextFd, leases, store>>
    BY DEF ServeMkdir, Reply, syncVars
<1>3. StoreIn(W)' /\ LeasesOK' /\ SameRefs
    BY <1>1, <1>2 DEF StoreIn, Disk, LeasesOK, SameRefs
<1>4. FilesIn(Files', W) /\ Len(nodes') >= Len(nodes)
    <2>0. Len(nodes) \in Nat
        BY <1>1 DEF FilesIn, Files
    <2>1. CASE UNCHANGED <<nodes, tree>>
        BY <1>1, <2>0, <2>1 DEF FilesIn, Files
    <2>2. CASE MakeDir(Req(c).path, Req(c).kind = "MkdirP")
        <3>1. Req(c).path \in Seq(STRING)
            BY ReqType
        <3> QED BY <1>1, <2>2, <3>1, MakeDirIn
    <2> QED BY <2>1, <2>2 DEF ServeMkdir
<1> QED BY <1>1, <1>2, <1>3, <1>4, DiskFiles

LEMMA DiskRemove ==
    ASSUME ServerTypes, Disk, NEW c \in Clients, ServeRemove(c), UNCHANGED wrote
    PROVE  Disk'
<1>1. PICK b, W : b \in Nat /\ W = Good(b) /\ FilesIn(Files, W) /\ StoreIn(W)
    BY DEF Disk, FilesInv
<1>2. UNCHANGED <<config, nodes, fds, nextFd, store>>
    BY DEF ServeRemove, Reply
<1>3. LeasesOK' /\ SameRefs
    <2>1. CASE UNCHANGED leases
        BY <2>1 DEF Disk, LeasesOK, SameRefs
    <2>2. CASE EnqueueDelete(Req(c).path)
        BY <2>2, EnqueueKeeps DEF Disk
    <2> QED BY <2>1, <2>2 DEF ServeRemove
<1>4. FilesIn(Files', W) /\ Len(nodes') >= Len(nodes)
    <2>0. Len(nodes) \in Nat
        BY <1>1 DEF FilesIn, Files
    <2>1. CASE UNCHANGED tree
        BY <1>1, <1>2, <2>0, <2>1 DEF FilesIn, Files
    <2>2. CASE tree' = Without(tree, {Req(c).path})
        BY <1>1, <1>2, <2>0, <2>2 DEF FilesIn, Files, Without
    <2> QED BY <2>1, <2>2 DEF ServeRemove
<1>5. StoreIn(W)'
    BY <1>1, <1>2 DEF StoreIn
<1> QED BY <1>1, <1>2, <1>3, <1>4, <1>5, DiskFiles

LEMMA DiskRename ==
    ASSUME ServerTypes, Disk, NEW c \in Clients, ServeRename(c), UNCHANGED wrote
    PROVE  Disk'
<1>1. PICK b, W : b \in Nat /\ W = Good(b) /\ FilesIn(Files, W) /\ StoreIn(W)
    BY DEF Disk, FilesInv
<1>2. UNCHANGED <<config, nodes, fds, nextFd, leases, store>>
    BY DEF ServeRename, Reply, syncVars
<1>3. StoreIn(W)' /\ LeasesOK' /\ SameRefs
    BY <1>1, <1>2 DEF StoreIn, Disk, LeasesOK, SameRefs
<1>4. FilesIn(Files', W) /\ Len(nodes') >= Len(nodes)
    <2>0. Len(nodes) \in Nat
        BY <1>1 DEF FilesIn, Files
    <2>1. CASE UNCHANGED tree
        BY <1>1, <1>2, <2>0, <2>1 DEF FilesIn, Files
    <2>2. CASE tree' = Renamed(Req(c).path, Req(c).to)
        BY <1>1, <1>2, <2>0, <2>2, RenamedIn
    <2> QED BY <2>1, <2>2 DEF ServeRename
<1> QED BY <1>1, <1>2, <1>3, <1>4, DiskFiles

LEMMA DiskFsync ==
    ASSUME ServerTypes, Disk, NEW c \in Clients, ServeFsync(c), UNCHANGED wrote
    PROVE  Disk'
<1>1. PICK b, W : b \in Nat /\ W = Good(b) /\ FilesIn(Files, W) /\ StoreIn(W)
    BY DEF Disk, FilesInv
<1>2. UNCHANGED <<config, nodes, tree, fds, nextFd>>
    BY DEF ServeFsync, Reply, fsVars
<1>3. StoreIn(W)' /\ LeasesOK' /\ SameRefs
    <2>1. CASE UNCHANGED <<store, leases>>
        BY <1>1, <2>1 DEF StoreIn, Disk, LeasesOK, SameRefs
    <2>2. ASSUME NEW ok, OnFsync(fds[Req(c).fd].path, ok) PROVE StoreIn(W)' /\ LeasesOK' /\ SameRefs
        BY <1>1, <2>2, OnFsyncKeeps DEF Disk
    <2> QED BY <2>1, <2>2 DEF ServeFsync
<1>4. FilesIn(Files', W) /\ Len(nodes') >= Len(nodes)
    BY <1>1, <1>2 DEF FilesIn, Files
<1> QED BY <1>1, <1>2, <1>3, <1>4, DiskFiles
\* What a write request holds is good where the server writes it.
LEMMA WritesAreGood ==
    ASSUME ServerTypes, RequestsInv, NEW c \in Clients, NEW fd \in Nat, fd = Req(c).fd, fd \in DOMAIN fds,
           Req(c).kind \in {"Write", "AppendWrite", "Ftruncate"},
           NEW at \in Nat, Req(c).kind = "Write" => at = fds[fd].pos, NEW data, data = Req(c).data,
           NEW b \in Nat, b >= at + Len(data)
    PROVE  \A k \in DOMAIN data : [c |-> c, n |-> data[k], at |-> at + k - 1] \in Good(b)
<1>1. data \in Seq(Nat)
    BY ReqType
<1> SUFFICES ASSUME NEW k \in DOMAIN data
             PROVE  [c |-> c, n |-> data[k], at |-> at + k - 1] \in Good(b)
    OBVIOUS
<1>2. k \in 1 .. Len(data) /\ Len(data) \in Nat /\ data[k] \in Nat
    BY <1>1
<1>3. at + k - 1 \in 0 .. b
    BY <1>2
<1>4. Wrote(c, Req(c))
    BY DEF RequestsInv, Req
<1>5. c \in Adapters /\ ~config.any =>
         data[k] \in 1 .. Len(wrote[c]) /\ wrote[c][data[k]].at \in {Anywhere, at + k - 1}
    <2> SUFFICES ASSUME c \in Adapters, ~config.any
                 PROVE  data[k] \in 1 .. Len(wrote[c]) /\ wrote[c][data[k]].at \in {Anywhere, at + k - 1}
        OBVIOUS
    <2>0. WroteThere(c, Req(c))
        BY <1>4 DEF Wrote
    <2>1. CASE Req(c).kind = "Write"
        BY <2>0, <2>1 DEF WroteThere, Meant
    <2>2. CASE Req(c).kind \in {"AppendWrite", "Ftruncate"}
        BY <2>0, <2>2 DEF WroteThere, Meant
    <2> QED BY <2>1, <2>2
<1> DEFINE w == [c |-> c, n |-> data[k], at |-> at + k - 1]
<1>6. w.c = c /\ w.n = data[k] /\ w.at = at + k - 1 /\ w \in [c : Clients \union {NoClient}, n : Nat, at : 0 .. b]
    BY <1>2, <1>3
<1> HIDE DEF w
<1>7. w \in Good(b)
    BY <1>5, <1>6 DEF Good
<1> QED BY <1>7 DEF w

\* Writes that are good for b are good for more.
LEMMA GoodMore ==
    ASSUME NEW b \in Nat, NEW e \in Nat, b <= e
    PROVE  Good(b) \subseteq Good(e)
<1>1. 0 .. b \subseteq 0 .. e
    OBVIOUS
<1>2. ASSUME NEW w \in [c : Clients \union {NoClient}, n : Nat, at : 0 .. b]
      PROVE  w \in [c : Clients \union {NoClient}, n : Nat, at : 0 .. e]
    BY <1>1
<1> QED BY <1>2 DEF Good

LEMMA DiskWrite ==
    ASSUME ServerTypes, RequestsInv, Disk, NEW c \in Clients, ServeWrite(c), UNCHANGED wrote
    PROVE  Disk'
<1>1. PICK b, W : b \in Nat /\ W = Good(b) /\ FilesIn(Files, W) /\ StoreIn(W)
    BY DEF Disk, FilesInv
<1>2. CASE ~(Req(c).fd \in DOMAIN fds /\ fds[Req(c).fd].write)
    <2>1. UNCHANGED <<config, fsVars, leases, store>>
        BY <1>2 DEF ServeWrite, Reply, fsVars, syncVars
    <2> QED BY <2>1, DiskSame
<1>3. CASE Req(c).fd \in DOMAIN fds /\ fds[Req(c).fd].write
    <2>1. PICK fd, data, i, at :
             /\ fd = Req(c).fd /\ data = Req(c).data /\ i = fds[fd].inode
             /\ at = IF Req(c).kind = "AppendWrite" THEN Size(i) ELSE fds[fd].pos
        OBVIOUS
    <2>2. /\ fd \in DOMAIN fds /\ fd \in Nat /\ data \in Seq(Nat) /\ i \in 1 .. Len(nodes)
          /\ fds[fd].pos \in Nat /\ fds[fd].path \in Paths
        BY <1>3, <2>1, ReqType, FdType DEF Disk
    <2>3. at \in Nat /\ (Req(c).kind = "Write" => at = fds[fd].pos)
        <3>1. \A w \in W : w.at \in 0 .. b
            BY <1>1 DEF Good
        <3>2. Size(i) \in Nat
            BY <1>1, <2>2, <3>1, SizeIsNat
        <3> QED BY <2>1, <2>2, <3>2
    <2>4. /\ WriteFile(i, c, at, data) /\ UNCHANGED <<tree, nextFd, config>>
          /\ UNCHANGED fds \/ Moved(fd, at + Len(data))
          /\ \E ok : OnWrite(fds[fd].path, ok)
          /\ Req(c).kind \in {"Write", "AppendWrite", "Ftruncate"}
        <3>1. /\ WriteFile(i, c, at, data)
              /\ fds' = IF Req(c).kind = "Ftruncate" THEN fds ELSE [fds EXCEPT ![fd].pos = at + Len(data)]
            BY <1>3, <2>1, Zenon DEF ServeWrite
        <3>2. UNCHANGED <<tree, nextFd, config>>
            BY <1>3, <2>1 DEF ServeWrite, Reply
        <3>3. \E ok : OnWrite(fds[fd].path, ok)
            BY <1>3, <2>1 DEF ServeWrite
        <3>4. Req(c).kind \in {"Write", "AppendWrite", "Ftruncate"}
            BY DEF ServeWrite, Serves, Req
        <3> QED BY <3>1, <3>2, <3>3, <3>4 DEF Moved
    <2>5. PICK e, V : e \in Nat /\ e = b + at + Len(data) /\ V = Good(e)
        BY <1>1, <2>2, <2>3
    <2>6. W \subseteq V
        <3>1. b <= e
            BY <1>1, <2>2, <2>3, <2>5
        <3> QED BY <1>1, <2>5, <3>1, GoodMore
    <2>7. FilesIn(Files, V) /\ StoreIn(V)
        BY <1>1, <2>6, FilesInMore DEF StoreIn, Object
    <2>8. \A k \in DOMAIN data : [c |-> c, n |-> data[k], at |-> at + k - 1] \in V
        <3>1. e >= at + Len(data)
            BY <1>1, <2>2, <2>3, <2>5
        <3> QED BY <2>1, <2>2, <2>3, <2>4, <2>5, <3>1, WritesAreGood
    <2>9. FilesIn(Files', V) /\ Len(nodes') = Len(nodes)
        BY <2>2, <2>4, <2>7, <2>8, WriteFileIn
    <2>10. StoreIn(V)' /\ LeasesOK' /\ SameRefs
        <3>1. PICK ok, p : p = fds[fd].path /\ OnWrite(p, ok)
            BY <2>4
        <3> QED BY <2>4, <2>7, <2>9, <3>1, OnWriteKeeps DEF Disk
    <2>11. FdsOK' /\ SameWriters
        <3>1. CASE UNCHANGED fds
            BY <2>4, <2>9, <3>1 DEF FdsOK, SameWriters, Disk
        <3>2. CASE Moved(fd, at + Len(data))
            <4>1. PICK n \in Nat : n = at + Len(data)
                BY <2>2, <2>3
            <4>2. Moved(fd, n) /\ FdsOK
                BY <3>2, <4>1 DEF Disk
            <4> QED BY <2>2, <2>4, <2>9, <4>2, FdsMove
        <3> QED BY <2>4, <3>1, <3>2
    <2>12. LeaseCoversWriters'
        BY <2>4, <2>10, <2>11, CoverSame DEF Disk
    <2> QED BY <2>4, <2>5, <2>9, <2>10, <2>11, <2>12, DiskNext
<1> QED BY <1>2, <1>3
-----------------------------------------------------------------------------
(***************************************************************************)
(* Opens                                                                   *)
(***************************************************************************)

\* The hook of an open, if there is one: f are the files it leaves.
Hooked(c, path, ok, f) ==
    \/ path \in Paths /\ f = OpenFiles(path, ok) /\ OnOpenWrite(path, ok)
    \/ path \in Paths /\ f = Downloaded(path) /\ UNCHANGED <<leases, queue, store>>
    \/ f = Files /\ UNCHANGED <<leases, queue, store>>
OpenFails(c, f) ==
    /\ nodes' = f.nodes /\ tree' = f.tree /\ UNCHANGED <<fds, nextFd, sessionFds, strays>>
    /\ \E resp \in {Busy, Error} : Reply(c, resp)
FdResponse(fd) == [Response("Fd") EXCEPT !.fd = fd]
OpenSucceeds(c, path, ok, f) ==
    /\ path \in Paths
    /\ config.lock /\ Req(c).write => OnOpenWrite(path, ok) /\ OpenAnswer(path, ok) = "Ok"
    /\ \E p : OpenFile(f, p, path, Req(c).write, FALSE)
    /\ RegisterFd(c, nextFd) /\ Reply(c, FdResponse(nextFd))

LEMMA OpenCases ==
    ASSUME RequestsInv, NEW c \in Clients, ServeOpen(c)
    PROVE  \E path, ok, f : Hooked(c, path, ok, f) /\ (OpenFails(c, f) \/ OpenSucceeds(c, path, ok, f))
<1> DEFINE dir == Req(c).fd
           at == Req(c).kind = "OpenAt"
           found == ~at \/ dir \in DOMAIN fds
           path == IF at /\ found THEN fds[dir].path \o Req(c).path ELSE Req(c).path
           lease == found /\ config.lock /\ Req(c).write
           look == found /\ ~lease /\ config.headS3
           renewed(ok) == look /\ ok /\ Renews(path)
           Answer(ok) == IF lease THEN OpenAnswer(path, ok) ELSE "Ok"
           After(ok) == IF lease THEN OpenFiles(path, ok) ELSE IF renewed(ok) THEN Downloaded(path) ELSE Files
<1>0. Req(c).kind \in {"OpenPath", "OpenAt"}
    BY DEF ServeOpen, Serves, Req
<1>1. found => path \in Paths
    <2>1. Served(Req(c))
        BY DEF RequestsInv, Req
    <2> QED BY <1>0, <2>1 DEF Served
<1>2. PICK ok :
         /\ IF lease THEN OnOpenWrite(path, ok) ELSE UNCHANGED <<leases, queue, store>>
         /\ IF Answer(ok) # "Ok" \/ ~found
            THEN /\ nodes' = After(ok).nodes /\ tree' = After(ok).tree
                 /\ Reply(c, IF Answer(ok) = "Busy" THEN Busy ELSE Error)
                 /\ UNCHANGED <<fds, nextFd, sessionFds, strays>>
            ELSE IF ~at THEN OpenInode(c, After(ok), path, path)
            ELSE \E p \in DOMAIN After(ok).tree :
                    After(ok).tree[p] = fds[dir].inode /\ OpenInode(c, After(ok), p \o Req(c).path, path)
    BY Zenon DEF ServeOpen
<1>3. PICK f, q : f = After(ok) /\ q = path
    OBVIOUS
<1>4. Hooked(c, q, ok, f)
    BY <1>1, <1>2, <1>3 DEF Hooked
<1>5. CASE Answer(ok) # "Ok" \/ ~found
    <2>1. OpenFails(c, f)
        BY <1>2, <1>3, <1>5, Zenon DEF OpenFails
    <2> QED BY <1>4, <2>1
<1>6. CASE Answer(ok) = "Ok" /\ found
    <2>1. PICK p : OpenInode(c, f, p, q)
        <3>1. CASE at
            BY <1>2, <1>3, <1>6, <3>1, Zenon
        <3>2. CASE ~at
            BY <1>2, <1>3, <1>6, <3>2, Zenon
        <3> QED BY <3>1, <3>2
    <2>2. q \in Paths
        BY <1>1, <1>3, <1>6
    <2>3. config.lock /\ Req(c).write => OnOpenWrite(q, ok) /\ OpenAnswer(q, ok) = "Ok"
        BY <1>2, <1>3, <1>6
    <2> HIDE DEF path, at, found, lease, look, renewed, Answer, After
    <2>4. CASE CanOpen(f, p, Req(c).write, Req(c).creat)
        <3>1. OpenSucceeds(c, q, ok, f)
            BY <2>1, <2>2, <2>3, <2>4, Zenon DEF OpenInode, OpenSucceeds, FdResponse
        <3> QED BY <1>4, <3>1
    <2>5. CASE ~CanOpen(f, p, Req(c).write, Req(c).creat)
        <3>1. OpenFails(c, f)
            BY <2>1, <2>5, Zenon DEF OpenInode, OpenFails
        <3> QED BY <1>4, <3>1
    <2> QED BY <2>4, <2>5
<1> HIDE DEF Answer
<1> QED BY <1>5, <1>6, Zenon

LEMMA DiskOpen ==
    ASSUME ServerTypes, RequestsInv, Disk, NEW c \in Clients, ServeOpen(c), UNCHANGED wrote
    PROVE  Disk'
<1>1. PICK b, W : b \in Nat /\ W = Good(b) /\ FilesIn(Files, W) /\ StoreIn(W)
    BY DEF Disk, FilesInv
<1>2. PICK path, ok, f : Hooked(c, path, ok, f) /\ (OpenFails(c, f) \/ OpenSucceeds(c, path, ok, f))
    BY OpenCases
<1>3. UNCHANGED config
    BY <1>2 DEF OpenFails, OpenSucceeds, Reply
<1>4. /\ FilesIn(f, W) /\ Len(f.nodes) >= Len(nodes) /\ StoreIn(W)' /\ LeasesOK'
      /\ \A q \in Paths : leases'[q].refs >= leases[q].refs
    <2>0. Len(nodes) \in Nat /\ \A q \in Paths : leases[q].refs \in Nat
        BY <1>1 DEF FilesIn, Files, Disk, LeasesOK, LeaseRecords
    <2>1. CASE path \in Paths /\ f = OpenFiles(path, ok) /\ OnOpenWrite(path, ok)
        <3>1. FilesIn(f, W) /\ Len(f.nodes) >= Len(nodes)
            BY <1>1, <2>1, OpenFilesIn
        <3> QED BY <1>1, <2>0, <2>1, <3>1, OnOpenWriteKeeps DEF Disk
    <2>2. CASE path \in Paths /\ f = Downloaded(path) /\ UNCHANGED <<leases, queue, store>>
        <3>1. FilesIn(f, W) /\ Len(f.nodes) >= Len(nodes)
            BY <1>1, <2>2, DownloadedIn
        <3> QED BY <1>1, <2>0, <2>2, <3>1 DEF StoreIn, LeasesOK, Disk
    <2>3. CASE f = Files /\ UNCHANGED <<leases, queue, store>>
        BY <1>1, <2>0, <2>3 DEF Files, StoreIn, LeasesOK, Disk
    <2> QED BY <1>2, <2>1, <2>2, <2>3 DEF Hooked
<1>5. CASE OpenFails(c, f)
    <2>1. FilesIn(Files', W) /\ Len(nodes') >= Len(nodes)
        BY <1>4, <1>5 DEF OpenFails, FilesIn, Files
    <2>2. UNCHANGED <<fds, nextFd>>
        BY <1>5 DEF OpenFails
    <2>3. FdsOK'
        <3>1. Len(nodes) \in Nat /\ Len(nodes') \in Nat
            BY <1>1, <2>1 DEF FilesIn, Files
        <3> QED BY <2>1, <2>2, <3>1, FdsGrow DEF Disk
    <2>4. LeaseCoversWriters'
        <3>1. ASSUME NEW p \in Paths PROVE Writers(p, DOMAIN fds)' = Writers(p, DOMAIN fds) /\ Writers(p, DOMAIN fds) \in Nat
            BY <2>2, WritersSame, FdsFinite DEF Disk
        <3>2. ASSUME NEW p \in Paths PROVE leases[p].refs \in Nat /\ leases'[p].refs \in Nat
            BY <1>4 DEF Disk, LeasesOK, LeaseRecords
        <3> QED BY <1>3, <1>4, <3>1, <3>2 DEF LeaseCoversWriters, Disk
    <2> QED BY <1>1, <1>3, <1>4, <2>1, <2>3, <2>4, DiskNext
<1>6. CASE OpenSucceeds(c, path, ok, f)
    <2>1. PICK p, write : write = Req(c).write /\ OpenFile(f, p, path, write, FALSE)
        BY <1>6 DEF OpenSucceeds
    <2>2. write \in BOOLEAN /\ path \in Paths /\ Len(nodes) \in Nat /\ FdsOK
        BY <1>1, <1>6, <2>1, ReqType DEF OpenSucceeds, FilesIn, Files, Disk
    <2>3. /\ FilesIn(Files', W) /\ FdsOK'
          /\ DOMAIN fds' = DOMAIN fds \union {nextFd}
          /\ fds'[nextFd].path = path /\ fds'[nextFd].write = write
          /\ \A x \in DOMAIN fds : fds'[x] = fds[x]
        BY <1>4, <2>1, <2>2, OpenFileIn
    <2>4. LeaseCoversWriters'
        <3> SUFFICES ASSUME config.lock, NEW q \in Paths
                     PROVE  leases'[q].refs >= Writers(q, DOMAIN fds)'
            BY <1>3 DEF LeaseCoversWriters
        <3>1. PICK x : x = nextFd /\ x \notin DOMAIN fds
            BY DEF Disk, FdsOK
        <3>2. /\ Writers(q, DOMAIN fds)' <= Writers(q, DOMAIN fds) + 1
              /\ ~(fds'[x].path = q /\ fds'[x].write) => Writers(q, DOMAIN fds)' = Writers(q, DOMAIN fds)
              /\ Writers(q, DOMAIN fds)' \in Nat /\ Writers(q, DOMAIN fds) \in Nat
            BY <2>2, <2>3, <3>1, WritersOpened
        <3>3. leases[q].refs \in Nat /\ leases'[q].refs \in Nat /\ leases'[q].refs >= leases[q].refs
            BY <1>4 DEF Disk, LeasesOK, LeaseRecords
        <3>4. leases[q].refs >= Writers(q, DOMAIN fds)
            BY DEF Disk, LeaseCoversWriters
        <3>5. CASE path = q /\ write
            <4>1. OnOpenWrite(path, ok) /\ OpenAnswer(path, ok) = "Ok"
                BY <1>6, <2>1, <3>5 DEF OpenSucceeds
            <4>2. leases'[q].refs = leases[q].refs + 1
                BY <1>1, <2>2, <3>5, <4>1, OnOpenWriteKeeps DEF Disk
            <4> QED BY <3>2, <3>3, <3>4, <4>2
        <3>6. CASE ~(path = q /\ write)
            BY <2>3, <3>1, <3>2, <3>3, <3>4, <3>6
        <3> QED BY <3>5, <3>6
    <2> QED BY <1>1, <1>3, <1>4, <2>3, <2>4, DiskNext
<1> QED BY <1>2, <1>5, <1>6
-----------------------------------------------------------------------------
(***************************************************************************)
(* Closes, flushes, and the whole step                                     *)
(***************************************************************************)

LEMMA DiskClosed ==
    ASSUME Disk, NEW closed, closed \subseteq DOMAIN fds, NEW ok, OnClose(closed, ok),
           fds' = Without(fds, closed), UNCHANGED <<config, nodes, tree, nextFd, wrote>>
    PROVE  Disk'
<1>1. PICK b, W : b \in Nat /\ W = Good(b) /\ FilesIn(Files, W) /\ StoreIn(W)
    BY DEF Disk, FilesInv
<1>2. StoreIn(W)' /\ LeasesOK'
    BY <1>1, OnCloseKeeps DEF Disk
<1>3. FdsOK'
    BY FdsClose DEF Disk
<1>4. FilesIn(Files', W)
    BY <1>1 DEF FilesIn, Files
<1>5. LeaseCoversWriters'
    <2> SUFFICES ASSUME config.lock, NEW p \in Paths
                 PROVE  leases'[p].refs >= Writers(p, DOMAIN fds)'
        BY DEF LeaseCoversWriters
    <2>1. leases[p].refs >= Writers(p, DOMAIN fds)
        BY DEF Disk, LeaseCoversWriters
    <2> QED BY <2>1, OnCloseCovers DEF Disk
<1> QED BY <1>1, <1>2, <1>3, <1>4, <1>5, DiskNext

LEMMA DiskCloseFd ==
    ASSUME Disk, NEW fd, NEW ok, CloseFd(fd, ok), UNCHANGED <<config, wrote>>
    PROVE  Disk'
<1>1. PICK closed : closed = {fd} \intersect DOMAIN fds
    OBVIOUS
<1>2. OnClose(closed, ok) /\ fds' = Without(fds, closed) /\ UNCHANGED <<nodes, tree, nextFd>>
    BY <1>1 DEF CloseFd
<1> QED BY <1>1, <1>2, DiskClosed

LEMMA DiskClose ==
    ASSUME ServerTypes, Disk, NEW c \in Clients, ServeClose(c), UNCHANGED wrote
    PROVE  Disk'
<1>1. PICK fd, ok : CloseFd(fd, ok)
    BY DEF ServeClose
<1>2. UNCHANGED config
    BY DEF ServeClose, Reply
<1> QED BY <1>1, <1>2, DiskCloseFd

LEMMA DiskCloseSession ==
    ASSUME Disk, NEW c, CloseSession(c), UNCHANGED wrote
    PROVE  Disk'
<1>1. UNCHANGED config
    BY DEF CloseSession
<1>2. CASE \E fd, ok : CloseFd(fd, ok)
    BY <1>1, <1>2, DiskCloseFd
<1>3. CASE UNCHANGED <<fsVars, syncVars>>
    BY <1>1, <1>3, DiskSame DEF syncVars
<1> QED BY <1>2, <1>3 DEF CloseSession

LEMMA DiskFlush ==
    ASSUME Disk, NEW p \in Paths, NEW ok, FlushOne(p, ok), UNCHANGED <<config, fds, nextFd, wrote>>
    PROVE  Disk'
<1>1. PICK b, W : b \in Nat /\ W = Good(b) /\ FilesIn(Files, W) /\ StoreIn(W)
    BY DEF Disk, FilesInv
<1>2. FilesIn(Files', W) /\ Len(nodes') >= Len(nodes) /\ StoreIn(W)' /\ LeasesOK' /\ SameRefs
    BY <1>1, FlushOneKeeps DEF Disk
<1> QED BY <1>1, <1>2, DiskFiles

\* A client records a write: what was good is good.
LEMMA DiskRecord ==
    ASSUME Disk, ClientTypes, NEW c \in Clients, NEW h, NEW at, Record(c, h, at), UNCHANGED <<config, fsVars, leases, store>>
    PROVE  Disk'
<1>1. PICK b, W : b \in Nat /\ W = Good(b) /\ FilesIn(Files, W) /\ StoreIn(W)
    BY DEF Disk, FilesInv
<1>2. ASSUME NEW e \in Clients, NEW n \in 1 .. Len(wrote[e])
      PROVE  n \in 1 .. Len(wrote'[e]) /\ wrote'[e][n] = wrote[e][n]
    <2>1. wrote[e] \in Seq(WriteRecords)
        BY DEF ClientTypes
    <2>2. wrote'[e] = wrote[e] \/ wrote'[e] = Append(wrote[e], [h |-> h, at |-> at])
        BY DEF Record, ClientTypes
    <2> QED BY <2>1, <2>2
<1>3. W \subseteq Good(b)'
    BY <1>1, <1>2 DEF Good, Adapters
<1>4. FilesIn(Files', W) /\ StoreIn(W)'
    BY <1>1 DEF FilesIn, Files, StoreIn, fsVars
<1>5. FilesInv'
    BY <1>1, <1>3, <1>4, FilesKept
<1>6. FdsOK' /\ LeasesOK' /\ LeaseCoversWriters'
    BY DEF Disk, FdsOK, LeasesOK, LeaseCoversWriters, Writers, fsVars
<1> QED BY <1>5, <1>6 DEF Disk

\* Every step of the system keeps the files in order.
LEMMA DiskStep ==
    ASSUME ServerTypes, ClientTypes, RequestsInv, Disk, Next
    PROVE  Disk'
<1>1. ASSUME NEW c \in Clients, Serve(c), UNCHANGED adapterVars PROVE Disk'
    <2>0. UNCHANGED wrote
        BY <1>1 DEF adapterVars
    <2>1. CASE ServeConnect(c)
        <3>1. UNCHANGED <<config, fsVars, leases, store>>
            BY <2>1 DEF ServeConnect, Reply, syncVars
        <3> QED BY <2>0, <3>1, DiskSame
    <2>2. CASE ServeQuery(c)
        <3>1. UNCHANGED <<config, fsVars, leases, store>>
            BY <2>2 DEF ServeQuery, Reply, syncVars
        <3> QED BY <2>0, <3>1, DiskSame
    <2> QED BY <1>1, <2>0, <2>1, <2>2, DiskOpen, DiskRead, DiskWrite, DiskClose, DiskFsync, DiskSeek, DiskMkdir,
              DiskRemove, DiskRename DEF Serve
<1>2. ASSUME NEW c \in Clients, ServerStep(c), UNCHANGED adapterVars PROVE Disk'
    <2>0. UNCHANGED wrote
        BY <1>2 DEF adapterVars
    <2>1. CASE Accept(c) \/ Disconnected(c) \/ Leave(c)
        <3>1. UNCHANGED <<config, fsVars, leases, store>>
            BY <2>1 DEF Accept, Disconnected, Leave, syncVars
        <3> QED BY <2>0, <3>1, DiskSame
    <2>2. CASE CloseSession(c)
        BY <2>0, <2>2, DiskCloseSession
    <2>3. CASE ForceFlush(c)
        <3>1. PICK p, ok : p \in Paths /\ FlushOne(p, ok)
            BY <2>3 DEF ForceFlush
        <3>2. UNCHANGED <<config, fds, nextFd>>
            BY <2>3 DEF ForceFlush
        <3> QED BY <2>0, <3>1, <3>2, DiskFlush
    <2> QED BY <1>1, <1>2, <2>1, <2>2, <2>3 DEF ServerStep
<1>3. ASSUME Environment, UNCHANGED adapterVars PROVE Disk'
    <2>0. UNCHANGED wrote
        BY <1>3 DEF adapterVars
    <2>1. CASE Tick
        <3>1. PICK p, ok : p \in Paths /\ FlushOne(p, ok)
            BY <2>1 DEF Tick
        <3>2. UNCHANGED <<config, fds, nextFd>>
            BY <2>1 DEF Tick
        <3> QED BY <2>0, <3>1, <3>2, DiskFlush
    <2>2. CASE \E p \in ForeignPaths : ForeignRelease(p)
        <3>1. UNCHANGED <<config, fsVars, leases, store>>
            BY <2>2 DEF ForeignRelease, syncVars
        <3> QED BY <2>0, <3>1, DiskSame
    <2>3. CASE \E c \in Clients : Break(c)
        <3>1. UNCHANGED <<config, fsVars, leases, store>>
            BY <2>3 DEF Break, syncVars
        <3> QED BY <2>0, <3>1, DiskSame
    <2> QED BY <1>3, <2>1, <2>2, <2>3 DEF Environment
<1>4. ASSUME NEW c \in Clients, WriteCall(c) \/ WriteStream(c) \/ DirectCall(c) PROVE Disk'
    <2>1. UNCHANGED <<config, fsVars, leases, store>>
        BY <1>4 DEF WriteCall, WriteStream, DirectCall, serverVars, syncVars
    <2>2. UNCHANGED wrote \/ \E h, at : Record(c, h, at)
        BY <1>4 DEF WriteCall, WriteStream, DirectCall
    <2> QED BY <2>1, <2>2, DiskRecord, DiskSame
<1>5. ASSUME NEW c \in Clients,
             \/ OpenAt(c) \/ PathCall(c) \/ ReadCall(c) \/ OpenStream(c) \/ FsyncCall(c) \/ DropStream(c)
             \/ DropDescriptor(c) \/ ClientStep(c)
      PROVE  Disk'
    <2>1. UNCHANGED <<config, fsVars, leases, store, wrote>>
        BY <1>5 DEF OpenAt, PathCall, ReadCall, OpenStream, FsyncCall, DropStream, DropDescriptor,
                    ClientStep, Connect, Connected, Send, Receive, IoError, FsyncNext, StreamClosed, serverVars,
                    syncVars, adapterVars
    <2> QED BY <2>1, DiskSame
<1> QED BY <1>2, <1>3, <1>4, <1>5, ServerAssumption DEF Next, AppCall, Adapters
-----------------------------------------------------------------------------
(***************************************************************************)
(* What a request does to the descriptors and the sessions: one of four    *)
(* things.                                                                 *)
(***************************************************************************)

NewSession == Max({0} \union {sessions[d] : d \in Clients} \union DOMAIN sessionFds) + 1
Connects(c, resp) ==
    /\ Req(c).kind = "Connect" /\ UNCHANGED <<fds, nextFd, sessionFds>>
    /\ \/ /\ sessions' = [sessions EXCEPT ![c] = NewSession]
          /\ strays' = strays \union OpenedIn(sessions[c])
          /\ resp.kind = "Connected" /\ resp.version = Req(c).version /\ resp.version > 0
       \/ UNCHANGED <<sessions, strays>> /\ resp.kind = "ProtocolError"
Opened(c, resp) ==
    /\ Req(c).kind \in {"OpenPath", "OpenAt"} /\ UNCHANGED sessions
    /\ resp.kind = "Fd" /\ resp.fd = nextFd
    /\ RegisterFd(c, nextFd) /\ nextFd' = nextFd + 1
    /\ DOMAIN fds' = DOMAIN fds \union {nextFd} /\ \A x \in DOMAIN fds : fds'[x] = fds[x]
Closes(c, resp) ==
    /\ Req(c).kind = "Close" /\ UNCHANGED <<nextFd, sessions, strays>>
    /\ resp.kind \in {"Ok", "Error"}
    /\ DOMAIN fds' = DOMAIN fds \ {Req(c).fd} /\ \A x \in DOMAIN fds' : fds'[x] = fds[x]
    /\ sessionFds' = [s \in DOMAIN sessionFds |-> sessionFds[s] \ {Req(c).fd}]
Moves(c, resp) ==
    /\ Req(c).kind \notin {"none", "Connect", "Close"} /\ UNCHANGED <<nextFd, sessions, sessionFds, strays>>
    /\ resp.kind \in {"Ok", "Error", "Busy"}
    /\ SameWriters
    /\ \A x \in DOMAIN fds : x # Req(c).fd => fds'[x] = fds[x]
    /\ fds' # fds => Req(c).kind \in {"Read", "Write", "AppendWrite", "Seek"}
    /\ Req(c).kind = "Seek" /\ Req(c).fd \in DOMAIN fds => fds'[Req(c).fd].pos = Req(c).at
Effect(c, resp) == Connects(c, resp) \/ Opened(c, resp) \/ Closes(c, resp) \/ Moves(c, resp)

\* Requests that leave descriptors and sessions alone.
LEMMA NothingMoves ==
    ASSUME NEW c, NEW resp, UNCHANGED <<fds, nextFd, sessions, sessionFds, strays>>, Reply(c, resp), resp.kind \in {"Ok", "Error", "Busy"},
           Req(c).kind \notin {"none", "Connect", "Close", "Seek"}
    PROVE  Effect(c, resp) /\ Reply(c, resp)
BY DEF Effect, Moves, SameWriters

LEMMA ResponseIs ==
    /\ Ok \in Responses /\ Error \in Responses /\ Busy \in Responses
    /\ Ok.kind = "Ok" /\ Error.kind = "Error" /\ Busy.kind = "Busy"
    /\ NoResponse \in Responses /\ NoResponse.kind = "none" /\ NoRequest \in Requests /\ NoRequest.kind = "none"
    /\ NoRequest.fd = 0
BY DEF Ok, Error, Busy, NoResponse, NoRequest, Response, Request, Responses, Requests, RequestKinds, ResponseKinds

LEMMA FdResponseIs ==
    ASSUME NEW fd \in Nat
    PROVE  FdResponse(fd) \in Responses /\ FdResponse(fd).kind = "Fd" /\ FdResponse(fd).fd = fd
BY DEF FdResponse, Response, Responses, ResponseKinds

\* close_fd
FdClosed(fd) ==
    /\ UNCHANGED <<nextFd, strays>>
    /\ DOMAIN fds' = DOMAIN fds \ {fd} /\ \A x \in DOMAIN fds' : fds'[x] = fds[x]
    /\ sessionFds' = [s \in DOMAIN sessionFds |-> sessionFds[s] \ {fd}]
LEMMA CloseFdIs ==
    ASSUME NEW fd, NEW ok, CloseFd(fd, ok)
    PROVE  FdClosed(fd)
<1>1. fds' = Without(fds, {fd} \intersect DOMAIN fds)
    BY DEF CloseFd
<1>2. DOMAIN fds' = DOMAIN fds \ {fd} /\ \A x \in DOMAIN fds' : fds'[x] = fds[x]
    BY <1>1 DEF Without
<1> QED BY <1>2 DEF CloseFd, FdClosed

\* A position that moves, and nothing else.
LEMMA MovedSame ==
    ASSUME FdsOK, NEW fd, fd \in DOMAIN fds, NEW n, Moved(fd, n)
    PROVE  SameWriters /\ \A x \in DOMAIN fds : x # fd => fds'[x] = fds[x]
<1> DEFINE r == [fds[fd] EXCEPT !.pos = n]
<1>1. fds[fd] \in FdRecords(Len(nodes))
    BY DEF FdsOK
<1>2. r.path = fds[fd].path /\ r.write = fds[fd].write
    BY <1>1 DEF FdRecords
<1>3. fds' = [fds EXCEPT ![fd] = r]
    BY DEF Moved
<1> HIDE DEF r
<1> QED BY <1>2, <1>3 DEF SameWriters

LEMMA ServeCases ==
    ASSUME ServerTypes, Disk, RequestsInv, NEW c \in Clients, Serve(c)
    PROVE  /\ mode = "poll" /\ c \in accepted
           /\ \E resp \in Responses : Effect(c, resp) /\ Reply(c, resp)
<1>0. mode = "poll" /\ c \in accepted
    BY DEF Serve, ServeConnect, ServeOpen, ServeRead, ServeWrite, ServeClose, ServeFsync, ServeSeek, ServeQuery,
           ServeMkdir, ServeRemove, ServeRename, Serves
<1> SUFFICES \E resp \in Responses : Effect(c, resp) /\ Reply(c, resp)
    BY <1>0
<1>1. CASE ServeConnect(c)
    <2>0. Req(c).kind = "Connect" /\ UNCHANGED <<fds, nextFd, sessionFds>>
        BY <1>1 DEF ServeConnect, Serves, Req, fsVars
    <2>1. CASE Negotiated(Req(c).version)
        <3> DEFINE r == [Response("Connected") EXCEPT !.version = Req(c).version]
        <3>1. /\ Reply(c, r) /\ sessions' = [sessions EXCEPT ![c] = NewSession]
              /\ strays' = strays \union OpenedIn(sessions[c])
            BY <1>1, <2>1, Zenon DEF ServeConnect, NewSession
        <3>2. Req(c).version \in Nat /\ Req(c).version > 0
            <4>1. config.version \in Nat
                BY ServerAssumption DEF ServerTypes
            <4> QED BY <2>1, <4>1 DEF Negotiated
        <3>3. r \in Responses /\ r.kind = "Connected" /\ r.version = Req(c).version
            BY <3>2 DEF Response, Responses, ResponseKinds
        <3> HIDE DEF r
        <3> QED BY <2>0, <3>1, <3>2, <3>3 DEF Effect, Connects
    <2>2. CASE ~Negotiated(Req(c).version)
        <3> DEFINE r == Response("ProtocolError")
        <3>1. Reply(c, r) /\ UNCHANGED <<sessions, strays>>
            BY <1>1, <2>2, Zenon DEF ServeConnect
        <3>2. r \in Responses /\ r.kind = "ProtocolError"
            BY DEF Response, Responses, ResponseKinds
        <3> HIDE DEF r
        <3> QED BY <2>0, <3>1, <3>2 DEF Effect, Connects
    <2> QED BY <2>1, <2>2
<1>2. CASE ServeOpen(c)
    <2>0. Req(c).kind \in {"OpenPath", "OpenAt"} /\ UNCHANGED sessions
        BY <1>2 DEF ServeOpen, Serves, Req
    <2>1. PICK path, ok, f : Hooked(c, path, ok, f) /\ (OpenFails(c, f) \/ OpenSucceeds(c, path, ok, f))
        BY <1>2, OpenCases
    <2>2. CASE OpenFails(c, f)
        <3>1. PICK resp \in {Busy, Error} : Reply(c, resp)
            BY <2>2 DEF OpenFails
        <3>2. UNCHANGED <<fds, nextFd, sessions, sessionFds, strays>>
            BY <2>0, <2>2 DEF OpenFails
        <3> QED BY <2>0, <3>1, <3>2, NothingMoves, ResponseIs
    <2>3. CASE OpenSucceeds(c, path, ok, f)
        <3>1. PICK p : OpenFile(f, p, path, Req(c).write, FALSE)
            BY <2>3 DEF OpenSucceeds
        <3>2. nextFd' = nextFd + 1 /\ DOMAIN fds' = DOMAIN fds \union {nextFd}
            BY <3>1 DEF OpenFile, With
        <3>3. nextFd \notin DOMAIN fds /\ nextFd \in Nat
            BY DEF Disk, FdsOK
        <3>4. \A x \in DOMAIN fds : fds'[x] = fds[x]
            BY <3>1, <3>3 DEF OpenFile, With
        <3>5. RegisterFd(c, nextFd) /\ Reply(c, FdResponse(nextFd))
            BY <2>3 DEF OpenSucceeds
        <3>6. PICK r : r = FdResponse(nextFd) /\ r \in Responses /\ r.kind = "Fd" /\ r.fd = nextFd
            BY <3>3, FdResponseIs
        <3> QED BY <2>0, <3>2, <3>4, <3>5, <3>6, SMTT(30) DEF Effect, Opened
    <2> QED BY <2>1, <2>2, <2>3
<1>3. CASE ServeRead(c)
    <2>1. UNCHANGED <<nextFd, sessions, sessionFds, strays>> /\ Req(c).kind = "Read"
        BY <1>3 DEF ServeRead, Serves, Req
    <2>2. PICK resp \in {Ok, Error} : Reply(c, resp)
        BY <1>3 DEF ServeRead
    <2>3. CASE UNCHANGED fds
        BY <2>1, <2>2, <2>3, NothingMoves, ResponseIs
    <2>4. CASE ~UNCHANGED fds
        <3>1. PICK fd, n : fd = Req(c).fd /\ fd \in DOMAIN fds /\ Moved(fd, n)
            BY <1>3, <2>4, ReadIs DEF ReadMoves
        <3>2. SameWriters /\ \A x \in DOMAIN fds : x # fd => fds'[x] = fds[x]
            BY <3>1, MovedSame DEF Disk
        <3>3. Moves(c, resp)
            BY <2>1, <2>2, <3>1, <3>2, ResponseIs DEF Moves
        <3> QED BY <2>2, <3>3, ResponseIs DEF Effect
    <2> QED BY <2>3, <2>4
<1>4. CASE ServeWrite(c)
    <2>1. UNCHANGED <<nextFd, sessions, sessionFds, strays>> /\ Req(c).kind \in {"Write", "AppendWrite", "Ftruncate"}
        BY <1>4 DEF ServeWrite, Serves, Req, tableVars
    <2>2. CASE Req(c).fd \in DOMAIN fds /\ fds[Req(c).fd].write
        <3>1. PICK fd, at : /\ fd = Req(c).fd
                            /\ at = IF Req(c).kind = "AppendWrite" THEN Size(fds[fd].inode) ELSE fds[fd].pos
            OBVIOUS
        <3>2. fds' = IF Req(c).kind = "Ftruncate" THEN fds ELSE [fds EXCEPT ![fd].pos = at + Len(Req(c).data)]
            BY <1>4, <2>2, <3>1, Zenon DEF ServeWrite
        <3>3. Reply(c, Ok)
            BY <1>4, <2>2 DEF ServeWrite
        <3>4. fd \in DOMAIN fds /\ fds[fd] \in FdRecords(Len(nodes))
            BY <2>2, <3>1 DEF Disk, FdsOK
        <3>5. CASE fds' = fds
            BY <2>1, <3>3, <3>5, NothingMoves, ResponseIs
        <3>6. CASE Req(c).kind # "Ftruncate"
            <4>1. PICK n : n = at + Len(Req(c).data)
                OBVIOUS
            <4> DEFINE r == [fds[fd] EXCEPT !.pos = n]
            <4>2. r.path = fds[fd].path /\ r.write = fds[fd].write
                BY <3>4 DEF FdRecords
            <4>3. fds' = [fds EXCEPT ![fd] = r]
                BY <3>2, <3>6, <4>1
            <4> HIDE DEF r
            <4>4. SameWriters /\ \A x \in DOMAIN fds : x # fd => fds'[x] = fds[x]
                BY <3>4, <4>2, <4>3 DEF SameWriters
            <4>5. Moves(c, Ok)
                BY <2>1, <3>1, <3>6, <4>4, ResponseIs DEF Moves
            <4> QED BY <3>3, <4>5, ResponseIs DEF Effect
        <3> QED BY <3>2, <3>5, <3>6
    <2>3. CASE ~(Req(c).fd \in DOMAIN fds /\ fds[Req(c).fd].write)
        <3>1. UNCHANGED fds /\ Reply(c, Error)
            BY <1>4, <2>3 DEF ServeWrite
        <3> QED BY <2>1, <3>1, NothingMoves, ResponseIs
    <2> QED BY <2>2, <2>3
<1>5. CASE ServeClose(c)
    <2>1. UNCHANGED sessions /\ Req(c).kind = "Close" /\ \E ok : CloseFd(Req(c).fd, ok)
        BY <1>5 DEF ServeClose, Serves, Req
    <2>2. Reply(c, Ok) \/ Reply(c, Error)
        BY <1>5 DEF ServeClose
    <2>3. FdClosed(Req(c).fd)
        BY <2>1, CloseFdIs
    <2> QED BY <2>1, <2>2, <2>3, ResponseIs DEF Effect, Closes, FdClosed
<1>6. CASE ServeFsync(c)
    <2>1. UNCHANGED <<fds, nextFd, sessions, sessionFds, strays>> /\ Req(c).kind = "Fsync"
        BY <1>6 DEF ServeFsync, Serves, Req, fsVars, tableVars
    <2>2. Reply(c, Ok) \/ Reply(c, Error)
        BY <1>6 DEF ServeFsync
    <2> QED BY <2>1, <2>2, NothingMoves, ResponseIs
<1>7. CASE ServeSeek(c)
    <2>1. UNCHANGED <<nextFd, sessions, sessionFds, strays>> /\ Req(c).kind = "Seek"
        BY <1>7 DEF ServeSeek, Serves, Req, tableVars
    <2>2. CASE Req(c).fd \in DOMAIN fds
        <3>1. PICK fd, n : fd = Req(c).fd /\ n = Req(c).at /\ Moved(fd, n) /\ Reply(c, Ok)
            BY <1>7, <2>2 DEF ServeSeek, Moved
        <3>2. fd \in DOMAIN fds /\ fds[fd] \in FdRecords(Len(nodes))
            BY <2>2, <3>1 DEF Disk, FdsOK
        <3> DEFINE r == [fds[fd] EXCEPT !.pos = n]
        <3>3. r.path = fds[fd].path /\ r.write = fds[fd].write /\ r.pos = n
            BY <3>2 DEF FdRecords
        <3>4. fds' = [fds EXCEPT ![fd] = r]
            BY <3>1 DEF Moved
        <3> HIDE DEF r
        <3>5. SameWriters /\ fds'[fd].pos = n /\ \A x \in DOMAIN fds : x # fd => fds'[x] = fds[x]
            BY <3>2, <3>3, <3>4 DEF SameWriters
        <3>6. Moves(c, Ok)
            BY <2>1, <3>1, <3>5, ResponseIs DEF Moves
        <3> QED BY <3>1, <3>6, ResponseIs DEF Effect
    <2>3. CASE Req(c).fd \notin DOMAIN fds
        <3>1. UNCHANGED fds /\ Reply(c, Error)
            BY <1>7, <2>3 DEF ServeSeek
        <3>2. Moves(c, Error)
            BY <2>1, <2>3, <3>1, ResponseIs DEF Moves, SameWriters
        <3> QED BY <3>1, <3>2, ResponseIs DEF Effect
    <2> QED BY <2>2, <2>3
<1>8. CASE ServeQuery(c)
    <2>1. /\ UNCHANGED <<fds, nextFd, sessions, sessionFds, strays>>
          /\ Req(c).kind \in {"Fstat", "ReaddirFd", "Stat", "Readdir", "Undecodable"}
        BY <1>8 DEF ServeQuery, Serves, Req, fsVars, tableVars
    <2>2. Reply(c, Ok) \/ Reply(c, Error)
        BY <1>8, <2>1 DEF ServeQuery
    <2> QED BY <2>1, <2>2, NothingMoves, ResponseIs
<1>9. CASE ServeMkdir(c)
    <2>1. UNCHANGED <<fds, nextFd, sessions, sessionFds, strays>> /\ Req(c).kind \in {"Mkdir", "MkdirP"}
        BY <1>9 DEF ServeMkdir, Serves, Req, tableVars
    <2>2. Reply(c, Ok) \/ Reply(c, Error)
        BY <1>9 DEF ServeMkdir
    <2> QED BY <2>1, <2>2, NothingMoves, ResponseIs
<1>10. CASE ServeRemove(c)
    <2>1. UNCHANGED <<fds, nextFd, sessions, sessionFds, strays>> /\ Req(c).kind \in {"Unlink", "Rmdir"}
        BY <1>10 DEF ServeRemove, Serves, Req, tableVars
    <2>2. Reply(c, Ok) \/ Reply(c, Error)
        BY <1>10 DEF ServeRemove
    <2> QED BY <2>1, <2>2, NothingMoves, ResponseIs
<1>11. CASE ServeRename(c)
    <2>1. UNCHANGED <<fds, nextFd, sessions, sessionFds, strays>> /\ Req(c).kind = "Rename"
        BY <1>11 DEF ServeRename, Serves, Req, tableVars
    <2>2. Reply(c, Ok) \/ Reply(c, Error)
        BY <1>11 DEF ServeRename
    <2> QED BY <2>1, <2>2, NothingMoves, ResponseIs
<1> QED BY <1>1, <1>2, <1>3, <1>4, <1>5, <1>6, <1>7, <1>8, <1>9, <1>10, <1>11, Zenon DEF Serve
\* write_message
LEMMA Replied ==
    ASSUME ServerTypes, NEW c \in Clients, NEW resp \in Responses, Reply(c, resp)
    PROVE  /\ conn' \in [Clients -> Connections]
           /\ conn'[c].state = conn[c].state /\ conn'[c].req = NoRequest
           /\ conn'[c].resp = IF Up(c) THEN resp ELSE NoResponse
           /\ \A e \in Clients : e # c => conn'[e] = conn[e]
           /\ UNCHANGED <<config, accepted>>
           /\ \/ Up(c) /\ UNCHANGED <<mode, dropping>>
              \/ conn[c].state = "down" /\ mode' = "drop" /\ dropping' = c
              \/ conn[c].state = "down" /\ mode' = "stalled"
<1>1. conn[c] \in Connections
    BY ReqType
<1>2. PICK r : r = IF Up(c) THEN resp ELSE NoResponse
    OBVIOUS
<1>3. r \in Responses
    BY <1>2, ResponseIs
<1> DEFINE k == [[conn[c] EXCEPT !.req = NoRequest] EXCEPT !.resp = r]
<1>4. k \in Connections /\ k.state = conn[c].state /\ k.req = NoRequest /\ k.resp = r
    BY <1>1, <1>3, ResponseIs DEF Connections
<1>5. conn' = [conn EXCEPT ![c] = k]
    BY <1>1, <1>2 DEF Reply, Up, ServerTypes, Connections
<1> HIDE DEF k
<1>6. conn' \in [Clients -> Connections] /\ conn'[c] = k /\ \A e \in Clients : e # c => conn'[e] = conn[e]
    BY <1>4, <1>5 DEF ServerTypes
<1>7. /\ UNCHANGED <<config, accepted>>
      /\ \/ Up(c) /\ UNCHANGED <<mode, dropping>>
         \/ conn[c].state = "down" /\ mode' = "drop" /\ dropping' = c
         \/ conn[c].state = "down" /\ mode' = "stalled"
    BY DEF Reply, Up
<1> QED BY <1>2, <1>4, <1>6, <1>7
-----------------------------------------------------------------------------
(***************************************************************************)
(* The sessions                                                            *)
(***************************************************************************)

LEMMA SessionsSame ==
    ASSUME SessionsInv, UNCHANGED <<sessions, sessionFds, strays, accepted, nextFd>>, DOMAIN fds' = DOMAIN fds
    PROVE  SessionsInv'
BY DEF SessionsInv, HaveSession, OpenedIn

\* The new session's number is above all there are.
LEMMA NewSessionIsNew ==
    ASSUME ServerTypes, NEW n \in Nat, \A c \in Clients : sessions[c] <= n, DOMAIN sessionFds \subseteq 1 .. n
    PROVE  /\ NewSession \in Nat /\ NewSession > 0 /\ NewSession <= n + 1
           /\ \A c \in Clients : sessions[c] < NewSession
           /\ \A s \in DOMAIN sessionFds : s < NewSession
<1>1. PICK S : S = {0} \union {sessions[d] : d \in Clients} \union DOMAIN sessionFds
    OBVIOUS
<1>2. \A c \in Clients : sessions[c] \in Nat
    BY DEF ServerTypes
<1>3. S \in SUBSET Nat /\ S # {} /\ \A x \in S : x <= n
    BY <1>1, <1>2
<1>4. Max(S) \in S /\ \A x \in S : x <= Max(S)
    BY <1>3, MaxOfBounded
<1>5. Max(S) \in Nat /\ Max(S) <= n /\ NewSession = Max(S) + 1
    BY <1>1, <1>3, <1>4 DEF NewSession
<1>6. ASSUME NEW x \in S PROVE x < NewSession
    BY <1>3, <1>4, <1>5
<1>7. (\A c \in Clients : sessions[c] \in S) /\ \A s \in DOMAIN sessionFds : s \in S
    BY <1>1
<1> HIDE DEF NewSession
<1>8. NewSession \in Nat /\ NewSession > 0 /\ NewSession <= n + 1
    BY <1>5
<1> QED BY <1>6, <1>7, <1>8

LEMMA SessionsServe ==
    ASSUME ServerTypes, ServerTypes', ClientTypes, FdsOK, LoopInv, SessionsInv, NEW c \in Clients, c \in accepted,
           NEW resp \in Responses, Effect(c, resp), Reply(c, resp)
    PROVE  SessionsInv'
<1>0. UNCHANGED accepted
    BY DEF Reply
<1>1. PICK n \in Nat : (\A e \in Clients : sessions[e] <= n) /\ DOMAIN sessionFds \subseteq 1 .. n
    BY DEF SessionsInv
<1>2. Shaken(c) /\ \A e \in Clients : sessions[e] \in Nat /\ link[e] \in Nat
    BY DEF LoopInv, ServerTypes, ClientTypes
<1>3. CASE Connects(c, resp) /\ sessions' = [sessions EXCEPT ![c] = NewSession] /\ strays' = strays \union OpenedIn(sessions[c])
    <2>1. PICK s : s = NewSession
        OBVIOUS
    <2>2. /\ s \in Nat /\ s > 0 /\ s <= n + 1 /\ sessions' = [sessions EXCEPT ![c] = s]
          /\ \A e \in Clients : sessions[e] < s
          /\ UNCHANGED <<fds, nextFd, sessionFds>>
        BY <1>1, <1>3, <2>1, NewSessionIsNew DEF Connects
    <2>4. \A e \in Clients : sessions'[e] = IF e = c THEN s ELSE sessions[e]
        BY <2>2 DEF ServerTypes
    <2>5. (\A e \in Clients : sessions'[e] <= n + 1) /\ DOMAIN sessionFds' \subseteq 1 .. n + 1
        BY <1>1, <1>2, <2>2, <2>4
    <2>6. \A e, d \in Clients : sessions'[e] = sessions'[d] /\ sessions'[e] > 0 => e = d
        <3>1. \A e, d \in Clients : sessions[e] = sessions[d] /\ sessions[e] > 0 => e = d
            BY DEF SessionsInv
        <3> QED BY <1>2, <2>2, <2>4, <3>1
    <2>7. HaveSession'
        <3> SUFFICES ASSUME NEW fd \in DOMAIN fds \ strays'
                     PROVE  \E e \in accepted : fd \in OpenedIn(sessions[e])'
            BY <1>0, <2>2 DEF HaveSession
        <3>1. PICK e \in accepted : fd \in OpenedIn(sessions[e])
            BY <1>3 DEF SessionsInv, HaveSession
        <3>2. e # c /\ e \in Clients
            BY <1>3, <3>1 DEF ServerTypes
        <3> QED BY <2>2, <2>4, <3>1, <3>2 DEF OpenedIn
    <2>8. strays' \subseteq 3 .. nextFd' - 1
        BY <1>3, <2>2 DEF SessionsInv, OpenedIn
    <2> QED BY <1>1, <2>2, <2>5, <2>6, <2>7, <2>8 DEF SessionsInv
<1>4. CASE Connects(c, resp) /\ UNCHANGED <<sessions, strays>>
    BY <1>0, <1>4, SessionsSame DEF Connects
<1>5. CASE Moves(c, resp)
    BY <1>0, <1>5, SessionsSame DEF Moves, SameWriters
<1>6. CASE Opened(c, resp) /\ sessions[c] > 0
    <2>2. PICK s, F : s = sessions[c] /\ s \in 1 .. n /\ F = OpenedIn(s) \union {nextFd}
        <3>1. sessions[c] \in 1 .. n
            BY <1>1, <1>2, <1>6
        <3> QED BY <3>1
    <2>3. sessionFds' = With(sessionFds, s, F) /\ UNCHANGED strays
        BY <1>2, <1>6, <2>2 DEF Opened, RegisterFd
    <2>4. /\ DOMAIN sessionFds' = DOMAIN sessionFds \union {s}
          /\ \A r \in DOMAIN sessionFds' : sessionFds'[r] = IF r = s THEN F ELSE sessionFds[r]
        BY <2>3 DEF With
    <2>5. /\ nextFd' = nextFd + 1 /\ UNCHANGED sessions /\ DOMAIN fds' = DOMAIN fds \union {nextFd}
          /\ nextFd \in Nat /\ nextFd >= 3
        BY <1>6 DEF Opened, FdsOK
    <2>6. /\ \A r \in DOMAIN sessionFds : sessionFds[r] \subseteq 3 .. nextFd - 1
          /\ \A r, q \in DOMAIN sessionFds : r # q => sessionFds[r] \intersect sessionFds[q] = {}
          /\ strays \subseteq 3 .. nextFd - 1
        BY DEF SessionsInv
    <2>7. DOMAIN sessionFds' \subseteq 1 .. n
        BY <1>1, <2>2, <2>4
    <2>0. 3 .. nextFd - 1 \subseteq 3 .. nextFd' - 1 /\ nextFd \in 3 .. nextFd' - 1
        BY <2>5
    <2>8. \A r \in DOMAIN sessionFds' : sessionFds'[r] \subseteq 3 .. nextFd' - 1
        <3> TAKE r \in DOMAIN sessionFds'
        <3> QED BY <2>0, <2>2, <2>4, <2>6 DEF OpenedIn
    <2>9. \A r, q \in DOMAIN sessionFds' : r # q => sessionFds'[r] \intersect sessionFds'[q] = {}
        <3>1. \A r \in DOMAIN sessionFds : nextFd \notin sessionFds[r]
            BY <2>5, <2>6
        <3> QED BY <2>2, <2>4, <2>6, <3>1 DEF OpenedIn
    <2>10. HaveSession'
        <3> SUFFICES ASSUME NEW fd \in DOMAIN fds', fd \notin strays
                     PROVE  \E e \in accepted : fd \in OpenedIn(sessions[e])'
            BY <1>0, <2>3 DEF HaveSession
        <3>1. CASE fd = nextFd
            BY <2>2, <2>4, <2>5, <3>1 DEF OpenedIn
        <3>2. CASE fd \in DOMAIN fds
            <4>1. PICK e \in accepted : fd \in OpenedIn(sessions[e])
                BY <3>2 DEF SessionsInv, HaveSession
            <4> QED BY <2>2, <2>4, <2>5, <4>1 DEF OpenedIn
        <3> QED BY <2>5, <3>1, <3>2
    <2>11. strays' \subseteq 3 .. nextFd' - 1
        BY <2>0, <2>3, <2>6
    <2> QED BY <1>1, <2>5, <2>7, <2>8, <2>9, <2>10, <2>11 DEF SessionsInv
<1>8. CASE Opened(c, resp) /\ sessions[c] = 0
    <2>1. /\ strays' = strays \union {nextFd} /\ UNCHANGED <<sessions, sessionFds>> /\ nextFd' = nextFd + 1
          /\ DOMAIN fds' = DOMAIN fds \union {nextFd} /\ nextFd \in Nat /\ nextFd >= 3
        BY <1>8 DEF Opened, RegisterFd, FdsOK
    <2>2. 3 .. nextFd - 1 \subseteq 3 .. nextFd' - 1 /\ nextFd \in 3 .. nextFd' - 1
        BY <2>1
    <2>3. strays' \subseteq 3 .. nextFd' - 1 /\ \A r \in DOMAIN sessionFds' : sessionFds'[r] \subseteq 3 .. nextFd' - 1
        BY <2>1, <2>2 DEF SessionsInv
    <2>4. HaveSession'
        BY <1>0, <2>1 DEF SessionsInv, HaveSession, OpenedIn
    <2> QED BY <2>1, <2>3, <2>4 DEF SessionsInv
<1>7. CASE Closes(c, resp)
    <2>1. /\ DOMAIN sessionFds' = DOMAIN sessionFds
          /\ \A r \in DOMAIN sessionFds : sessionFds'[r] = sessionFds[r] \ {Req(c).fd}
          /\ UNCHANGED <<nextFd, sessions>> /\ DOMAIN fds' = DOMAIN fds \ {Req(c).fd}
        BY <1>7 DEF Closes
    <2>2. HaveSession'
        <3>1. ASSUME NEW fd \in DOMAIN fds', NEW e \in accepted, fd \in OpenedIn(sessions[e])
              PROVE  fd \in OpenedIn(sessions[e])'
            BY <2>1, <3>1 DEF OpenedIn
        <3> QED BY <1>0, <1>7, <2>1, <3>1 DEF SessionsInv, HaveSession, Closes
    <2>3. /\ \A r \in DOMAIN sessionFds' : sessionFds'[r] \subseteq 3 .. nextFd' - 1
          /\ \A r, q \in DOMAIN sessionFds' : r # q => sessionFds'[r] \intersect sessionFds'[q] = {}
          /\ strays' \subseteq 3 .. nextFd' - 1
        BY <1>7, <2>1 DEF SessionsInv, Closes
    <2> QED BY <1>1, <2>1, <2>2, <2>3 DEF SessionsInv
<1> QED BY <1>2, <1>3, <1>4, <1>5, <1>6, <1>7, <1>8 DEF Effect, Connects
-----------------------------------------------------------------------------
(***************************************************************************)
(* The connections                                                         *)
(***************************************************************************)

\* The connection of c changes, and no other one.
ConnNow(c, state, req, resp) ==
    /\ conn' \in [Clients -> Connections]
    /\ conn'[c].state = state /\ conn'[c].req = req /\ conn'[c].resp = resp
    /\ \A e \in Clients : e # c => conn'[e] = conn[e]

LEMMA ConnSet ==
    ASSUME ServerTypes, NEW c \in Clients, NEW k \in Connections, conn' = [conn EXCEPT ![c] = k]
    PROVE  ConnNow(c, k.state, k.req, k.resp)
BY DEF ServerTypes, ConnNow

LEMMA RepliedNow ==
    ASSUME ServerTypes, NEW c \in Clients, NEW resp \in Responses, Reply(c, resp)
    PROVE  ConnNow(c, conn[c].state, NoRequest, IF Up(c) THEN resp ELSE NoResponse)
BY Replied DEF ConnNow

LEMMA SentNow ==
    ASSUME ServerTypes, NEW c \in Clients, NEW r \in Requests, SendRequest(c, r)
    PROVE  ConnNow(c, "up", r, NoResponse)
<1> DEFINE k == [state |-> "up", req |-> r, resp |-> NoResponse]
<1>1. k \in Connections /\ k.state = "up" /\ k.req = r /\ k.resp = NoResponse
    BY ResponseIs DEF Connections
<1>2. conn' = [conn EXCEPT ![c] = k]
    BY DEF SendRequest
<1> HIDE DEF k
<1> QED BY <1>1, <1>2, ConnSet

LEMMA TakenNow ==
    ASSUME ServerTypes, NEW c \in Clients, conn' = [conn EXCEPT ![c].resp = NoResponse]
    PROVE  ConnNow(c, conn[c].state, conn[c].req, NoResponse)
<1> DEFINE k == [conn[c] EXCEPT !.resp = NoResponse]
<1>1. k \in Connections /\ k.state = conn[c].state /\ k.req = conn[c].req /\ k.resp = NoResponse
    BY ReqType, ResponseIs DEF Connections
<1>2. conn' = [conn EXCEPT ![c] = k]
    OBVIOUS
<1> HIDE DEF k
<1> QED BY <1>1, <1>2, ConnSet

LEMMA LeftNow ==
    ASSUME ServerTypes, NEW c \in Clients, Leave(c)
    PROVE  ConnNow(c, "gone", conn[c].req, conn[c].resp)
<1> DEFINE k == [conn[c] EXCEPT !.state = "gone"]
<1>1. k \in Connections /\ k.state = "gone" /\ k.req = conn[c].req /\ k.resp = conn[c].resp
    BY ReqType DEF Connections
<1>2. conn' = [conn EXCEPT ![c] = k]
    BY DEF Leave
<1> HIDE DEF k
<1> QED BY <1>1, <1>2, ConnSet

LEMMA BrokenNow ==
    ASSUME ServerTypes, NEW c \in Clients, Break(c)
    PROVE  \E req \in {NoRequest, conn[c].req} : ConnNow(c, "down", req, NoResponse)
<1>1. PICK req \in {NoRequest, conn[c].req} :
         conn' = [conn EXCEPT ![c] = [state |-> "down", req |-> req, resp |-> NoResponse]]
    BY DEF Break
<1> DEFINE k == [state |-> "down", req |-> req, resp |-> NoResponse]
<1>2. k \in Connections /\ k.state = "down" /\ k.req = req /\ k.resp = NoResponse
    BY ReqType, ResponseIs DEF Connections, Req
<1>3. conn' = [conn EXCEPT ![c] = k]
    BY <1>1
<1> HIDE DEF k
<1>4. ConnNow(c, "down", req, NoResponse)
    BY <1>2, <1>3, ConnSet
<1> QED BY <1>4

\* The handshake's request.
LEMMA ConnectRequestIs ==
    ASSUME NEW v \in Nat
    PROVE  ConnectRequest(v) \in Requests /\ ConnectRequest(v).kind = "Connect"
<1> DEFINE r == Request("Connect")
<1>1. r \in Requests /\ r.kind = "Connect"
    BY DEF Request, Requests, RequestKinds
<1>2. ConnectRequest(v) = [r EXCEPT !.version = v]
    BY DEF ConnectRequest
<1> HIDE DEF r
<1> QED BY <1>1, <1>2 DEF Requests

\* The answer to the handshake is taken, or another one is tried.
LEMMA ConnectedNow ==
    ASSUME ServerTypes, NEW c \in Clients, Connected(c)
    PROVE  \/ /\ conn[c].resp.kind = "Connected" /\ link' = [link EXCEPT ![c] = conn[c].resp.version]
              /\ ConnNow(c, conn[c].state, conn[c].req, NoResponse)
           \/ /\ conn[c].resp.kind = "ProtocolError" /\ UNCHANGED link
              /\ ConnNow(c, "up", ConnectRequest(1), NoResponse)
<1>1. CASE conn[c].resp.kind = "Connected"
    <2>1. link' = [link EXCEPT ![c] = conn[c].resp.version] /\ conn' = [conn EXCEPT ![c].resp = NoResponse]
        BY <1>1, Zenon DEF Connected
    <2> QED BY <1>1, <2>1, TakenNow
<1>2. CASE conn[c].resp.kind # "Connected"
    <2>1. conn[c].resp.kind = "ProtocolError" /\ SendRequest(c, ConnectRequest(1)) /\ UNCHANGED link
        BY <1>2 DEF Connected
    <2>2. PICK r : r = ConnectRequest(1) /\ r \in Requests
        BY ConnectRequestIs
    <2> QED BY <2>1, <2>2, SentNow
<1> QED BY <1>1, <1>2

\* The first request of a call is sent.
LEMMA FirstRequest ==
    ASSUME ClientTypes, NEW c \in Clients, call[c].todo # <<>>
    PROVE  Head(call[c].todo) \in Calls /\ Head(call[c].todo) \in Requests /\ call[c].todo \in Seq(Calls)
<1>1. call[c].todo \in Seq(Calls)
    BY DEF ClientTypes, CallRecords
<1> QED BY <1>1 DEF Calls

\* An adapter's calls do not connect: connect does.
LEMMA FirstAsks ==
    ASSUME ClientTypes, NoHandshake, NEW c \in Adapters, call[c].todo # <<>>
    PROVE  Head(call[c].todo).kind # "Connect"
<1>1. c \in Clients
    BY DEF Adapters
<1>2. call[c].todo \in Seq(Calls)
    BY <1>1, FirstRequest
<1>3. 1 \in DOMAIN call[c].todo /\ Head(call[c].todo) = call[c].todo[1]
    BY <1>2
<1> QED BY <1>3 DEF NoHandshake

LEMMA SendNow ==
    ASSUME ServerTypes, ClientTypes, NEW c \in Clients, Send(c)
    PROVE  ConnNow(c, "up", Head(call[c].todo), NoResponse)
<1>1. PICK r : r = Head(call[c].todo) /\ r \in Requests /\ SendRequest(c, r)
    BY FirstRequest, SMTT(30) DEF Send
<1> QED BY <1>1, SentNow
-----------------------------------------------------------------------------
(***************************************************************************)
(* The handshake                                                           *)
(***************************************************************************)

\* The steps of a client that do not use its connection.
LocalStep(c) ==
    \/ OpenAt(c) \/ PathCall(c) \/ ReadCall(c) \/ WriteCall(c) \/ OpenStream(c) \/ WriteStream(c) \/ FsyncCall(c)
    \/ DropStream(c) \/ DropDescriptor(c) \/ DirectCall(c) \/ IoError(c) \/ FsyncNext(c) \/ StreamClosed(c)
LEMMA LocalFrame ==
    ASSUME NEW c, LocalStep(c)
    PROVE  UNCHANGED <<serverVars, link>>
BY DEF LocalStep, OpenAt, PathCall, ReadCall, WriteCall, OpenStream, WriteStream, FsyncCall, DropStream,
       DropDescriptor, DirectCall, IoError, FsyncNext, StreamClosed

\* A step is one of these.
LEMMA Steps ==
    ASSUME Next
    PROVE  \/ \E c \in Clients : LocalStep(c)
           \/ \E c \in Clients : Connect(c) \/ Connected(c) \/ Send(c) \/ Receive(c)
           \/ \E c \in Clients : /\ Serve(c) \/ Accept(c) \/ Disconnected(c) \/ CloseSession(c) \/ ForceFlush(c) \/ Leave(c)
                                 /\ UNCHANGED adapterVars
           \/ UNCHANGED adapterVars /\ (Tick \/ (\E p \in ForeignPaths : ForeignRelease(p)) \/ (\E c \in Clients : Break(c)))
BY ServerAssumption DEF Next, LocalStep, AppCall, ClientStep, ServerStep, Environment, Adapters

LEMMA ShakenSame ==
    ASSUME NEW e \in Clients, Shaken(e), conn'[e] = conn[e], link'[e] = link[e], sessions'[e] = sessions[e],
           e \in accepted' <=> e \in accepted
    PROVE  Shaken(e)'
BY DEF Shaken, Linked, Up

LEMMA LoopSame ==
    ASSUME LoopInv, UNCHANGED <<conn, link, sessions, accepted, mode, dropping, sessionFds>>
    PROVE  LoopInv'
BY DEF LoopInv, Shaken, Linked, Up

\* All that a step with client c does to the handshakes is to that of c.
LEMMA LoopOne ==
    ASSUME LoopInv, NEW c \in Clients,
           \A e \in Clients : e # c => conn'[e] = conn[e] /\ link'[e] = link[e] /\ sessions'[e] = sessions[e],
           \A e \in Clients : e # c => (e \in accepted' <=> e \in accepted),
           Shaken(c)'
    PROVE  \A e \in Clients : Shaken(e)'
BY ShakenSame DEF LoopInv

LEMMA LoopServe ==
    ASSUME ServerTypes, ServerTypes', ClientTypes, FdsOK, LoopInv, SessionsInv, NEW c \in Clients, c \in accepted,
           mode = "poll", NEW resp \in Responses, Effect(c, resp), Reply(c, resp), UNCHANGED link
    PROVE  LoopInv'
<1>0. /\ ConnNow(c, conn[c].state, NoRequest, IF Up(c) THEN resp ELSE NoResponse) /\ UNCHANGED accepted
      /\ \/ Up(c) /\ UNCHANGED <<mode, dropping>>
         \/ conn[c].state = "down" /\ mode' = "drop" /\ dropping' = c
         \/ conn[c].state = "down" /\ mode' = "stalled"
    BY RepliedNow, Replied
<1>1. Shaken(c) /\ \A e \in Clients : sessions[e] \in Nat /\ link[e] \in Nat
    BY DEF LoopInv, ServerTypes, ClientTypes
<1>2. \A e \in Clients : e # c => sessions'[e] = sessions[e]
    BY DEF Effect, Connects, Opened, Closes, Moves, ServerTypes
<1>3. /\ conn'[c].state = conn[c].state /\ conn'[c].req = NoRequest
      /\ conn'[c].resp = IF Up(c) THEN resp ELSE NoResponse
    BY <1>0 DEF ConnNow
<1>4. Linked(c) /\ (resp.kind = "none" => resp = NoResponse)
    BY <1>1, <1>0 DEF Shaken, Up, Linked, Effect, Connects, Opened, Closes, Moves
<1>5. Shaken(c)'
    <2>1. CASE Connects(c, resp)
        <3>1. /\ conn[c].req.kind = "Connect" /\ (c \in Adapters => link[c] = 0 /\ sessions[c] = 0)
              /\ (link[c] > 0 => c \in Direct) /\ (c \in Direct => link[c] > 0)
            BY <1>1, <2>1 DEF Connects, Shaken, Req, Adapters
        <3>2. CASE resp.kind = "Connected"
            <4>1. sessions'[c] > 0 /\ resp.version > 0
                <5>1. sessions'[c] = NewSession /\ resp.version > 0
                    BY <2>1, <3>2 DEF Connects, ServerTypes
                <5>2. NewSession > 0
                    BY NewSessionIsNew DEF SessionsInv
                <5> QED BY <5>1, <5>2
            <4> QED BY <1>0, <1>3, <1>4, <3>1, <3>2, <4>1, ResponseIs DEF Shaken, Linked, Up
        <3>3. CASE resp.kind = "ProtocolError"
            <4>1. UNCHANGED sessions
                BY <2>1, <3>3 DEF Connects
            <4> QED BY <1>0, <1>3, <1>4, <3>1, <3>3, <4>1, ResponseIs DEF Shaken, Linked, Up
        <3> QED BY <2>1, <3>2, <3>3 DEF Connects
    <2>2. CASE Opened(c, resp) \/ Closes(c, resp) \/ Moves(c, resp)
        <3>1. UNCHANGED sessions /\ resp.kind \in {"Fd", "Ok", "Error", "Busy"} /\ conn[c].req.kind \notin {"none", "Connect"}
            BY <2>2 DEF Opened, Closes, Moves, Req
        <3>2. link[c] > 0
            BY <1>1, <3>1 DEF Shaken
        <3> QED BY <1>0, <1>1, <1>3, <1>4, <3>1, <3>2, ResponseIs DEF Shaken, Linked, Up
    <2> QED BY <2>1, <2>2 DEF Effect
<1>6. \A e \in Clients : Shaken(e)'
    BY <1>0, <1>2, <1>5, LoopOne DEF ConnNow
<1>7. mode' \in {"poll", "drop", "stalled"} /\ (mode' = "drop" => dropping' = c /\ conn'[c].state = "down")
    BY <1>0, <1>3
<1> QED BY <1>0, <1>6, <1>7 DEF LoopInv
\* What the server does besides its requests.
LEMMA LoopAccept ==
    ASSUME ServerTypes, ClientTypes, LoopInv, SessionsInv, NEW c \in Clients, Accept(c), UNCHANGED link
    PROVE  ServerTypes' /\ LoopInv' /\ SessionsInv'
<1>1. /\ mode = "poll" /\ c \notin accepted /\ accepted' = accepted \union {c} /\ Linked(c)
      /\ sessions' = [sessions EXCEPT ![c] = 0]
      /\ UNCHANGED <<config, fds, nextFd, sessionFds, strays, mode, dropping, conn>>
    BY DEF Accept, Linked, fsVars, tableVars
<1>2. sessions' \in [Clients -> Nat] /\ sessions'[c] = 0 /\ \A e \in Clients : e # c => sessions'[e] = sessions[e]
    BY <1>1 DEF ServerTypes
<1>3. ServerTypes'
    BY <1>1, <1>2 DEF ServerTypes
<1>4. Shaken(c) /\ link[c] \in Nat
    BY DEF LoopInv, ClientTypes
<1>5. Shaken(c)'
    BY <1>1, <1>2, <1>4 DEF Shaken, Linked, Up
<1>6. \A e \in Clients : Shaken(e)'
    BY <1>1, <1>2, <1>5, LoopOne
<1>7. LoopInv'
    BY <1>1, <1>6 DEF LoopInv
<1>8. PICK n \in Nat : (\A e \in Clients : sessions[e] <= n) /\ DOMAIN sessionFds \subseteq 1 .. n
    BY DEF SessionsInv
<1>9. \A e \in Clients : sessions'[e] <= n
    BY <1>2, <1>8
<1>10. HaveSession'
    BY <1>1, <1>2 DEF SessionsInv, HaveSession, OpenedIn, ServerTypes
<1>11. \A e, d \in Clients : sessions'[e] = sessions'[d] /\ sessions'[e] > 0 => e = d
    BY <1>2 DEF SessionsInv
<1>12. SessionsInv'
    BY <1>1, <1>8, <1>9, <1>10, <1>11 DEF SessionsInv
<1> QED BY <1>3, <1>7, <1>12

LEMMA LoopLeave ==
    ASSUME ServerTypes, ClientTypes, LoopInv, SessionsInv, NEW c \in Clients, Leave(c), UNCHANGED link
    PROVE  ServerTypes' /\ LoopInv' /\ SessionsInv'
<1>1. /\ mode \in {"flush", "leave"} /\ dropping = c /\ mode' = "poll" /\ accepted' = accepted \ {c}
      /\ sessions' = [sessions EXCEPT ![c] = 0] /\ UNCHANGED <<config, fds, nextFd, sessionFds, strays>>
    BY DEF Leave, fsVars, tableVars
<1>2. sessions' \in [Clients -> Nat] /\ sessions'[c] = 0 /\ \A e \in Clients : e # c => sessions'[e] = sessions[e]
    BY <1>1 DEF ServerTypes
<1>3. ConnNow(c, "gone", conn[c].req, conn[c].resp)
    BY LeftNow
<1>4. ServerTypes'
    BY <1>1, <1>2, <1>3 DEF ServerTypes, ConnNow
<1>5. Shaken(c) /\ link[c] \in Nat /\ conn[c].state = "down" /\ sessions[c] \notin DOMAIN sessionFds
    BY <1>1 DEF LoopInv, ClientTypes
<1>6. Shaken(c)'
    BY <1>1, <1>2, <1>3, <1>5 DEF Shaken, Linked, Up, ConnNow
<1>7. \A e \in Clients : Shaken(e)'
    BY <1>1, <1>2, <1>3, <1>6, LoopOne DEF ConnNow
<1>8. LoopInv'
    BY <1>1, <1>7 DEF LoopInv
<1>9. PICK n \in Nat : (\A e \in Clients : sessions[e] <= n) /\ DOMAIN sessionFds \subseteq 1 .. n
    BY DEF SessionsInv
<1>10. \A e \in Clients : sessions'[e] <= n
    BY <1>2, <1>9
<1>11. HaveSession'
    BY <1>1, <1>2, <1>5 DEF SessionsInv, HaveSession, OpenedIn, ServerTypes
<1>12. \A e, d \in Clients : sessions'[e] = sessions'[d] /\ sessions'[e] > 0 => e = d
    BY <1>2 DEF SessionsInv
<1>13. SessionsInv'
    BY <1>1, <1>9, <1>10, <1>11, <1>12 DEF SessionsInv
<1> QED BY <1>4, <1>8, <1>13

LEMMA LoopCloseSession ==
    ASSUME ServerTypes, ClientTypes, LoopInv, SessionsInv, NEW c \in Clients, CloseSession(c), UNCHANGED link
    PROVE  ServerTypes' /\ LoopInv' /\ SessionsInv'
<1>1. mode = "drop" /\ dropping = c /\ UNCHANGED <<config, dropping, sessions, accepted, conn>>
    BY DEF CloseSession
<1>2. ServerTypes'
    BY <1>1 DEF ServerTypes
<1>3. PICK n \in Nat : (\A e \in Clients : sessions[e] <= n) /\ DOMAIN sessionFds \subseteq 1 .. n
    BY DEF SessionsInv
<1>4. CASE UNCHANGED mode /\ \E fd, ok : CloseFd(fd, ok)
    <2>1. PICK fd : FdClosed(fd)
        BY <1>4, CloseFdIs
    <2>2. LoopInv'
        BY <1>1, <1>4, ShakenSame DEF LoopInv
    <2>3. /\ DOMAIN sessionFds' = DOMAIN sessionFds
          /\ \A r \in DOMAIN sessionFds : sessionFds'[r] = sessionFds[r] \ {fd}
          /\ UNCHANGED <<nextFd, strays>> /\ DOMAIN fds' = DOMAIN fds \ {fd}
        BY <2>1 DEF FdClosed
    <2>4. HaveSession'
        <3>1. ASSUME NEW x \in DOMAIN fds', NEW e \in accepted, x \in OpenedIn(sessions[e])
              PROVE  x \in OpenedIn(sessions[e])'
            BY <1>1, <2>3, <3>1 DEF OpenedIn
        <3> QED BY <1>1, <2>3, <3>1 DEF SessionsInv, HaveSession
    <2>5. /\ \A r \in DOMAIN sessionFds' : sessionFds'[r] \subseteq 3 .. nextFd' - 1
          /\ \A r, q \in DOMAIN sessionFds' : r # q => sessionFds'[r] \intersect sessionFds'[q] = {}
        BY <2>3 DEF SessionsInv
    <2>6. SessionsInv'
        BY <1>1, <1>3, <2>3, <2>4, <2>5 DEF SessionsInv
    <2> QED BY <1>2, <2>2, <2>6
<1>5. CASE /\ OpenedIn(sessions[c]) = {} /\ sessionFds' = Without(sessionFds, {sessions[c]})
           /\ mode' = "flush" /\ UNCHANGED <<fsVars, strays>>
    <2>1. /\ DOMAIN sessionFds' = DOMAIN sessionFds \ {sessions[c]}
          /\ \A r \in DOMAIN sessionFds' : sessionFds'[r] = sessionFds[r]
          /\ UNCHANGED <<fds, nextFd, strays>>
        BY <1>5 DEF Without, fsVars
    <2>2. LoopInv'
        BY <1>1, <1>5, <2>1, ShakenSame DEF LoopInv
    <2>3. HaveSession'
        <3>1. ASSUME NEW x, NEW e \in accepted, x \in OpenedIn(sessions[e])
              PROVE  x \in OpenedIn(sessions[e])'
            BY <1>1, <1>5, <2>1, <3>1 DEF OpenedIn
        <3> QED BY <1>1, <2>1, <3>1 DEF SessionsInv, HaveSession
    <2>4. SessionsInv'
        BY <1>1, <1>3, <2>1, <2>3 DEF SessionsInv
    <2> QED BY <1>2, <2>2, <2>4
<1> QED BY <1>4, <1>5 DEF CloseSession

\* Connections: only their own client's handshake moves.
LEMMA LoopConnection ==
    ASSUME ServerTypes, ClientTypes, ClientTypes', NoHandshake, LoopInv, SessionsInv, NEW c \in Clients,
           Connect(c) \/ Connected(c) \/ Send(c) \/ Receive(c) \/ (Break(c) /\ UNCHANGED link)
    PROVE  ServerTypes' /\ LoopInv' /\ SessionsInv'
<1>0. UNCHANGED <<config, fds, nextFd, sessionFds, strays, mode, dropping, sessions, accepted>>
    BY DEF Connect, Connected, Send, Receive, Break, fsVars, tableVars, loopVars
<1>1. Shaken(c) /\ link[c] \in Nat /\ link'[c] \in Nat
    BY DEF LoopInv, ClientTypes
<1>2. /\ \E state, req, resp : ConnNow(c, state, req, resp)
      /\ \A e \in Clients : e # c => link'[e] = link[e]
      /\ Shaken(c)'
      /\ conn[c].state = "down" => c \notin accepted \/ conn'[c].state = "down"
    <2>1. CASE Connect(c)
        <3>1. PICK r : r = ConnectRequest(2) /\ r \in Requests /\ r.kind = "Connect" /\ SendRequest(c, r)
            BY <2>1, ConnectRequestIs DEF Connect
        <3>2. ConnNow(c, "up", r, NoResponse)
            BY <3>1, SentNow
        <3>3. link[c] = 0 /\ c \notin accepted /\ c \notin Direct /\ UNCHANGED link
            BY <1>1, <2>1 DEF Connect, adapterVars, Shaken
        <3>4. Shaken(c)'
            BY <1>0, <1>1, <3>1, <3>2, <3>3, ResponseIs DEF Shaken, Linked, Up, ConnNow
        <3> QED BY <3>2, <3>3, <3>4
    <2>2. CASE Connected(c) /\ conn[c].resp.kind = "Connected"
        <3>1. link' = [link EXCEPT ![c] = conn[c].resp.version] /\ ConnNow(c, conn[c].state, conn[c].req, NoResponse)
            BY <2>2, ConnectedNow
        <3>2. /\ link'[c] = conn[c].resp.version /\ \A e \in Clients : e # c => link'[e] = link[e]
              /\ link[c] = 0
            BY <2>2, <3>1 DEF ClientTypes, Connected
        <3>3. Shaken(c)'
            BY <1>0, <1>1, <2>2, <3>1, <3>2, ResponseIs DEF Shaken, Linked, Up, ConnNow
        <3> QED BY <3>1, <3>2, <3>3 DEF ConnNow
    <2>3. CASE Connected(c) /\ conn[c].resp.kind # "Connected"
        <3>1. conn[c].resp.kind = "ProtocolError" /\ UNCHANGED link /\ ConnNow(c, "up", ConnectRequest(1), NoResponse)
            BY <2>3, ConnectedNow
        <3>2. PICK r : r = ConnectRequest(1) /\ r.kind = "Connect"
            BY ConnectRequestIs
        <3>4. link[c] = 0 /\ c \in Adapters
            BY <1>1, <2>3 DEF Connected, Shaken, Adapters
        <3>3. Shaken(c)' /\ Up(c)
            BY <1>0, <1>1, <3>1, <3>2, <3>4, ResponseIs DEF Shaken, Linked, Up, ConnNow
        <3> QED BY <3>1, <3>3 DEF Up
    <2>4. CASE Send(c)
        <3>1. PICK r : r = Head(call[c].todo) /\ r \in Calls /\ ConnNow(c, "up", r, NoResponse)
            BY <2>4, SendNow, FirstRequest DEF Send
        <3>2. link[c] > 0 /\ Up(c) /\ UNCHANGED link
            BY <2>4 DEF Send, Up, adapterVars
        <3>4. c \in Adapters => r.kind # "Connect"
            BY <2>4, <3>1, FirstAsks DEF Send
        <3>3. Shaken(c)'
            BY <1>0, <1>1, <3>1, <3>2, <3>4, ResponseIs DEF Shaken, Linked, Up, ConnNow, Calls
        <3> QED BY <3>1, <3>2, <3>3 DEF Up
    <2>5. CASE Receive(c)
        <3>1. ConnNow(c, conn[c].state, conn[c].req, NoResponse) /\ UNCHANGED link
            BY <2>5, TakenNow DEF Receive
        <3>2. Shaken(c)'
            BY <1>0, <1>1, <3>1, ResponseIs DEF Shaken, Linked, Up, ConnNow
        <3> QED BY <3>1, <3>2 DEF ConnNow
    <2>6. CASE Break(c) /\ UNCHANGED link
        <3>1. PICK req \in {NoRequest, conn[c].req} : ConnNow(c, "down", req, NoResponse)
            BY <2>6, BrokenNow
        <3>2. Up(c)
            BY <2>6 DEF Break, Up
        <3>3. Shaken(c)'
            BY <1>0, <1>1, <2>6, <3>1, <3>2, ResponseIs DEF Shaken, Linked, Up, ConnNow
        <3> QED BY <2>6, <3>1, <3>3 DEF ConnNow
    <2> QED BY <2>1, <2>2, <2>3, <2>4, <2>5, <2>6
<1>3. conn' \in [Clients -> Connections] /\ \A e \in Clients : e # c => conn'[e] = conn[e]
    BY <1>2 DEF ConnNow
<1>4. ServerTypes'
    BY <1>0, <1>3 DEF ServerTypes
<1>5. \A e \in Clients : Shaken(e)'
    BY <1>0, <1>2, <1>3, LoopOne
<1>6. LoopInv'
    BY <1>0, <1>2, <1>3, <1>5 DEF LoopInv, ServerTypes
<1>7. SessionsInv'
    BY <1>0, SessionsSame
<1> QED BY <1>4, <1>6, <1>7
\* A request is served.
LEMMA LoopRequest ==
    ASSUME ServerTypes, ClientTypes, Disk, RequestsInv, LoopInv, SessionsInv, NEW c \in Clients, Serve(c), UNCHANGED link
    PROVE  ServerTypes' /\ LoopInv' /\ SessionsInv'
<1>1. mode = "poll" /\ c \in accepted
    BY ServeCases
<1>2. PICK resp \in Responses : Effect(c, resp) /\ Reply(c, resp)
    BY ServeCases
<1>3. ServerTypes'
    <2>1. sessions' \in [Clients -> Nat]
        <3>1. CASE UNCHANGED sessions
            BY <3>1 DEF ServerTypes
        <3>2. CASE sessions' = [sessions EXCEPT ![c] = NewSession]
            <4>1. NewSession \in Nat
                BY NewSessionIsNew DEF SessionsInv
            <4> QED BY <3>2, <4>1 DEF ServerTypes
        <3> QED BY <1>2, <3>1, <3>2 DEF Effect, Connects, Opened, Closes, Moves
    <2> QED BY <1>2, <2>1, Replied DEF ServerTypes
<1> QED BY <1>1, <1>2, <1>3, LoopServe, SessionsServe DEF Disk

\* Every step keeps the handshakes and the sessions in order.
LEMMA LoopStep ==
    ASSUME ServerTypes, ClientTypes, ClientTypes', NoHandshake, Disk, RequestsInv, LoopInv, SessionsInv, Next
    PROVE  ServerTypes' /\ LoopInv' /\ SessionsInv'
<1>0. ASSUME UNCHANGED <<config, conn, link, sessions, accepted, mode, dropping, sessionFds, strays, fds, nextFd>>
      PROVE  ServerTypes' /\ LoopInv' /\ SessionsInv'
    BY <1>0, LoopSame, SessionsSame DEF ServerTypes
<1>1. ASSUME NEW c \in Clients, LocalStep(c) PROVE ServerTypes' /\ LoopInv' /\ SessionsInv'
    BY <1>0, <1>1, LocalFrame DEF serverVars, fsVars, tableVars, loopVars
<1>2. ASSUME NEW c \in Clients, Connect(c) \/ Connected(c) \/ Send(c) \/ Receive(c)
      PROVE  ServerTypes' /\ LoopInv' /\ SessionsInv'
    BY <1>2, LoopConnection
<1>3. ASSUME UNCHANGED adapterVars, NEW c \in Clients,
             Serve(c) \/ Accept(c) \/ Disconnected(c) \/ CloseSession(c) \/ ForceFlush(c) \/ Leave(c)
      PROVE  ServerTypes' /\ LoopInv' /\ SessionsInv'
    <2>0. UNCHANGED link
        BY <1>3 DEF adapterVars
    <2>1. CASE Serve(c)
        BY <2>0, <2>1, LoopRequest
    <2>2. CASE Accept(c)
        BY <2>0, <2>2, LoopAccept
    <2>3. CASE Disconnected(c)
        <3>1. /\ c \in accepted /\ conn[c].state = "down" /\ mode' = "drop" /\ dropping' = c
              /\ UNCHANGED <<config, conn, sessions, accepted, sessionFds, strays, fds, nextFd>>
            BY <2>3 DEF Disconnected, fsVars, tableVars
        <3>2. ServerTypes' /\ SessionsInv'
            BY <3>1, SessionsSame DEF ServerTypes
        <3>3. LoopInv'
            BY <2>0, <3>1, ShakenSame DEF LoopInv
        <3> QED BY <3>2, <3>3
    <2>4. CASE CloseSession(c)
        BY <2>0, <2>4, LoopCloseSession
    <2>5. CASE ForceFlush(c)
        <3>1. /\ mode = "flush" /\ mode' \in {"leave", "flush"}
              /\ UNCHANGED <<config, conn, sessions, accepted, dropping, sessionFds, strays, fds, nextFd>>
            BY <2>5 DEF ForceFlush, tableVars
        <3>2. ServerTypes' /\ SessionsInv'
            BY <3>1, SessionsSame DEF ServerTypes
        <3>3. LoopInv'
            BY <2>0, <3>1, ShakenSame DEF LoopInv
        <3> QED BY <3>2, <3>3
    <2>6. CASE Leave(c)
        BY <2>0, <2>6, LoopLeave
    <2> QED BY <1>3, <2>1, <2>2, <2>3, <2>4, <2>5, <2>6
<1>4. ASSUME UNCHANGED adapterVars, Tick \/ (\E p \in ForeignPaths : ForeignRelease(p))
      PROVE  ServerTypes' /\ LoopInv' /\ SessionsInv'
    BY <1>0, <1>4 DEF Tick, ForeignRelease, adapterVars, fsVars, tableVars, loopVars
<1>5. ASSUME UNCHANGED adapterVars, NEW c \in Clients, Break(c) PROVE ServerTypes' /\ LoopInv' /\ SessionsInv'
    BY <1>5, LoopConnection DEF adapterVars
<1> QED BY <1>1, <1>2, <1>3, <1>4, <1>5, Steps
=============================================================================
