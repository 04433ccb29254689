----------------------------- MODULE RpcAdapter -----------------------------
(***************************************************************************)
(* The RPC adapter (rpc-adapter) and the server it talks to.  The adapter  *)
(* gives one single-threaded component the wasi:filesystem interface: each *)
(* of its calls is a sequence of requests on one connection, which is made *)
(* at first use and never replaced once it has been up.  Output streams    *)
(* only buffer; the buffer goes to the server in an fsync of the           *)
(* descriptor, or when the stream is dropped, and a descriptor that is     *)
(* dropped before its streams is closed by the last of them.               *)
(*                                                                         *)
(* Other clients speak the protocol themselves (`direct`).                 *)
(***************************************************************************)
EXTENDS RpcServer

CONSTANTS
    Opens(_),          \* what adapters open: records [path, write, creat] ...
    PathCalls(_),      \* ... the requests they make on paths ...
    DirectRequests(_), \* ... those of the other clients that name no descriptor ...
    DirectKinds(_),    \* ... and the kinds of those that do, in each configuration
    MaxRetries,        \* length of busy_backoff_schedule
    MaxOpens           \* bound on the opens of an adapter

\* The requests on paths that open nothing, and those on descriptors.
FdKinds == {"OpenAt", "Read", "Seek", "Fsync", "Close", "Write", "AppendWrite", "Ftruncate"}
PathKinds == {"Stat", "Readdir", "Mkdir", "MkdirP", "Unlink", "Rmdir", "Rename"}

ASSUME AdapterAssumption ==
    /\ {MaxRetries, MaxOpens} \subseteq Nat
    /\ \A cfg \in Configs :
          /\ \A o \in Opens(cfg) : o.path \in Paths /\ {o.write, o.creat} \subseteq BOOLEAN
          /\ PathCalls(cfg) \subseteq {r \in Requests : r.kind \in PathKinds /\ r.fd = 0}
          /\ DirectKinds(cfg) \subseteq FdKinds
          /\ DirectRequests(cfg) \subseteq
                {r \in Requests : /\ r.kind \in PathKinds \union {"Connect", "OpenPath", "Undecodable"} /\ r.fd = 0
                                  /\ r.kind = "OpenPath" => r.path \in Paths}

VARIABLES
    link,     \* client -> version of its PersistentConnection; 0: none yet
    descs,    \* client -> its descriptors: [fd, write, state], state being
              \* "open", "pending" (close_pending) or "released"
    streams,  \* client -> its output streams: [h, append, offset, buffer, live]
    call,     \* client -> the call it executes: [op, h, s, todo, retries]
    wrote,    \* client -> history of its writes: [h, at]
    synced,   \* client -> the writes that an fsync has confirmed
    count     \* client -> number of its calls that only read, or on paths

adapterVars == <<link, descs, streams, call, wrote, synced, count>>
vars == <<serverVars, adapterVars>>

\* The offset of a write that goes wherever the file's position or end is.
Anywhere == 99

NoCall == [op |-> "none", h |-> 0, s |-> 0, todo |-> <<>>, retries |-> 0]

Init ==
    /\ ServerInit
    /\ link = [c \in Clients |-> IF c \in Direct THEN config.version ELSE 0]
    /\ descs = [c \in Clients |-> <<>>]
    /\ streams = [c \in Clients |-> <<>>]
    /\ call = [c \in Clients |-> NoCall]
    /\ wrote = [c \in Clients |-> <<>>]
    /\ synced = [c \in Clients |-> {}]
    /\ count = [c \in Clients |-> 0]

-----------------------------------------------------------------------------
(***************************************************************************)
(* Helpers                                                                 *)
(***************************************************************************)

Adapters == Clients \ Direct
Idle(c) == call[c].op = "none"

Handles(c) == {h \in DOMAIN descs[c] : descs[c][h].state = "open"}
LiveStreams(c, h) == {s \in DOMAIN streams[c] : streams[c][s].live /\ streams[c][s].h = h}

\* A request on the server's descriptor of h.
OnFd(c, kind, h) == [Request(kind) EXCEPT !.fd = descs[c][h].fd]
Seek(c, h, at) == [OnFd(c, "Seek", h) EXCEPT !.at = at]

\* A call that makes the requests todo.
Start(c, op, h, s, todo) ==
    call' = [call EXCEPT ![c] = [op |-> op, h |-> h, s |-> s, todo |-> todo, retries |-> 0]]
Return(c) == call' = [call EXCEPT ![c] = NoCall]

\* The number of a new write of c, meant for offset at.
NextWrite(c) == Len(wrote[c]) + 1
Record(c, h, at) == wrote' = [wrote EXCEPT ![c] = Append(@, [h |-> h, at |-> at])]

-----------------------------------------------------------------------------
(***************************************************************************)
(* Calls of the application                                                *)
(***************************************************************************)

\* open_at
OpenAt(c) ==
    /\ Idle(c) /\ Len(descs[c]) < MaxOpens
    /\ \E o \in Opens(config) :
          Start(c, "open", 0, 0,
                <<[Request("OpenPath") EXCEPT !.path = o.path, !.write = o.write, !.creat = o.creat]>>)
    /\ UNCHANGED <<serverVars, link, descs, streams, wrote, synced, count>>

\* create_directory_at, stat_at, remove_directory_at, rename_at, unlink_file_at
PathCall(c) ==
    /\ Idle(c) /\ count[c] < config.calls
    /\ count' = [count EXCEPT ![c] = @ + 1]
    /\ \E r \in PathCalls(config) : Start(c, "call", 0, 0, <<r>>)
    /\ UNCHANGED <<serverVars, link, descs, streams, wrote, synced>>

\* read, get_type, stat, read_directory
ReadCall(c) ==
    /\ Idle(c) /\ count[c] < config.calls
    /\ count' = [count EXCEPT ![c] = @ + 1]
    /\ \E h \in Handles(c) :
          \/ Start(c, "call", h, 0, <<Seek(c, h, 0), OnFd(c, "Read", h)>>)
          \/ Start(c, "call", h, 0, <<OnFd(c, "Fstat", h)>>)
          \/ Start(c, "call", h, 0, <<OnFd(c, "ReaddirFd", h)>>)
    /\ UNCHANGED <<serverVars, link, descs, streams, wrote, synced>>

\* write: seek and write on one connection; set_size does not look at streams.
WriteCall(c) ==
    /\ Idle(c) /\ Len(wrote[c]) < config.writes
    /\ \E h \in Handles(c) :
          \/ /\ Record(c, h, 0)
             /\ Start(c, "call", h, 0,
                      <<Seek(c, h, 0), [OnFd(c, "Write", h) EXCEPT !.data = <<NextWrite(c)>>]>>)
          \/ /\ Record(c, h, Anywhere)
             /\ Start(c, "call", h, 0, <<[OnFd(c, "Ftruncate", h) EXCEPT !.data = <<NextWrite(c)>>]>>)
    /\ UNCHANGED <<serverVars, link, descs, streams, synced, count>>

\* write_via_stream, append_via_stream
OpenStream(c) ==
    /\ Idle(c) /\ Len(streams[c]) < config.streams
    /\ \E h \in Handles(c), append \in BOOLEAN :
          streams' = [streams EXCEPT ![c] = Append(@,
             [h |-> h, append |-> append, offset |-> 0, buffer |-> <<>>, live |-> TRUE])]
    /\ UNCHANGED <<serverVars, link, descs, call, wrote, synced, count>>

\* write, blocking_write_and_flush: the data is only buffered.
WriteStream(c) ==
    /\ Idle(c) /\ Len(wrote[c]) < config.writes
    /\ \E s \in DOMAIN streams[c] :
          LET st == streams[c][s] IN
          /\ st.live
          /\ streams' = [streams EXCEPT ![c][s].buffer = Append(@, NextWrite(c))]
          /\ Record(c, st.h, IF st.append THEN Anywhere ELSE st.offset + Len(st.buffer))
    /\ UNCHANGED <<serverVars, link, descs, call, synced, count>>

\* Mutant: the data goes where the position is.
FlushRequestsUnseeked(c, s) ==
    LET st == streams[c][s]
        kind == IF st.append THEN "AppendWrite" ELSE "Write" IN
    IF st.buffer = <<>> THEN <<>> ELSE <<[OnFd(c, kind, st.h) EXCEPT !.data = st.buffer]>>

\* The requests of flush_buffer.
FlushRequests(c, s) ==
    LET st == streams[c][s]
        kind == IF st.append THEN "AppendWrite" ELSE "Write"
        put == [OnFd(c, kind, st.h) EXCEPT !.data = st.buffer] IN
    IF st.buffer = <<>> THEN <<>>
    ELSE IF st.append THEN <<put>> ELSE <<Seek(c, st.h, st.offset), put>>

\* fsync of a write descriptor: its streams are flushed one after the other (see
\* FsyncNext), and the server is asked to fsync.
FsyncCall(c) ==
    /\ Idle(c)
    /\ \E h \in Handles(c) : descs[c][h].write /\ Start(c, "fsync", h, 0, <<>>)
    /\ UNCHANGED <<serverVars, link, descs, streams, wrote, synced, count>>

\* Drop of an output stream: flush_buffer, which empties the buffer first.
DropStream(c) ==
    /\ Idle(c)
    /\ \E s \in DOMAIN streams[c] :
          /\ streams[c][s].live
          /\ Start(c, "drop", streams[c][s].h, s, FlushRequests(c, s))
          /\ streams' = [streams EXCEPT ![c][s].buffer = <<>>]
    /\ UNCHANGED <<serverVars, link, descs, wrote, synced, count>>

\* release, and send_close
Release(c, h) ==
    /\ descs' = [descs EXCEPT ![c][h].state = "released"]
    /\ Start(c, "close", h, 0, <<OnFd(c, "Close", h)>>)

\* Mutant: the streams are not asked.
DropDescriptorAtOnce(c) ==
    /\ Idle(c)
    /\ \E h \in Handles(c) : Release(c, h)
    /\ UNCHANGED <<serverVars, link, streams, wrote, synced, count>>

\* Drop of a descriptor: waits for the streams that are live.
DropDescriptor(c) ==
    /\ Idle(c)
    /\ \E h \in Handles(c) :
          IF LiveStreams(c, h) # {}
          THEN descs' = [descs EXCEPT ![c][h].state = "pending"] /\ UNCHANGED call
          ELSE Release(c, h)
    /\ UNCHANGED <<serverVars, link, streams, wrote, synced, count>>

-----------------------------------------------------------------------------
(***************************************************************************)
(* The requests of a call                                                  *)
(***************************************************************************)

Waiting(c) == conn[c].req # NoRequest \/ conn[c].resp # NoResponse
SendRequest(c, r) == conn' = [conn EXCEPT ![c] = [state |-> "up", req |-> r, resp |-> NoResponse]]
ConnectRequest(v) == [Request("Connect") EXCEPT !.version = v]

\* connect: a connection and the handshake of protocol version 2.
Connect(c) ==
    /\ call[c].todo # <<>> /\ link[c] = 0 /\ conn[c].state \in {"none", "gone"}
    /\ c \notin accepted
    /\ SendRequest(c, ConnectRequest(2))
    /\ UNCHANGED <<config, faults, fsVars, syncVars, tableVars, loopVars, foreign, breaks, adapterVars>>

\* The answer to the handshake; an old server is asked again for version 1.
Connected(c) ==
    /\ link[c] = 0 /\ conn[c].resp.kind \in {"Connected", "ProtocolError"}
    /\ IF conn[c].resp.kind = "Connected"
       THEN /\ link' = [link EXCEPT ![c] = conn[c].resp.version]
            /\ conn' = [conn EXCEPT ![c].resp = NoResponse]
       ELSE SendRequest(c, ConnectRequest(1)) /\ UNCHANGED link
    /\ UNCHANGED <<config, faults, fsVars, syncVars, tableVars, loopVars, foreign, breaks,
                   descs, streams, call, wrote, synced, count>>

\* send
Send(c) ==
    /\ call[c].todo # <<>> /\ link[c] > 0 /\ conn[c].state = "up" /\ ~Waiting(c)
    /\ SendRequest(c, Head(call[c].todo))
    /\ UNCHANGED <<config, faults, fsVars, syncVars, tableVars, loopVars, foreign, breaks, adapterVars>>

\* Mutant: Busy is tried again for ever.
OpenAnsweredPatiently(c, resp) ==
    \/ /\ resp.kind = "Fd"
       /\ descs' = [descs EXCEPT ![c] = Append(@,
             [fd |-> resp.fd, write |-> Head(call[c].todo).write, state |-> "open"])]
       /\ Return(c)
    \/ resp.kind = "Busy" /\ UNCHANGED <<call, descs>>
    \/ resp.kind \notin {"Fd", "Busy"} /\ Return(c) /\ UNCHANGED descs

\* open_at gets its answer: allocate_descriptor, or another try while Busy.
OpenAnswered(c, resp) ==
    \/ /\ resp.kind = "Fd"
       /\ descs' = [descs EXCEPT ![c] = Append(@,
             [fd |-> resp.fd, write |-> Head(call[c].todo).write, state |-> "open"])]
       /\ Return(c)
    \/ /\ resp.kind = "Busy" /\ call[c].retries < MaxRetries
       /\ call' = [call EXCEPT ![c].retries = @ + 1]
       /\ UNCHANGED descs
    \/ /\ resp.kind = "Busy" /\ call[c].retries >= MaxRetries
       /\ Return(c) /\ UNCHANGED descs
    \/ /\ resp.kind \notin {"Fd", "Busy"}
       /\ Return(c) /\ UNCHANGED descs

\* What a call does with the answer to its request: it goes on, or returns the
\* error; the drop of a stream goes on either way (see StreamClosed).
Answered(c, resp) ==
    LET cl == call[c]
        last == Len(cl.todo) = 1
        ok == resp.kind = "Ok"
        flushed == ok /\ last /\ cl.op = "fsync" /\ Head(cl.todo).kind # "Fsync" IN
    \/ /\ cl.op = "open" /\ OpenAnswered(c, resp)
       /\ UNCHANGED <<streams, synced>>
    \/ /\ cl.op \in {"call", "close"}
       /\ IF ok /\ ~last THEN call' = [call EXCEPT ![c].todo = Tail(@)] ELSE Return(c)
       /\ UNCHANGED <<descs, streams, synced>>
    \/ /\ cl.op = "drop"
       /\ call' = [call EXCEPT ![c].todo = IF ok THEN Tail(@) ELSE <<>>]
       /\ UNCHANGED <<descs, streams, synced>>
    \/ /\ cl.op = "fsync"
       /\ IF ok /\ (~last \/ flushed) THEN call' = [call EXCEPT ![c].todo = Tail(@)] ELSE Return(c)
       /\ streams' = IF flushed /\ ~streams[c][cl.s].append
                     THEN [streams EXCEPT ![c][cl.s].offset = @ + Len(Head(cl.todo).data)]
                     ELSE streams
       /\ synced' = IF ok /\ Head(cl.todo).kind = "Fsync"
                    THEN [synced EXCEPT ![c] = @ \union {n \in DOMAIN wrote[c] : wrote[c][n].h = cl.h}]
                    ELSE synced
       /\ UNCHANGED descs

\* receive
Receive(c) ==
    /\ link[c] > 0 /\ conn[c].state = "up" /\ conn[c].resp # NoResponse /\ ~Idle(c)
    /\ conn' = [conn EXCEPT ![c].resp = NoResponse]
    /\ Answered(c, conn[c].resp)
    /\ UNCHANGED <<config, faults, fsVars, syncVars, tableVars, loopVars, foreign, breaks,
                   link, wrote, count>>

\* An I/O error: the connection is gone.  One that has been up stays in place, so
\* that every later call fails too.
IoError(c) ==
    /\ call[c].todo # <<>> /\ conn[c].state \in {"down", "gone"}
    /\ link[c] = 0 => conn[c].state = "down"
    /\ Answered(c, Error)
    /\ UNCHANGED <<serverVars, link, wrote, count>>

\* Mutant: the buffers stay.
FsyncOnly(c) ==
    /\ call[c].op = "fsync" /\ call[c].todo = <<>>
    /\ call' = [call EXCEPT ![c].todo = <<OnFd(c, "Fsync", call[c].h)>>]
    /\ UNCHANGED <<serverVars, link, descs, streams, wrote, synced, count>>

\* The next stream of an fsync, in the order they were opened: flush_buffer
\* empties the buffer and sends it.  After the last one Fsync, which a server
\* of version 1 does not know.
FsyncNext(c) ==
    LET full == {s \in LiveStreams(c, call[c].h) : streams[c][s].buffer # <<>>} IN
    /\ call[c].op = "fsync" /\ call[c].todo = <<>>
    /\ IF full # {}
       THEN LET s == Min(full) IN
            /\ call' = [call EXCEPT ![c].s = s, ![c].todo = FlushRequests(c, s)]
            /\ streams' = [streams EXCEPT ![c][s].buffer = <<>>]
       ELSE /\ IF link[c] = 1 THEN Return(c)
               ELSE call' = [call EXCEPT ![c].todo = <<OnFd(c, "Fsync", call[c].h)>>]
            /\ UNCHANGED streams
    /\ UNCHANGED <<serverVars, link, descs, wrote, synced, count>>

\* stream_closed: the last stream of a dropped descriptor closes it.
StreamClosed(c) ==
    LET h == call[c].h IN
    /\ call[c].op = "drop" /\ call[c].todo = <<>>
    /\ streams' = [streams EXCEPT ![c][call[c].s].live = FALSE]
    /\ IF descs[c][h].state = "pending" /\ LiveStreams(c, h) = {call[c].s}
       THEN Release(c, h)
       ELSE Return(c) /\ UNCHANGED descs
    /\ UNCHANGED <<serverVars, link, wrote, synced, count>>

\* A client without the adapter opens files below a directory; their paths are
\* Paths, which is a bound.
OpensBelow(fd, p) ==
    fd \in DOMAIN fds /\ nodes[fds[fd].inode].dir /\ fds[fd].path \o p \in Paths

\* The descriptors that such a client names: its own, or any number.
Named(c) == IF config.any THEN 3 .. nextFd ELSE {descs[c][h].fd : h \in Handles(c)}

\* A client without the adapter makes a request, a call of its own: to connect,
\* also before or after it has a session, on a path or on a descriptor.  A write
\* of it goes where it may.
DirectCall(c) ==
    LET Make(r) == Start(c, IF r.kind \in {"OpenPath", "OpenAt"} THEN "open" ELSE "call", 0, 0, <<r>>) IN
    /\ Idle(c) /\ count[c] < config.others
    /\ count' = [count EXCEPT ![c] = @ + 1]
    /\ \/ (\E r \in DirectRequests(config) : Make(r)) /\ UNCHANGED wrote
       \/ \E fd \in Named(c), kind \in DirectKinds(config) :
             LET On == [Request(kind) EXCEPT !.fd = fd] IN
             \/ /\ kind \in {"Read", "Seek", "Fsync", "Close"}
                /\ Make(On) /\ UNCHANGED wrote
             \/ /\ kind \in {"Write", "AppendWrite", "Ftruncate"}
                /\ Make([On EXCEPT !.data = <<NextWrite(c)>>]) /\ Record(c, 0, Anywhere)
             \/ /\ kind = "OpenAt"
                /\ \E o \in Opens(config) :
                      /\ OpensBelow(fd, o.path)
                      /\ Make([On EXCEPT !.path = o.path, !.write = o.write, !.creat = o.creat])
                /\ UNCHANGED wrote
    /\ UNCHANGED <<serverVars, link, descs, streams, synced>>

-----------------------------------------------------------------------------
(***************************************************************************)
(* Specification                                                           *)
(***************************************************************************)

AppCall(c) ==
    \/ OpenAt(c) \/ PathCall(c) \/ ReadCall(c) \/ WriteCall(c) \/ OpenStream(c)
    \/ WriteStream(c) \/ FsyncCall(c) \/ DropStream(c)

ClientStep(c) ==
    Connect(c) \/ Connected(c) \/ Send(c) \/ Receive(c) \/ IoError(c) \/ FsyncNext(c) \/ StreamClosed(c)

Next ==
    \/ \E c \in Adapters : AppCall(c)
    \/ \E c \in Direct : DirectCall(c)
    \/ \E c \in Clients : DropDescriptor(c) \/ ClientStep(c)
    \/ \E c \in Clients : ServerStep(c) /\ UNCHANGED adapterVars
    \/ Environment /\ UNCHANGED adapterVars

Spec == Init /\ [][Next]_vars
FairSpec ==
    /\ Spec
    /\ \A c \in Clients : WF_vars(ClientStep(c))
    /\ \A c \in Clients : WF_vars(ServerStep(c) /\ UNCHANGED adapterVars)

-----------------------------------------------------------------------------
(***************************************************************************)
(* Properties                                                              *)
(***************************************************************************)

\* No descriptor outlives its session: every descriptor of the server belongs to
\* the session of a client that is still in the list, so that a disconnect, also
\* one that only the failed response to an open reveals, leaves nothing open
\* (close_session, docs/sync-semantics.md "has them closed by the server").  Only
\* a client that opens before it connects, or connects twice, has descriptors
\* that nobody will close, and an adapter never does.
DescriptorsHaveSession ==
    /\ \A fd \in DOMAIN fds \ strays : \E c \in accepted : fd \in OpenedIn(sessions[c])
    /\ \A c \in Adapters : \A h \in DOMAIN descs[c] : descs[c][h].fd \notin strays

\* Violated by clients that open before they connect or connect twice.
NoStrays == DOMAIN fds \intersect strays = {}

\* A lease lasts as long as the write descriptors of its path: close_fd and
\* close_session of one client never end a lease that another client's
\* descriptor still writes under.
LeaseCoversWriters ==
    config.lock => \A p \in Paths : leases[p].refs >= Writers(p, DOMAIN fds)

\* Close waits for the buffers: while the connection is up, and unless another
\* client closes it, the descriptor under a stream with buffered data is open at
\* the server (live_streams, close_pending, descriptor_dropped).
BufferHasDescriptor ==
    ~config.any => \A c \in Adapters : \A s \in DOMAIN streams[c] :
        streams[c][s].buffer # <<>> /\ conn[c].state = "up"
            => descs[c][streams[c][s].h].fd \in DOMAIN fds

\* A write of a stream, or of write at an offset, lands at the offset it was
\* meant for, though all streams of a descriptor and its direct reads and writes
\* move one position at the server; unless another client moves it, too.
WritesLandWhereMeant ==
    ~config.any => \A i \in 1 .. Len(nodes) : \A w \in nodes[i].writes :
        w.c \in Adapters => wrote[w.c][w.n].at \in {Anywhere, w.at}

\* The writes in the inodes that no path leads to any more.
Unlinked == UNION {nodes[i].writes : i \in {j \in 1 .. Len(nodes) : \A p \in DOMAIN tree : tree[p] # j}}

\* What an fsync has confirmed is in S3, unless the file has been removed: the
\* data that was still in stream buffers when it was called, too.
FsyncIsDurable ==
    \A c \in Clients : \A n \in synced[c] :
        \E w \in UNION {store[p] : p \in Paths} \union Unlinked : w.c = c /\ w.n = n

\* Every call returns: Busy is tried again a bounded number of times, and a lost
\* connection or response is an error; unless the server hangs in write_message.
EveryCallReturns == \A c \in Adapters : ~Idle(c) ~> (Idle(c) \/ mode = "stalled")

\* When a connection has broken, the server closes all its session left open and
\* gives the leases back; unless it hangs in write_message.
DisconnectReleases ==
    \A c \in Adapters : conn[c].state = "down" /\ c \in accepted
        ~> (mode = "stalled" \/ c \notin accepted)

\* Violated by write_message: a connection that breaks while a response is
\* written can make the server try for ever.
ClosedOnDisconnect == \A c \in Clients : conn[c].state = "down" ~> conn[c].state # "down"
=============================================================================
