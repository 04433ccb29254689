----------------------------- MODULE RpcProofs -----------------------------
(***************************************************************************)
(* What a client of the RPC server knows of its descriptors and what it    *)
(* has still to send, and the theorems of RpcAdapter: no descriptor        *)
(* outlives its session, leases cover their writers, buffers keep their    *)
(* descriptor, and writes land where they were meant to.                   *)
(*                                                                         *)
(* Positions at the server are what makes the last one hard: they move     *)
(* with every request on a descriptor, reads too.  A position is safe      *)
(* while the call between its Seek and its Write is under way, because a   *)
(* descriptor has one client (OwnInv), a client one request at a time      *)
(* (FlightOK), and no other client names the descriptor.  Where clients    *)
(* name any descriptor (config.any) the invariant says nothing of what is  *)
(* open (HeldInv) and of positions (Steady), and the rest holds without.   *)
(***************************************************************************)
EXTENDS RpcServerProofs

-----------------------------------------------------------------------------
(***************************************************************************)
(* The inductive invariant                                                 *)
(***************************************************************************)

\* fd is open, in the session of c.
Held(c, fd) == fd \in DOMAIN fds /\ fd \in OpenedIn(sessions[c])

\* The client knows the number fd, is about to learn it, or needs it: while the
\* connection is up, and until the client releases it.
FdKnown(c, fd) == \E h \in DOMAIN descs[c] : descs[c][h].fd = fd
FdOffered(c, fd) == conn[c].resp.kind = "Fd" /\ conn[c].resp.fd = fd
Needs(c, fd) ==
    FdOffered(c, fd) \/ (Up(c) /\ \E h \in DOMAIN descs[c] : descs[c][h].fd = fd /\ descs[c][h].state # "released")

\* A descriptor number is known to one client, at one place ...
KnownInv ==
    /\ \A c \in Clients : descs[c] # <<>> => link[c] > 0
    /\ \A c \in Clients, fd \in Nat : FdKnown(c, fd) \/ FdOffered(c, fd) => fd \in 3 .. nextFd - 1
    /\ \A c \in Clients : \A h, k \in DOMAIN descs[c] : descs[c][h].fd = descs[c][k].fd => h = k
    /\ \A c, e \in Clients, fd \in Nat : c # e /\ (FdKnown(c, fd) \/ FdOffered(c, fd)) => ~FdKnown(e, fd) /\ ~FdOffered(e, fd)
    /\ \A c \in Clients, fd \in Nat : FdOffered(c, fd) => ~FdKnown(c, fd)

\* ... an adapter's is in no other session, and never without one ...
Apart(c, fd) == fd \notin strays /\ \A e \in Clients \ {c} : fd \notin OpenedIn(sessions[e])
ApartInv == \A c \in Adapters, fd \in Nat : FdKnown(c, fd) \/ FdOffered(c, fd) => Apart(c, fd)

\* ... and open for as long as the adapter needs it.
HeldInv == ~config.any => \A c \in Adapters, fd \in Nat : Needs(c, fd) => Held(c, fd)
OwnInv == KnownInv /\ ApartInv /\ HeldInv

\* The descriptors whose positions only their own client moves.
Steady == IF config.any THEN <<>> ELSE fds

\* What a request of an adapter must have, given the descriptors ds and the
\* writes ws of the adapter, and where it finds the position in fs (Steady).
WriteAt(ws, r, at) == \A k \in DOMAIN r.data : Meant(ws, r.data[k], at + k - 1)
ReqOK(r, ds, ws) ==
    /\ r.kind \notin {"Connect", "OpenAt"} /\ (r.kind = "OpenPath" => r.path \in Paths)
    /\ r.fd # 0 => \E h \in DOMAIN ds : ds[h].fd = r.fd /\ (r.kind = "Close" => ds[h].state = "released")
    /\ r.kind \in {"AppendWrite", "Ftruncate"} => \A k \in DOMAIN r.data : Meant(ws, r.data[k], Anywhere)
PosOK(r, ws, fs) == r.kind = "Write" /\ r.fd \in DOMAIN fs => WriteAt(ws, r, fs[r.fd].pos)
Seeked(q, r, ws) == q.kind = "Seek" /\ q.fd = r.fd /\ WriteAt(ws, r, q.at)

\* The requests of a call.
TodoOK(cl, ds, ws) ==
    /\ cl.op = "none" => cl.todo = <<>>
    /\ cl.op \in {"open", "call", "close"} => cl.todo # <<>>
    /\ cl.op = "open" => cl.todo[1].kind # "Write"
    /\ \A i \in DOMAIN cl.todo : ReqOK(cl.todo[i], ds, ws)
    /\ \A i \in DOMAIN cl.todo : i > 1 /\ cl.todo[i].kind = "Write" => Seeked(cl.todo[i - 1], cl.todo[i], ws)

\* The request that is with the server, on connection k.
Real(r) == r.kind \notin {"none", "Connect"}
FlightOK(k, cl, version, ds, ws, fs) ==
    /\ k.state = "up" /\ k.resp = NoResponse /\ cl.todo # <<>> => PosOK(cl.todo[1], ws, fs)
    /\ k.state = "up" /\ k.resp.kind = "Ok" /\ cl.todo # <<>> /\ cl.todo[1].kind = "Seek" /\ cl.todo[1].fd \in DOMAIN fs =>
          fs[cl.todo[1].fd].pos = cl.todo[1].at
    /\ k.state = "up" /\ version > 0 /\ (k.req # NoRequest \/ k.resp # NoResponse) => cl.todo # <<>>
    /\ k.state = "up" /\ Real(k.req) => k.req = cl.todo[1]
    /\ Real(k.req) => ReqOK(k.req, ds, ws) /\ PosOK(k.req, ws, fs)

\* The stream that a call works on.
WorkOK(cl, ds, ss) ==
    /\ cl.op = "fsync" =>
          /\ cl.h \in DOMAIN ds
          /\ cl.todo # <<>> /\ (cl.todo[1].kind # "Fsync" \/ Len(cl.todo) > 1) =>
                cl.s \in DOMAIN ss /\ ss[cl.s].buffer = <<>>
    /\ cl.op = "drop" => cl.s \in DOMAIN ss /\ ss[cl.s].h = cl.h /\ ss[cl.s].live /\ ss[cl.s].buffer = <<>>

\* What is buffered in a stream.
StreamOK(st, ds, ws) ==
    /\ st.h \in DOMAIN ds
    /\ st.live => ds[st.h].state # "released"
    /\ st.buffer # <<>> => st.live
    /\ \A j \in DOMAIN st.buffer : Meant(ws, st.buffer[j], IF st.append THEN Anywhere ELSE st.offset + j - 1)

ClientOK(c) ==
    /\ TodoOK(call[c], descs[c], wrote[c])
    /\ FlightOK(conn[c], call[c], link[c], descs[c], wrote[c], Steady)
    /\ WorkOK(call[c], descs[c], streams[c])
    /\ \A s \in DOMAIN streams[c] : StreamOK(streams[c][s], descs[c], wrote[c])

\* The requests of a client without the adapter name paths that there
\* can be, and descriptors that the client knows unless it names any.
NamesOwn(c, r) == ~config.any /\ r.fd # 0 => FdKnown(c, r.fd)
DirectReq(c, r) == Served(r) /\ NamesOwn(c, r)
DirectOK(c) ==
    /\ call[c].op \notin {"fsync", "drop"} /\ (call[c].op # "none" => call[c].todo # <<>>)
    /\ \A i \in DOMAIN call[c].todo : DirectReq(c, call[c].todo[i])
    /\ DirectReq(c, conn[c].req)
CallInv == (\A c \in Adapters : ClientOK(c)) /\ (\A c \in Direct : DirectOK(c))

Inv == ServerTypes /\ ClientTypes /\ Disk /\ LoopInv /\ SessionsInv /\ OwnInv /\ CallInv

-----------------------------------------------------------------------------
\* The server can rely on the requests.
LEMMA CallsAreServed ==
    ASSUME CallInv
    PROVE  RequestsInv
<1> SUFFICES ASSUME NEW c \in Clients PROVE Served(conn[c].req) /\ Wrote(c, conn[c].req)
    BY DEF RequestsInv
<1>1. CASE c \in Direct
    BY <1>1 DEF CallInv, DirectOK, DirectReq, Wrote, Adapters
<1>2. CASE conn[c].req.kind \in {"none", "Connect"}
    BY <1>2 DEF Served, Wrote, WroteThere
<1>3. CASE c \in Adapters /\ Real(conn[c].req)
    <2>1. ReqOK(conn[c].req, descs[c], wrote[c]) /\ PosOK(conn[c].req, wrote[c], Steady)
        BY <1>3 DEF CallInv, ClientOK, FlightOK
    <2>2. Served(conn[c].req)
        BY <2>1 DEF ReqOK, Served
    <2>3. ~config.any => Steady = fds
        BY DEF Steady
    <2>4. ~config.any => WroteThere(c, conn[c].req)
        BY <2>1, <2>3 DEF ReqOK, PosOK, WriteAt, WroteThere
    <2> QED BY <2>2, <2>4 DEF Wrote
<1> QED BY <1>1, <1>2, <1>3 DEF Real, Adapters

-----------------------------------------------------------------------------
(***************************************************************************)
(* What keeps requests and streams in order                                *)
(***************************************************************************)

\* Histories and lists of descriptors grow; a descriptor that is released stays so.
Longer(ws, wt) == Len(ws) \in Nat /\ Len(wt) \in Nat /\ Len(wt) >= Len(ws) /\ \A n \in 1 .. Len(ws) : wt[n].at = ws[n].at
Kept(ds, dt) ==
    DOMAIN ds \subseteq DOMAIN dt
    /\ \A h \in DOMAIN ds : dt[h].fd = ds[h].fd /\ (ds[h].state = "released" => dt[h].state = "released")

\* The descriptors of the server keep their paths, or are closed; those that ds
\* knows keep their positions.
SamePaths ==
    /\ nextFd \in Nat /\ nextFd' \in Nat /\ nextFd' >= nextFd
    /\ \A x \in DOMAIN fds' : x < nextFd => x \in DOMAIN fds /\ fds'[x].path = fds[x].path
SamePos(ds, fs, ft) ==
    \A h \in DOMAIN ds : ds[h].fd \in DOMAIN ft => ds[h].fd \in DOMAIN fs /\ ft[ds[h].fd].pos = fs[ds[h].fd].pos

LEMMA ServedKept ==
    ASSUME SamePaths, NEW r, r.fd \in Nat, Served(r)
    PROVE  Served(r)'
BY DEF SamePaths, Served

LEMMA MeantLonger ==
    ASSUME NEW ws, NEW wt, Longer(ws, wt), NEW n, NEW at, Meant(ws, n, at)
    PROVE  Meant(wt, n, at)
BY DEF Longer, Meant

LEMMA WriteAtLonger ==
    ASSUME NEW ws, NEW wt, Longer(ws, wt), NEW r, NEW at, WriteAt(ws, r, at)
    PROVE  WriteAt(wt, r, at)
BY MeantLonger DEF WriteAt

LEMMA ReqKept ==
    ASSUME NEW ds, NEW dt, NEW ws, NEW wt, Longer(ws, wt), Kept(ds, dt), NEW r, ReqOK(r, ds, ws)
    PROVE  ReqOK(r, dt, wt)
<1>1. r.fd # 0 => \E h \in DOMAIN dt : dt[h].fd = r.fd /\ (r.kind = "Close" => dt[h].state = "released")
    BY DEF ReqOK, Kept
<1>2. r.kind \in {"AppendWrite", "Ftruncate"} => \A k \in DOMAIN r.data : Meant(wt, r.data[k], Anywhere)
    BY MeantLonger DEF ReqOK
<1>3. r.kind \notin {"Connect", "OpenAt"} /\ (r.kind = "OpenPath" => r.path \in Paths)
    BY DEF ReqOK
<1> QED BY <1>1, <1>2, <1>3 DEF ReqOK

LEMMA PosKept ==
    ASSUME NEW ds, NEW ws, NEW wt, NEW fs, NEW ft, Longer(ws, wt), SamePos(ds, fs, ft),
           0 \notin DOMAIN ft, NEW r, ReqOK(r, ds, ws), PosOK(r, ws, fs)
    PROVE  PosOK(r, wt, ft)
<1> SUFFICES ASSUME r.kind = "Write", r.fd \in DOMAIN ft PROVE WriteAt(wt, r, ft[r.fd].pos)
    BY DEF PosOK
<1>1. r.fd \in DOMAIN fs /\ ft[r.fd].pos = fs[r.fd].pos
    BY DEF ReqOK, SamePos
<1> QED BY <1>1, WriteAtLonger DEF PosOK

LEMMA TodoKept ==
    ASSUME NEW ds, NEW dt, NEW ws, NEW wt, Longer(ws, wt), Kept(ds, dt), NEW cl, TodoOK(cl, ds, ws)
    PROVE  TodoOK(cl, dt, wt)
<1>1. \A i \in DOMAIN cl.todo : ReqOK(cl.todo[i], dt, wt)
    BY ReqKept DEF TodoOK
<1>2. \A i \in DOMAIN cl.todo : i > 1 /\ cl.todo[i].kind = "Write" => Seeked(cl.todo[i - 1], cl.todo[i], wt)
    BY WriteAtLonger DEF TodoOK, Seeked
<1> QED BY <1>1, <1>2 DEF TodoOK

LEMMA StreamKept ==
    ASSUME NEW ds, NEW ws, NEW wt, Longer(ws, wt), NEW st, StreamOK(st, ds, ws)
    PROVE  StreamOK(st, ds, wt)
BY MeantLonger DEF StreamOK

LEMMA SameLonger ==
    ASSUME ClientTypes, NEW c \in Clients
    PROVE  Longer(wrote[c], wrote[c]) /\ Kept(descs[c], descs[c]) /\ SamePos(descs[c], Steady, Steady)
<1>1. wrote[c] \in Seq(WriteRecords)
    BY DEF ClientTypes
<1>2. Len(wrote[c]) \in Nat
    BY <1>1
<1> QED BY <1>2 DEF Longer, Kept, SamePos
-----------------------------------------------------------------------------
(***************************************************************************)
(* Who knows a descriptor                                                  *)
(***************************************************************************)

LEMMA DescType ==
    ASSUME ClientTypes, NEW c \in Clients, NEW h \in DOMAIN descs[c]
    PROVE  descs[c][h] \in Descriptors /\ descs[c][h].fd \in Nat /\ h \in Nat /\ descs[c] \in Seq(Descriptors)
<1>1. descs[c] \in Seq(Descriptors)
    BY DEF ClientTypes
<1>2. descs[c][h] \in Descriptors /\ h \in Nat
    BY <1>1
<1> QED BY <1>1, <1>2 DEF Descriptors

\* Nothing is offered on a connection with a request.
LEMMA NotOffered ==
    ASSUME LoopInv, NEW c \in Clients, conn[c].req # NoRequest
    PROVE  conn[c].resp = NoResponse
BY DEF LoopInv, Shaken

\* What a client needs it knows, or is offered.
LEMMA NeedsKnown ==
    ASSUME NEW c, NEW fd, Needs(c, fd)
    PROVE  FdKnown(c, fd) \/ FdOffered(c, fd)
BY DEF Needs, FdKnown

\* No client learns of a descriptor.
NoNews ==
    /\ UNCHANGED <<config, descs, link>> /\ nextFd \in Nat /\ nextFd' \in Nat /\ nextFd' >= nextFd
    /\ \A c \in Clients, fd \in Nat : FdOffered(c, fd)' => FdOffered(c, fd)
    /\ \A c \in Clients : Up(c)' => Up(c)

LEMMA KnownKept ==
    ASSUME KnownInv, NoNews
    PROVE  KnownInv'
<1>1. \A c \in Clients, fd \in Nat : FdKnown(c, fd)' = FdKnown(c, fd)
    BY DEF FdKnown, NoNews
<1>2. \A c \in Clients, fd \in Nat : FdKnown(c, fd)' \/ FdOffered(c, fd)' => fd \in 3 .. nextFd' - 1
    BY <1>1 DEF KnownInv, NoNews
<1>3. \A c, e \in Clients, fd \in Nat : c # e /\ (FdKnown(c, fd)' \/ FdOffered(c, fd)') => ~FdKnown(e, fd)' /\ ~FdOffered(e, fd)'
    BY <1>1 DEF KnownInv, NoNews
<1>4. \A c \in Clients, fd \in Nat : FdOffered(c, fd)' => ~FdKnown(c, fd)'
    BY <1>1 DEF KnownInv, NoNews
<1> QED BY <1>2, <1>3, <1>4 DEF KnownInv, NoNews

LEMMA NeedsBefore ==
    ASSUME NoNews, NEW c \in Clients, NEW fd \in Nat, Needs(c, fd)'
    PROVE  Needs(c, fd) /\ (FdKnown(c, fd) \/ FdOffered(c, fd))
<1>1. Needs(c, fd)
    BY DEF NoNews, Needs
<1> QED BY <1>1, NeedsKnown

\* An adapter's descriptors stay apart, and what it needs stays open.
LEMMA OwnKept ==
    ASSUME OwnInv, NoNews,
           \A c \in Adapters, fd \in Nat : (FdKnown(c, fd) \/ FdOffered(c, fd)) /\ Apart(c, fd) => Apart(c, fd)',
           ~config.any => \A c \in Adapters, fd \in Nat : Needs(c, fd) /\ Needs(c, fd)' /\ Held(c, fd) => Held(c, fd)'
    PROVE  OwnInv'
<1>1. KnownInv'
    BY KnownKept DEF OwnInv
<1>2. ApartInv'
    <2> SUFFICES ASSUME NEW c \in Adapters, NEW fd \in Nat, (FdKnown(c, fd) \/ FdOffered(c, fd))'
                 PROVE  Apart(c, fd)'
        BY DEF ApartInv
    <2>1. c \in Clients
        BY DEF Adapters
    <2>2. FdKnown(c, fd) \/ FdOffered(c, fd)
        BY <2>1 DEF NoNews, FdKnown
    <2>3. Apart(c, fd)
        BY <2>2 DEF OwnInv, ApartInv
    <2> QED BY <2>2, <2>3
<1>3. HeldInv'
    <2> SUFFICES ASSUME ~config.any, NEW c \in Adapters, NEW fd \in Nat, Needs(c, fd)'
                 PROVE  Held(c, fd)'
        BY DEF HeldInv, NoNews
    <2>1. Needs(c, fd)
        BY NeedsBefore DEF Adapters
    <2>2. Held(c, fd)
        BY <2>1 DEF OwnInv, HeldInv
    <2> QED BY <2>1, <2>2
<1> QED BY <1>1, <1>2, <1>3 DEF OwnInv

\* When the sessions do not change hands.
LEMMA OwnSame ==
    ASSUME OwnInv, NoNews, UNCHANGED <<sessions, sessionFds, strays>>, DOMAIN fds' = DOMAIN fds
    PROVE  OwnInv'
<1>1. \A c, fd : Apart(c, fd) => Apart(c, fd)'
    BY DEF Apart, OpenedIn
<1>2. \A c, fd : Held(c, fd) => Held(c, fd)'
    BY DEF Held, OpenedIn
<1> QED BY <1>1, <1>2, OwnKept

\* There is nothing in no session, and in a new one.
LEMMA OpenedInNone ==
    ASSUME ServerTypes, SessionsInv
    PROVE  OpenedIn(0) = {} /\ OpenedIn(NewSession) = {}
<1>1. PICK n \in Nat : (\A c \in Clients : sessions[c] <= n) /\ DOMAIN sessionFds \subseteq 1 .. n
    BY DEF SessionsInv
<1>2. 0 \notin DOMAIN sessionFds
    BY <1>1
<1>3. NewSession \notin DOMAIN sessionFds
    <2>1. NewSession \in Nat /\ \A s \in DOMAIN sessionFds : s < NewSession
        BY <1>1, NewSessionIsNew
    <2> HIDE DEF NewSession
    <2> QED BY <2>1
<1> QED BY <1>2, <1>3 DEF OpenedIn

\* An adapter that is served, and does not connect, has a session.
LEMMA ServedHasSession ==
    ASSUME LoopInv, ServerTypes, ClientTypes, NEW c \in Adapters, c \in accepted, Real(conn[c].req)
    PROVE  sessions[c] > 0 /\ sessions[c] \in Nat
<1>1. c \in Clients
    BY DEF Adapters
<1>2. Shaken(c) /\ link[c] \in Nat /\ sessions[c] \in Nat
    BY <1>1 DEF LoopInv, ServerTypes, ClientTypes
<1> QED BY <1>2 DEF Shaken, Real

\* A descriptor that a client closes is not one that an adapter needs.
LEMMA ClosedIsNotNeeded ==
    ASSUME Inv, NEW c \in Clients, conn[c].req.kind = "Close", NEW x, x = conn[c].req.fd, ~config.any,
           NEW a \in Adapters, NEW fd \in Nat, Needs(a, fd)
    PROVE  fd # x
<1>0. a \in Clients /\ (FdKnown(a, fd) \/ FdOffered(a, fd)) /\ fd \in 3 .. nextFd - 1
    <2>1. a \in Clients /\ (FdKnown(a, fd) \/ FdOffered(a, fd))
        BY NeedsKnown DEF Adapters
    <2> QED BY <2>1 DEF Inv, OwnInv, KnownInv
<1>1. x \in Nat /\ conn[c].resp = NoResponse
    BY ReqType, NotOffered, ResponseIs DEF Inv, Req
<1> SUFFICES ASSUME fd = x PROVE FALSE
    OBVIOUS
<1>2. FdKnown(c, fd)
    <2>1. CASE c \in Adapters
        <3>1. ReqOK(conn[c].req, descs[c], wrote[c])
            BY <2>1 DEF Inv, CallInv, ClientOK, FlightOK, Real
        <3> QED BY <1>0, <3>1 DEF ReqOK, FdKnown
    <2>2. CASE c \in Direct
        BY <1>0, <2>2 DEF Inv, CallInv, DirectOK, DirectReq, NamesOwn
    <2> QED BY <2>1, <2>2 DEF Adapters
<1>3. a = c
    BY <1>0, <1>2 DEF Inv, OwnInv, KnownInv
<1>4. ReqOK(conn[c].req, descs[c], wrote[c])
    BY <1>3 DEF Inv, CallInv, ClientOK, FlightOK, Real
<1>5. PICK h \in DOMAIN descs[c] : descs[c][h].fd = fd /\ descs[c][h].state = "released"
    BY <1>0, <1>4 DEF ReqOK
<1>6. \E k \in DOMAIN descs[c] : descs[c][k].fd = fd /\ descs[c][k].state # "released"
    BY <1>1, <1>3, ResponseIs DEF Needs, FdOffered
<1> QED BY <1>5, <1>6 DEF Inv, OwnInv, KnownInv

LEMMA OwnServe ==
    ASSUME Inv, NEW c \in Clients, c \in accepted, NEW resp \in Responses, Effect(c, resp), Reply(c, resp),
           UNCHANGED adapterVars
    PROVE  OwnInv'
<1>0. UNCHANGED <<descs, link, config>> /\ nextFd \in Nat /\ nextFd >= 3
    BY DEF adapterVars, Inv, Disk, FdsOK, Reply
<1>1. /\ conn'[c].state = conn[c].state /\ conn'[c].resp = (IF Up(c) THEN resp ELSE NoResponse)
      /\ \A e \in Clients : e # c => conn'[e] = conn[e]
    BY Replied DEF Inv
<1>2. \A e \in Clients : Up(e)' = Up(e)
    BY <1>1 DEF Up
<1>3. \A e \in Clients, fd \in Nat : e # c => FdOffered(e, fd)' = FdOffered(e, fd)
    BY <1>1 DEF FdOffered
<1>4. ASSUME resp.kind # "Fd", nextFd' = nextFd PROVE NoNews
    <2>1. \A fd \in Nat : ~FdOffered(c, fd)'
        BY <1>1, <1>4, ResponseIs DEF FdOffered
    <2> QED BY <1>0, <1>2, <1>3, <1>4, <2>1 DEF NoNews
<1>5. Shaken(c) /\ link[c] \in Nat
    BY DEF Inv, LoopInv, ClientTypes
<1>6. CASE Connects(c, resp) /\ sessions' = [sessions EXCEPT ![c] = NewSession] /\ strays' = strays \union OpenedIn(sessions[c])
    <2>1. NoNews /\ UNCHANGED <<fds, sessionFds>>
        BY <1>4, <1>6 DEF Connects
    <2>2. sessions'[c] = NewSession /\ \A e \in Clients : e # c => sessions'[e] = sessions[e]
        BY <1>6 DEF Inv, ServerTypes
    <2>3. OpenedIn(sessions[c])' = {}
        BY <2>1, <2>2, OpenedInNone DEF OpenedIn, Inv
    <2>4. \A e \in Clients : e # c => OpenedIn(sessions[e])' = OpenedIn(sessions[e])
        BY <2>1, <2>2 DEF OpenedIn
    <2>5. ASSUME c \in Adapters PROVE OpenedIn(sessions[c]) = {} /\ \A fd \in Nat : ~Needs(c, fd)
        <3>1. sessions[c] = 0 /\ link[c] = 0 /\ conn[c].resp = NoResponse
            BY <1>5, <1>6, <2>5 DEF Connects, Shaken, Req
        <3>2. descs[c] = <<>>
            BY <3>1 DEF Inv, OwnInv, KnownInv
        <3> QED BY <3>1, <3>2, OpenedInNone, ResponseIs DEF Inv, Needs, FdOffered
    <2>6. \A a \in Adapters, fd \in Nat : Apart(a, fd) => Apart(a, fd)'
        BY <1>6, <2>3, <2>4, <2>5 DEF Apart
    <2>7. \A a \in Adapters, fd \in Nat : Needs(a, fd) /\ Held(a, fd) => Held(a, fd)'
        BY <2>1, <2>4, <2>5 DEF Held, Adapters
    <2> QED BY <2>1, <2>6, <2>7, OwnKept DEF Inv
<1>7. CASE Connects(c, resp) /\ UNCHANGED <<sessions, strays>>
    <2>1. NoNews /\ UNCHANGED <<fds, sessionFds>>
        BY <1>4, <1>7 DEF Connects
    <2> QED BY <1>7, <2>1, OwnSame DEF Inv
<1>8. CASE Moves(c, resp)
    BY <1>4, <1>8, OwnSame DEF Moves, SameWriters, Inv
<1>9. CASE Closes(c, resp)
    <2>1. PICK x : x = conn[c].req.fd /\ conn[c].req.kind = "Close"
        BY <1>9 DEF Closes, Req
    <2>2. /\ UNCHANGED <<nextFd, sessions, strays>> /\ DOMAIN fds' = DOMAIN fds \ {x}
          /\ DOMAIN sessionFds' = DOMAIN sessionFds /\ \A s \in DOMAIN sessionFds : sessionFds'[s] = sessionFds[s] \ {x}
        BY <1>9, <2>1 DEF Closes, Req
    <2>3. NoNews
        BY <1>4, <1>9 DEF Closes
    <2>4. \A a \in Adapters, fd \in Nat : Apart(a, fd) => Apart(a, fd)'
        BY <2>2 DEF Apart, OpenedIn
    <2>5. \A a \in Adapters, fd \in Nat : fd # x /\ Held(a, fd) => Held(a, fd)'
        BY <2>2 DEF Held, OpenedIn
    <2>6. ~config.any => \A a \in Adapters, fd \in Nat : Needs(a, fd) => fd # x
        BY <2>1, ClosedIsNotNeeded
    <2> QED BY <2>3, <2>4, <2>5, <2>6, OwnKept DEF Inv
<1>10. CASE Opened(c, resp)
    <2>1. PICK x, s : x = nextFd /\ s = sessions[c] /\ s \in Nat
        BY DEF Inv, ServerTypes
    <2>2. /\ UNCHANGED sessions /\ nextFd' = nextFd + 1 /\ DOMAIN fds' = DOMAIN fds \union {x} /\ x \in Nat
          /\ Real(conn[c].req) /\ RegisterFd(c, x)
        BY <1>0, <1>10, <2>1 DEF Opened, Real, Req
    <2>3. /\ \A r : r # s => OpenedIn(r)' = OpenedIn(r)
          /\ s = 0 => strays' = strays \union {x} /\ OpenedIn(s)' = OpenedIn(s)
          /\ s > 0 => strays' = strays /\ OpenedIn(s)' = OpenedIn(s) \union {x}
        BY <2>1, <2>2 DEF RegisterFd, OpenedIn, With
    <2>4. \A e \in Clients : e # c => OpenedIn(sessions[e])' = OpenedIn(sessions[e])
        <3>1. \A e \in Clients : e # c /\ sessions[e] = s => s = 0
            BY <2>1 DEF Inv, SessionsInv, ServerTypes
        <3> QED BY <2>1, <2>2, <2>3, <3>1
    <2>5. x \notin strays /\ \A e \in Clients : x \notin OpenedIn(sessions[e])
        <3>1. x \notin 3 .. nextFd - 1
            BY <1>0, <2>1
        <3> QED BY <3>1 DEF Inv, SessionsInv, OpenedIn
    <2>6. c \in Adapters => s > 0
        BY <2>1, <2>2, ServedHasSession DEF Inv
    <2>7. \A fd \in Nat : FdOffered(c, fd)' => fd = x
        BY <1>1, <1>10, <2>1, ResponseIs DEF FdOffered, Opened
    <2>8. /\ \A e \in Clients, fd \in Nat : FdKnown(e, fd) \/ FdOffered(e, fd) => fd \in 3 .. nextFd - 1
          /\ \A e, d \in Clients, fd \in Nat :
                e # d /\ (FdKnown(e, fd) \/ FdOffered(e, fd)) => ~FdKnown(d, fd) /\ ~FdOffered(d, fd)
          /\ \A e \in Clients, fd \in Nat : FdOffered(e, fd) => ~FdKnown(e, fd)
        BY DEF Inv, OwnInv, KnownInv
    <2>9. \A e \in Clients : ~FdKnown(e, x) /\ ~FdOffered(e, x)
        BY <2>1, <2>2, <2>8
    <2>10. \A e \in Clients, fd \in Nat : FdKnown(e, fd)' = FdKnown(e, fd)
        BY <1>0 DEF FdKnown
    <2>11. KnownInv'
        <3>1. \A e \in Clients, fd \in Nat : FdKnown(e, fd)' \/ FdOffered(e, fd)' => fd \in 3 .. nextFd' - 1
            BY <1>0, <1>3, <2>1, <2>2, <2>7, <2>8, <2>10
        <3>2. \A e, d \in Clients, fd \in Nat :
                  e # d /\ (FdKnown(e, fd)' \/ FdOffered(e, fd)') => ~FdKnown(d, fd)' /\ ~FdOffered(d, fd)'
            BY <1>3, <2>7, <2>8, <2>9, <2>10
        <3>3. \A e \in Clients, fd \in Nat : FdOffered(e, fd)' => ~FdKnown(e, fd)'
            BY <1>3, <2>7, <2>8, <2>9, <2>10
        <3>4. \A e \in Clients : (descs[e] # <<>> => link[e] > 0)'
            BY <1>0 DEF Inv, OwnInv, KnownInv
        <3>5. \A e \in Clients : (\A h, k \in DOMAIN descs[e] : descs[e][h].fd = descs[e][k].fd => h = k)'
            BY <1>0 DEF Inv, OwnInv, KnownInv
        <3> QED BY <3>1, <3>2, <3>3, <3>4, <3>5 DEF KnownInv
    <2>12. ApartInv'
        <3> SUFFICES ASSUME NEW a \in Adapters, NEW fd \in Nat, (FdKnown(a, fd) \/ FdOffered(a, fd))'
                     PROVE  Apart(a, fd)'
            BY DEF ApartInv
        <3>0. a \in Clients
            BY DEF Adapters
        <3>1. CASE fd = x
            <4>1. a = c
                BY <1>3, <2>9, <2>10, <3>0, <3>1
            <4> QED BY <2>2, <2>3, <2>4, <2>5, <2>6, <3>1, <4>1 DEF Apart
        <3>2. CASE fd # x
            <4>1. FdKnown(a, fd) \/ FdOffered(a, fd)
                BY <1>3, <2>7, <2>10, <3>0, <3>2
            <4>2. Apart(a, fd)
                BY <4>1 DEF Inv, OwnInv, ApartInv
            <4>3. \A e \in Clients : OpenedIn(sessions[e])' \subseteq OpenedIn(sessions[e]) \union {x}
                BY <2>1, <2>2, <2>3, <2>4
            <4>4. strays' \subseteq strays \union {x}
                BY <2>1, <2>3
            <4> QED BY <2>2, <3>2, <4>2, <4>3, <4>4 DEF Apart
        <3> QED BY <3>1, <3>2
    <2>13. HeldInv'
        <3> SUFFICES ASSUME ~config.any, NEW a \in Adapters, NEW fd \in Nat, Needs(a, fd)'
                     PROVE  Held(a, fd)'
            BY <1>0 DEF HeldInv
        <3>0. a \in Clients /\ (FdKnown(a, fd)' \/ FdOffered(a, fd)')
            BY DEF Adapters, Needs, FdKnown
        <3>1. CASE fd = x
            <4>1. a = c
                BY <1>3, <2>9, <2>10, <3>0, <3>1
            <4> QED BY <2>1, <2>2, <2>3, <2>6, <3>1, <4>1 DEF Held
        <3>2. CASE fd # x
            <4>1. Needs(a, fd)
                BY <1>0, <1>2, <1>3, <2>7, <3>0, <3>2 DEF Needs
            <4>2. Held(a, fd)
                BY <4>1 DEF Inv, OwnInv, HeldInv
            <4>3. OpenedIn(sessions[a]) \subseteq OpenedIn(sessions[a])'
                BY <2>1, <2>2, <2>3, <3>0
            <4> QED BY <2>2, <4>2, <4>3 DEF Held
        <3> QED BY <3>1, <3>2
    <2> QED BY <2>11, <2>12, <2>13 DEF OwnInv
<1> QED BY <1>6, <1>7, <1>8, <1>9, <1>10 DEF Effect, Connects

\* A client that the server does not list needs nothing, and neither does one
\* that is cut off.
LEMMA OwnNothing ==
    ASSUME Inv, NEW c \in Clients, (Linked(c) /\ c \notin accepted) \/ conn[c].state = "down"
    PROVE  \A fd \in Nat : ~Needs(c, fd)
<1>1. Shaken(c) /\ link[c] \in Nat /\ (descs[c] # <<>> => link[c] > 0)
    BY DEF Inv, LoopInv, ClientTypes, OwnInv, KnownInv
<1> QED BY <1>1 DEF Shaken, FdOffered, Up, Linked, Needs

\* The connection of such a client has no session any more.
LEMMA OwnNoSession ==
    ASSUME Inv, NoNews, NEW c \in Clients, \A fd \in Nat : ~Needs(c, fd), sessions' = [sessions EXCEPT ![c] = 0],
           UNCHANGED <<fds, sessionFds, strays>>
    PROVE  OwnInv'
<1>1. sessions'[c] = 0 /\ \A e \in Clients : e # c => sessions'[e] = sessions[e]
    BY DEF Inv, ServerTypes
<1>2. \A e \in Clients : OpenedIn(sessions[e])' = IF e = c THEN {} ELSE OpenedIn(sessions[e])
    BY <1>1, OpenedInNone DEF OpenedIn, Inv
<1>3. \A a \in Adapters, fd \in Nat : Apart(a, fd) => Apart(a, fd)'
    BY <1>2 DEF Apart
<1>4. \A a \in Adapters, fd \in Nat : Needs(a, fd) /\ Held(a, fd) => Held(a, fd)'
    BY <1>2 DEF Held, Adapters
<1> QED BY <1>3, <1>4, OwnKept DEF Inv

LEMMA OwnAccept ==
    ASSUME Inv, NEW c \in Clients, Accept(c), UNCHANGED adapterVars
    PROVE  OwnInv'
<1>1. /\ c \notin accepted /\ Linked(c) /\ sessions' = [sessions EXCEPT ![c] = 0]
      /\ UNCHANGED <<config, fds, nextFd, sessionFds, strays, conn, descs, link>>
    BY DEF Accept, Linked, fsVars, tableVars, adapterVars
<1>2. nextFd \in Nat
    BY DEF Inv, Disk, FdsOK
<1>3. NoNews
    BY <1>1, <1>2 DEF NoNews, FdOffered, Up
<1> QED BY <1>1, <1>3, OwnNothing, OwnNoSession

LEMMA OwnLeave ==
    ASSUME Inv, NEW c \in Clients, Leave(c), UNCHANGED adapterVars
    PROVE  OwnInv'
<1>1. /\ conn[c].state = "down" /\ sessions' = [sessions EXCEPT ![c] = 0]
      /\ UNCHANGED <<config, fds, nextFd, sessionFds, strays, descs, link>>
    BY DEF Leave, fsVars, tableVars, adapterVars, Inv, LoopInv
<1>2. ConnNow(c, "gone", conn[c].req, conn[c].resp)
    BY LeftNow DEF Inv
<1>3. nextFd \in Nat
    BY DEF Inv, Disk, FdsOK
<1>4. NoNews
    BY <1>1, <1>2, <1>3 DEF NoNews, FdOffered, Up, ConnNow
<1> QED BY <1>1, <1>4, OwnNothing, OwnNoSession

LEMMA OwnCloseSession ==
    ASSUME Inv, NEW c \in Clients, CloseSession(c), UNCHANGED adapterVars
    PROVE  OwnInv'
<1>1. /\ conn[c].state = "down" /\ UNCHANGED <<config, sessions, conn, descs, link>>
    BY DEF CloseSession, Inv, LoopInv, adapterVars
<1>2. nextFd \in Nat /\ \A fd \in Nat : ~Needs(c, fd)
    BY <1>1, OwnNothing DEF Inv, Disk, FdsOK
<1>3. ASSUME nextFd' = nextFd PROVE NoNews
    BY <1>1, <1>2, <1>3 DEF NoNews, FdOffered, Up
<1>4. CASE \E fd \in OpenedIn(sessions[c]), ok \in S3Answers : CloseFd(fd, ok)
    <2>1. PICK x \in OpenedIn(sessions[c]) : FdClosed(x)
        BY <1>4, CloseFdIs
    <2>2. /\ UNCHANGED <<nextFd, strays>> /\ DOMAIN fds' = DOMAIN fds \ {x}
          /\ DOMAIN sessionFds' = DOMAIN sessionFds /\ \A s \in DOMAIN sessionFds : sessionFds'[s] = sessionFds[s] \ {x}
        BY <2>1 DEF FdClosed
    <2>3. \A a \in Adapters, fd \in Nat : Apart(a, fd) => Apart(a, fd)'
        BY <1>1, <2>2 DEF Apart, OpenedIn
    <2>4. ASSUME NEW a \in Adapters, NEW fd \in Nat, Needs(a, fd), Held(a, fd) PROVE Held(a, fd)'
        <3>1. a # c
            BY <1>2, <2>4
        <3>2. Apart(a, fd)
            BY <2>4, NeedsKnown DEF Inv, OwnInv, ApartInv
        <3>3. fd # x
            BY <2>1, <3>1, <3>2 DEF Apart
        <3> QED BY <1>1, <2>2, <2>4, <3>3 DEF Held, OpenedIn
    <2> QED BY <1>3, <2>2, <2>3, <2>4, OwnKept DEF Inv
<1>5. CASE OpenedIn(sessions[c]) = {} /\ sessionFds' = Without(sessionFds, {sessions[c]}) /\ UNCHANGED <<fsVars, strays>>
    <2>1. /\ DOMAIN sessionFds' = DOMAIN sessionFds \ {sessions[c]}
          /\ \A s \in DOMAIN sessionFds' : sessionFds'[s] = sessionFds[s]
          /\ UNCHANGED <<fds, nextFd, strays>>
        BY <1>5 DEF Without, fsVars
    <2>2. \A a \in Adapters, fd \in Nat : Apart(a, fd) => Apart(a, fd)'
        BY <1>1, <2>1 DEF Apart, OpenedIn
    <2>3. \A a \in Adapters, fd \in Nat : Held(a, fd) => Held(a, fd)'
        BY <1>1, <1>5, <2>1 DEF Held, OpenedIn
    <2> QED BY <1>3, <2>1, <2>2, <2>3, OwnKept DEF Inv
<1> QED BY <1>4, <1>5 DEF CloseSession

\* A client changes the state of its descriptors, or its connection.
LEMMA OwnClient ==
    ASSUME Inv, NEW c \in Clients, UNCHANGED <<config, fds, nextFd, sessions, sessionFds, strays>>,
           \A e \in Clients : e # c => conn'[e] = conn[e] /\ descs'[e] = descs[e] /\ link'[e] = link[e],
           conn'[c].resp.kind # "Fd" \/ conn'[c].resp = conn[c].resp,
           DOMAIN descs'[c] = DOMAIN descs[c], \A h \in DOMAIN descs[c] : descs'[c][h].fd = descs[c][h].fd,
           \A h \in DOMAIN descs[c] : descs[c][h].state = "released" => descs'[c][h].state = "released",
           Up(c)' => Up(c) \/ descs[c] = <<>>,
           link'[c] = link[c] \/ link'[c] > 0, descs[c] = <<>> => descs'[c] = <<>>
    PROVE  OwnInv'
<1>1. \A e \in Clients, fd \in Nat : Held(e, fd)' = Held(e, fd) /\ Apart(e, fd)' = Apart(e, fd)
    BY DEF Held, Apart, OpenedIn
<1>2. \A e \in Clients, fd \in Nat : FdKnown(e, fd)' = FdKnown(e, fd)
    BY DEF FdKnown
<1>3. \A e \in Clients, fd \in Nat : FdOffered(e, fd)' => FdOffered(e, fd)
    BY DEF FdOffered
<1>4. KnownInv'
    <2>1. \A e \in Clients : (descs[e] # <<>> => link[e] > 0)'
        BY DEF Inv, OwnInv, KnownInv
    <2>2. \A e \in Clients : (\A h, k \in DOMAIN descs[e] : descs[e][h].fd = descs[e][k].fd => h = k)'
        BY DEF Inv, OwnInv, KnownInv
    <2>3. \A e \in Clients, fd \in Nat : FdKnown(e, fd)' \/ FdOffered(e, fd)' => fd \in 3 .. nextFd' - 1
        BY <1>2, <1>3 DEF Inv, OwnInv, KnownInv
    <2>4. \A e, d \in Clients, fd \in Nat : e # d /\ (FdKnown(e, fd)' \/ FdOffered(e, fd)') => ~FdKnown(d, fd)' /\ ~FdOffered(d, fd)'
        BY <1>2, <1>3 DEF Inv, OwnInv, KnownInv
    <2>5. \A e \in Clients, fd \in Nat : FdOffered(e, fd)' => ~FdKnown(e, fd)'
        BY <1>2, <1>3 DEF Inv, OwnInv, KnownInv
    <2> QED BY <2>1, <2>2, <2>3, <2>4, <2>5 DEF KnownInv
<1>5. ApartInv'
    <2>1. \A e \in Adapters, fd \in Nat : FdKnown(e, fd)' \/ FdOffered(e, fd)' => Apart(e, fd)'
        BY <1>1, <1>2, <1>3 DEF Inv, OwnInv, ApartInv, Adapters
    <2> QED BY <2>1 DEF ApartInv
<1>6. \A e \in Clients, fd \in Nat : Needs(e, fd)' => Needs(e, fd)
    <2> SUFFICES ASSUME NEW e \in Clients, NEW fd \in Nat, Needs(e, fd)', ~FdOffered(e, fd)'
                 PROVE  Needs(e, fd)
        BY <1>3 DEF Needs
    <2>1. PICK h \in DOMAIN descs'[e] : descs'[e][h].fd = fd /\ descs'[e][h].state # "released" /\ Up(e)'
        BY DEF Needs
    <2>2. h \in DOMAIN descs[e] /\ descs[e][h].fd = fd /\ descs[e][h].state # "released"
        BY <2>1
    <2>3. Up(e)
        BY <2>1, <2>2 DEF Up
    <2> QED BY <2>2, <2>3 DEF Needs
<1>7. HeldInv'
    <2>1. ~config.any => \A e \in Adapters, fd \in Nat : Needs(e, fd)' => Held(e, fd)'
        BY <1>1, <1>6 DEF Inv, OwnInv, HeldInv, Adapters
    <2> QED BY <2>1 DEF HeldInv
<1> QED BY <1>4, <1>5, <1>7 DEF OwnInv

\* allocate_descriptor: what was offered is known.
LEMMA OwnReceive ==
    ASSUME Inv, NEW c \in Clients, NEW x \in Nat, FdOffered(c, x),
           UNCHANGED <<config, fds, nextFd, sessions, sessionFds, strays, link>>,
           \A e \in Clients : e # c => conn'[e] = conn[e] /\ descs'[e] = descs[e],
           ConnNow(c, conn[c].state, conn[c].req, NoResponse),
           NEW d, d.fd = x, descs'[c] = Append(descs[c], d)
    PROVE  OwnInv'
<1>0. descs[c] \in Seq(Descriptors) /\ Shaken(c)
    BY DEF Inv, ClientTypes, LoopInv
<1>1. \A e \in Clients, fd \in Nat : Held(e, fd)' = Held(e, fd) /\ Apart(e, fd)' = Apart(e, fd)
    BY DEF Held, Apart, OpenedIn
<1>2. PICK m : m = Len(descs[c]) /\ m \in Nat
    BY <1>0
<1>3. /\ DOMAIN descs'[c] = DOMAIN descs[c] \union {m + 1} /\ DOMAIN descs[c] = 1 .. m
      /\ descs'[c][m + 1] = d /\ \A h \in DOMAIN descs[c] : descs'[c][h] = descs[c][h]
    BY <1>0, <1>2
<1>4. \A fd \in Nat : FdKnown(c, fd)' = (FdKnown(c, fd) \/ fd = x)
    BY <1>3 DEF FdKnown
<1>5. \A e \in Clients, fd \in Nat : e # c => FdKnown(e, fd)' = FdKnown(e, fd)
    BY DEF FdKnown
<1>6. \A e \in Clients, fd \in Nat : FdOffered(e, fd)' => e # c /\ FdOffered(e, fd)
    BY ResponseIs DEF FdOffered, ConnNow
<1>7. /\ \A e \in Clients, fd \in Nat : FdKnown(e, fd) \/ FdOffered(e, fd) => fd \in 3 .. nextFd - 1
      /\ \A e, f \in Clients, fd \in Nat :
            e # f /\ (FdKnown(e, fd) \/ FdOffered(e, fd)) => ~FdKnown(f, fd) /\ ~FdOffered(f, fd)
      /\ \A e \in Clients, fd \in Nat : FdOffered(e, fd) => ~FdKnown(e, fd)
      /\ \A e \in Clients : \A h, k \in DOMAIN descs[e] : descs[e][h].fd = descs[e][k].fd => h = k
      /\ \A e \in Clients : descs[e] # <<>> => link[e] > 0
    BY DEF Inv, OwnInv, KnownInv
<1>8. \A e \in Clients, fd \in Nat : FdKnown(e, fd)' \/ FdOffered(e, fd)' => FdKnown(e, fd) \/ FdOffered(e, fd)
    BY <1>4, <1>5, <1>6
<1>9. KnownInv'
    <2>1. \A e \in Clients : (descs[e] # <<>> => link[e] > 0)'
        <3>1. link[c] > 0
            BY <1>0 DEF Shaken, FdOffered
        <3> QED BY <1>7, <3>1
    <2>2. \A e \in Clients : (\A h, k \in DOMAIN descs[e] : descs[e][h].fd = descs[e][k].fd => h = k)'
        <3>1. \A h \in DOMAIN descs[c] : descs[c][h].fd # x
            BY <1>7 DEF FdKnown
        <3>2. \A h, k \in DOMAIN descs'[c] : descs'[c][h].fd = descs'[c][k].fd => h = k
            BY <1>3, <1>7, <3>1
        <3> QED BY <1>7, <3>2
    <2>3. \A e \in Clients, fd \in Nat : FdKnown(e, fd)' \/ FdOffered(e, fd)' => fd \in 3 .. nextFd' - 1
        BY <1>7, <1>8
    <2>4. \A e, f \in Clients, fd \in Nat : e # f /\ (FdKnown(e, fd)' \/ FdOffered(e, fd)') => ~FdKnown(f, fd)' /\ ~FdOffered(f, fd)'
        BY <1>7, <1>8
    <2>5. \A e \in Clients, fd \in Nat : FdOffered(e, fd)' => ~FdKnown(e, fd)'
        BY <1>5, <1>6, <1>7
    <2> QED BY <2>1, <2>2, <2>3, <2>4, <2>5 DEF KnownInv
<1>10. ApartInv'
    <2>1. \A e \in Adapters, fd \in Nat : FdKnown(e, fd)' \/ FdOffered(e, fd)' => Apart(e, fd)'
        BY <1>1, <1>8 DEF Inv, OwnInv, ApartInv, Adapters
    <2> QED BY <2>1 DEF ApartInv
<1>11. \A e \in Clients, fd \in Nat : Needs(e, fd)' => Needs(e, fd)
    <2> SUFFICES ASSUME NEW e \in Clients, NEW fd \in Nat, Needs(e, fd)', ~FdOffered(e, fd)'
                 PROVE  Needs(e, fd)
        BY <1>6 DEF Needs
    <2>1. PICK h \in DOMAIN descs'[e] : descs'[e][h].fd = fd /\ descs'[e][h].state # "released" /\ Up(e)'
        BY DEF Needs
    <2>2. Up(e)
        BY <2>1 DEF Up, ConnNow
    <2>3. CASE h \in DOMAIN descs[e]
        <3>1. descs[e][h] = descs'[e][h]
            BY <1>3, <2>3
        <3> QED BY <2>1, <2>2, <2>3, <3>1 DEF Needs
    <2>4. CASE h \notin DOMAIN descs[e]
        <3>1. e = c /\ fd = x
            BY <1>3, <2>1, <2>4
        <3> QED BY <3>1 DEF Needs
    <2> QED BY <2>3, <2>4
<1>12. HeldInv'
    <2>1. ~config.any => \A e \in Adapters, fd \in Nat : Needs(e, fd)' => Held(e, fd)'
        BY <1>1, <1>11 DEF Inv, OwnInv, HeldInv, Adapters
    <2> QED BY <2>1 DEF HeldInv
<1> QED BY <1>9, <1>10, <1>12 DEF OwnInv
-----------------------------------------------------------------------------
(***************************************************************************)
(* Steps of the server, and the calls of its clients                       *)
(***************************************************************************)

LEMMA NoFdZero ==
    ASSUME Disk
    PROVE  0 \notin DOMAIN fds /\ 0 \notin DOMAIN Steady
BY DEF Disk, FdsOK, Steady

LEMMA FlightKept ==
    ASSUME NEW ds, NEW ws, NEW wt, NEW dt, NEW fs, NEW ft, Longer(ws, wt), Kept(ds, dt),
           SamePos(ds, fs, ft), 0 \notin DOMAIN ft,
           NEW k, NEW cl, NEW v, cl.todo # <<>> => 1 \in DOMAIN cl.todo,
           TodoOK(cl, ds, ws), FlightOK(k, cl, v, ds, ws, fs)
    PROVE  FlightOK(k, cl, v, dt, wt, ft)
<1>1. k.state = "up" /\ k.resp = NoResponse /\ cl.todo # <<>> => PosOK(cl.todo[1], wt, ft)
    BY PosKept DEF FlightOK, TodoOK
<1>2. k.state = "up" /\ k.resp.kind = "Ok" /\ cl.todo # <<>> /\ cl.todo[1].kind = "Seek" /\ cl.todo[1].fd \in DOMAIN ft =>
         ft[cl.todo[1].fd].pos = cl.todo[1].at
    BY DEF FlightOK, TodoOK, ReqOK, SamePos
<1>3. Real(k.req) => ReqOK(k.req, dt, wt) /\ PosOK(k.req, wt, ft)
    BY ReqKept, PosKept DEF FlightOK
<1> QED BY <1>1, <1>2, <1>3 DEF FlightOK

LEMMA CallType ==
    ASSUME ClientTypes, NEW c \in Clients
    PROVE  /\ call[c] \in CallRecords /\ call[c].todo \in Seq(Calls) /\ call[c].h \in Nat /\ call[c].s \in Nat
           /\ call[c].retries \in Nat
           /\ call[c].todo # <<>> => 1 \in DOMAIN call[c].todo /\ Head(call[c].todo) = call[c].todo[1]
           /\ call[c].op \in {"none", "open", "call", "fsync", "drop", "close"}
           /\ \A i \in DOMAIN call[c].todo : call[c].todo[i].fd \in Nat
<1>1. call[c] \in CallRecords
    BY DEF ClientTypes
<1>2. /\ call[c].todo \in Seq(Calls) /\ call[c].h \in Nat /\ call[c].s \in Nat /\ call[c].retries \in Nat
      /\ call[c].op \in {"none", "open", "call", "fsync", "drop", "close"}
    BY <1>1 DEF CallRecords
<1>3. call[c].todo # <<>> => 1 \in DOMAIN call[c].todo /\ Head(call[c].todo) = call[c].todo[1]
    BY <1>2
<1>4. \A i \in DOMAIN call[c].todo : call[c].todo[i].fd \in Nat
    BY <1>2 DEF Calls, Requests
<1> QED BY <1>1, <1>2, <1>3, <1>4

\* The client does nothing, and its positions stay.
LEMMA CallSteady ==
    ASSUME Inv, Disk', UNCHANGED adapterVars, NEW e \in Adapters,
           \/ SamePos(descs[e], Steady, Steady') /\ conn'[e] = conn[e]
           \/ FlightOK(conn'[e], call[e], link[e], descs[e], wrote[e], Steady')
    PROVE  ClientOK(e)'
<1>0. e \in Clients
    BY DEF Adapters
<1>1. 0 \notin DOMAIN Steady'
    BY DEF Disk, FdsOK, Steady
<1>2. ClientOK(e) /\ Longer(wrote[e], wrote[e]) /\ Kept(descs[e], descs[e])
    BY <1>0, SameLonger DEF Inv, CallInv
<1>3. UNCHANGED <<call, descs, wrote, link, streams>>
    BY DEF adapterVars
<1>4. FlightOK(conn'[e], call[e], link[e], descs[e], wrote[e], Steady')
    <2>1. CASE SamePos(descs[e], Steady, Steady') /\ conn'[e] = conn[e]
        <3>1. call[e].todo # <<>> => 1 \in DOMAIN call[e].todo
            BY <1>0, CallType DEF Inv
        <3>2. PICK ft : ft = Steady'
            OBVIOUS
        <3>3. FlightOK(conn[e], call[e], link[e], descs[e], wrote[e], ft)
            BY <1>1, <1>2, <2>1, <3>1, <3>2, FlightKept DEF ClientOK
        <3> QED BY <2>1, <3>2, <3>3
    <2> QED BY <2>1
<1> QED BY <1>2, <1>3, <1>4 DEF ClientOK

\* The requests of a direct client stay what they are, or are done.
LEMMA DirectSteady ==
    ASSUME Inv, SamePaths, UNCHANGED <<adapterVars, config>>, NEW e \in Direct, conn'[e].req \in {conn[e].req, NoRequest}
    PROVE  DirectOK(e)'
<1>0. e \in Clients /\ UNCHANGED <<call, descs>> /\ DirectOK(e)
    BY ServerAssumption DEF adapterVars, Inv, CallInv
<1>1. ASSUME NEW r, r.fd \in Nat, DirectReq(e, r) PROVE DirectReq(e, r)'
    BY <1>0, <1>1, ServedKept DEF DirectReq, NamesOwn, FdKnown
<1>2. ASSUME NEW i \in DOMAIN call[e].todo PROVE DirectReq(e, call[e].todo[i])'
    <2>1. PICK r : r = call[e].todo[i] /\ r.fd \in Nat /\ DirectReq(e, r)
        BY <1>0, CallType DEF Inv, DirectOK
    <2>2. DirectReq(e, r)' /\ call'[e].todo[i] = r
        BY <1>0, <1>1, <2>1
    <2> QED BY <2>2 DEF DirectReq, NamesOwn, Served, FdKnown
<1>3. DirectReq(e, conn[e].req)'
    <2>1. CASE conn'[e].req = NoRequest
        BY <2>1, ResponseIs DEF DirectReq, NamesOwn, Served
    <2>2. CASE conn'[e].req = conn[e].req
        <3>1. PICK r : r = conn[e].req /\ r.fd \in Nat /\ DirectReq(e, r)
            BY <1>0, ReqType DEF Inv, DirectOK, Req
        <3>2. DirectReq(e, r)' /\ conn'[e].req = r
            BY <1>1, <2>2, <3>1
        <3> QED BY <3>2 DEF DirectReq, NamesOwn, Served, FdKnown
    <2> QED BY <2>1, <2>2
<1> QED BY <1>0, <1>2, <1>3 DEF DirectOK

LEMMA CallServe ==
    ASSUME Inv, Disk', NEW c \in Clients, c \in accepted, NEW resp \in Responses, Effect(c, resp), Reply(c, resp),
           UNCHANGED adapterVars
    PROVE  CallInv'
<1>0. /\ conn'[c].state = conn[c].state /\ conn'[c].req = NoRequest
      /\ conn'[c].resp = (IF Up(c) THEN resp ELSE NoResponse)
      /\ \A e \in Clients : e # c => conn'[e] = conn[e]
    BY Replied DEF Inv
<1>1. /\ nextFd \in Nat /\ nextFd' \in Nat /\ UNCHANGED config
      /\ \A e \in Clients : \A h \in DOMAIN descs[e] : descs[e][h].fd \in Nat /\ FdKnown(e, descs[e][h].fd) /\ descs[e][h].fd # nextFd
    <2>1. nextFd \in Nat /\ nextFd' \in Nat /\ UNCHANGED config
        BY DEF Inv, Disk, FdsOK, Reply
    <2>2. ASSUME NEW e \in Clients, NEW h \in DOMAIN descs[e], NEW fd, fd = descs[e][h].fd
          PROVE  fd \in Nat /\ FdKnown(e, fd) /\ fd # nextFd
        <3>1. fd \in Nat /\ FdKnown(e, fd)
            BY <2>2, DescType DEF Inv, FdKnown
        <3> QED BY <2>1, <3>1 DEF Inv, OwnInv, KnownInv
    <2> QED BY <2>1, <2>2
<1>2. SamePaths
    <2>1. ASSUME NEW x \in DOMAIN fds', x # nextFd PROVE x \in DOMAIN fds /\ fds'[x].path = fds[x].path
        BY <2>1 DEF Effect, Connects, Opened, Closes, Moves, SameWriters
    <2>2. nextFd' >= nextFd
        BY <1>1 DEF Effect, Connects, Opened, Closes, Moves
    <2> QED BY <1>1, <2>1, <2>2 DEF SamePaths
<1>3. ASSUME NEW e \in Adapters, e # c PROVE SamePos(descs[e], Steady, Steady')
    <2>0. e \in Clients
        BY DEF Adapters
    <2>1. CASE config.any
        BY <1>1, <2>1 DEF SamePos, Steady
    <2>2. CASE ~config.any
        <3>0. Steady = fds /\ Steady' = fds'
            BY <1>1, <2>2 DEF Steady
        <3>1. Req(c).fd # 0 /\ Real(conn[c].req) => FdKnown(c, Req(c).fd)
            BY <2>2 DEF Inv, CallInv, ClientOK, FlightOK, ReqOK, FdKnown, Req, DirectOK, DirectReq, NamesOwn, Adapters
        <3>2. ASSUME NEW h \in DOMAIN descs[e], NEW fd, fd = descs[e][h].fd, fd \in DOMAIN fds'
              PROVE  fd \in DOMAIN fds /\ fds'[fd] = fds[fd]
            <4>1. fd \in Nat /\ FdKnown(e, fd) /\ fd # nextFd
                BY <1>1, <2>0, <3>2
            <4>2. CASE Connects(c, resp) \/ Opened(c, resp) \/ Closes(c, resp)
                BY <3>2, <4>1, <4>2 DEF Connects, Opened, Closes
            <4>3. CASE Moves(c, resp)
                <5>1. Real(conn[c].req)
                    BY <4>3 DEF Moves, Real, Req
                <5>2. fd # 0
                    BY <2>0, <4>1 DEF Inv, OwnInv, KnownInv
                <5>3. fd # Req(c).fd
                    <6>1. PICK x : x = Req(c).fd /\ x \in Nat
                        BY ReqType DEF Inv
                    <6> QED BY <1>3, <2>0, <3>1, <4>1, <5>1, <5>2, <6>1 DEF Inv, OwnInv, KnownInv
                <5> QED BY <3>2, <4>3, <5>3 DEF Moves, SameWriters
            <4> QED BY <4>2, <4>3 DEF Effect
        <3> QED BY <3>0, <3>2 DEF SamePos
    <2> QED BY <2>1, <2>2
<1>4. ASSUME NEW e \in Adapters, e # c PROVE ClientOK(e)'
    <2>1. conn'[e] = conn[e]
        BY <1>0, <1>4 DEF Adapters
    <2> QED BY <1>3, <1>4, <2>1, CallSteady
<1>5. ASSUME c \in Adapters PROVE ClientOK(c)'
    <2>1. FlightOK(conn[c], call[c], link[c], descs[c], wrote[c], Steady) /\ TodoOK(call[c], descs[c], wrote[c])
        BY <1>5 DEF Inv, CallInv, ClientOK
    <2>2. conn[c].req # NoRequest /\ resp # NoResponse
        BY ResponseIs DEF Effect, Connects, Opened, Closes, Moves, Req
    <2>3. ASSUME Up(c), resp.kind = "Ok", call[c].todo # <<>>, call[c].todo[1].kind = "Seek",
                 call[c].todo[1].fd \in DOMAIN Steady'
          PROVE  Steady'[call[c].todo[1].fd].pos = call[c].todo[1].at
        <3>0. Steady' = fds'
            BY <2>3 DEF Steady
        <3>1. Real(conn[c].req)
            BY <2>3 DEF Effect, Connects, Opened, Closes, Moves, Real, Req
        <3>2. Req(c) = call[c].todo[1]
            BY <2>1, <2>3, <3>1 DEF FlightOK, Up, Req
        <3>3. Moves(c, resp)
            BY <2>3, <3>2 DEF Effect, Connects, Opened, Closes
        <3> QED BY <2>3, <3>0, <3>2, <3>3 DEF Moves, SameWriters
    <2>4. PICK fs, ft : fs = Steady /\ ft = Steady'
        OBVIOUS
    <2>5. FlightOK(conn'[c], call[c], link[c], descs[c], wrote[c], ft)
        BY <1>0, <2>1, <2>2, <2>3, <2>4, ResponseIs DEF FlightOK, Up, Real
    <2> QED BY <1>5, <2>4, <2>5, CallSteady
<1>6. ASSUME NEW e \in Direct PROVE DirectOK(e)'
    <2>1. conn'[e].req \in {conn[e].req, NoRequest}
        BY <1>0, ServerAssumption
    <2> QED BY <1>1, <1>2, <2>1, DirectSteady
<1> QED BY <1>4, <1>5, <1>6 DEF CallInv

LEMMA CallServer ==
    ASSUME Inv, Disk', UNCHANGED adapterVars,
           \/ \E c \in Clients : Accept(c) \/ Disconnected(c) \/ CloseSession(c) \/ ForceFlush(c) \/ Leave(c) \/ Break(c)
           \/ Tick \/ \E p \in ForeignPaths : ForeignRelease(p)
    PROVE  CallInv'
<1>0. UNCHANGED <<config, nextFd>> /\ nextFd \in Nat /\ DOMAIN fds' \subseteq DOMAIN fds /\ \A x \in DOMAIN fds' : fds'[x] = fds[x]
    <2>1. nextFd \in Nat
        BY DEF Inv, Disk, FdsOK
    <2>2. CASE UNCHANGED <<config, fds, nextFd>>
        BY <2>1, <2>2
    <2>3. ASSUME NEW c \in Clients, CloseSession(c)
          PROVE  UNCHANGED <<config, nextFd>> /\ DOMAIN fds' \subseteq DOMAIN fds /\ \A x \in DOMAIN fds' : fds'[x] = fds[x]
        <3>1. CASE \E fd \in OpenedIn(sessions[c]), ok \in S3Answers : CloseFd(fd, ok)
            <4>1. PICK x : FdClosed(x)
                BY <3>1, CloseFdIs
            <4> QED BY <2>3, <4>1 DEF FdClosed, CloseSession
        <3>2. CASE UNCHANGED fsVars
            BY <2>3, <3>2 DEF fsVars, CloseSession
        <3> QED BY <2>3, <3>1, <3>2 DEF CloseSession
    <2> QED BY <2>1, <2>2, <2>3 DEF Accept, Disconnected, ForceFlush, Leave, Break, Tick, ForeignRelease, fsVars
<1>1. SamePaths /\ \A e \in Clients : SamePos(descs[e], Steady, Steady')
    BY <1>0 DEF SamePaths, SamePos, Steady
<1>2. ASSUME NEW e \in Adapters, conn'[e] = conn[e] PROVE ClientOK(e)'
    BY <1>1, <1>2, CallSteady DEF Adapters
<1>3. ASSUME NEW e \in Direct, conn'[e].req \in {conn[e].req, NoRequest} PROVE DirectOK(e)'
    BY <1>0, <1>1, <1>3, DirectSteady
<1>4. CASE UNCHANGED conn
    BY <1>2, <1>3, <1>4 DEF CallInv
<1>5. ASSUME NEW c \in Clients, Leave(c) \/ Break(c) PROVE CallInv'
    <2>1. PICK state, req, resp : ConnNow(c, state, req, resp) /\ state \in {"gone", "down"} /\ req \in {NoRequest, conn[c].req}
        BY <1>5, LeftNow, BrokenNow DEF Inv
    <2>2. UNCHANGED <<fds, config>>
        BY <1>5 DEF Leave, Break, fsVars
    <2>3. PICK fs : fs = Steady /\ fs = Steady'
        BY <2>2 DEF Steady
    <2>4. ASSUME c \in Adapters PROVE ClientOK(c)'
        <3>1. FlightOK(conn[c], call[c], link[c], descs[c], wrote[c], fs)
            BY <2>3, <2>4 DEF Inv, CallInv, ClientOK
        <3>2. FlightOK(conn'[c], call[c], link[c], descs[c], wrote[c], fs)
            BY <2>1, <3>1, ResponseIs DEF FlightOK, ConnNow, Real
        <3> QED BY <2>3, <2>4, <3>2, CallSteady
    <2>5. ASSUME NEW e \in Adapters, e # c PROVE ClientOK(e)'
        BY <1>2, <2>1, <2>5 DEF ConnNow, Adapters
    <2>6. ASSUME NEW e \in Direct PROVE conn'[e].req \in {conn[e].req, NoRequest}
        BY <2>1, ServerAssumption DEF ConnNow
    <2> QED BY <1>3, <2>4, <2>5, <2>6 DEF CallInv
<1> QED BY <1>4, <1>5 DEF Accept, Disconnected, CloseSession, ForceFlush, Tick, ForeignRelease, loopVars
-----------------------------------------------------------------------------
(***************************************************************************)
(* The parts of a client                                                   *)
(***************************************************************************)

\* The variables of other clients stay.
Alone(f, g, c) == \A e \in Clients : e # c => g[e] = f[e]

LEMMA SetOne ==
    ASSUME NEW S, NEW f \in [Clients -> S], NEW g, NEW c \in Clients, NEW x \in S, g = [f EXCEPT ![c] = x]
    PROVE  g \in [Clients -> S] /\ g[c] = x /\ Alone(f, g, c)
BY DEF Alone

LEMMA Started ==
    ASSUME ClientTypes, NEW c \in Clients, NEW op \in {"none", "open", "call", "fsync", "drop", "close"},
           NEW h \in Nat, NEW s \in Nat, NEW todo \in Seq(Calls), Start(c, op, h, s, todo)
    PROVE  /\ call' \in [Clients -> CallRecords] /\ Alone(call, call', c)
           /\ call'[c].op = op /\ call'[c].h = h /\ call'[c].s = s /\ call'[c].todo = todo
<1> DEFINE cl == [op |-> op, h |-> h, s |-> s, todo |-> todo, retries |-> 0]
<1>1. cl \in CallRecords /\ cl.op = op /\ cl.h = h /\ cl.s = s /\ cl.todo = todo
    BY DEF CallRecords
<1>2. call' = [call EXCEPT ![c] = cl] /\ call \in [Clients -> CallRecords]
    BY DEF Start, ClientTypes
<1> HIDE DEF cl
<1>3. call' \in [Clients -> CallRecords] /\ call'[c] = cl /\ Alone(call, call', c)
    BY <1>1, <1>2, SetOne
<1> QED BY <1>1, <1>3

LEMMA Returned ==
    ASSUME ClientTypes, NEW c \in Clients, Return(c)
    PROVE  /\ call' \in [Clients -> CallRecords] /\ Alone(call, call', c)
           /\ call'[c].op = "none" /\ call'[c].todo = <<>>
<1>1. <<>> \in Seq(Calls)
    OBVIOUS
<1>2. NoCall \in CallRecords /\ NoCall.op = "none" /\ NoCall.todo = <<>>
    BY <1>1 DEF NoCall, CallRecords
<1>3. call' = [call EXCEPT ![c] = NoCall] /\ call \in [Clients -> CallRecords]
    BY DEF Return, ClientTypes
<1>4. call' \in [Clients -> CallRecords] /\ call'[c] = NoCall /\ Alone(call, call', c)
    BY <1>2, <1>3, SetOne
<1> QED BY <1>2, <1>4

\* Only the requests of the call change.
LEMMA TodoSet ==
    ASSUME ClientTypes, NEW c \in Clients, NEW todo \in Seq(Calls), call' = [call EXCEPT ![c].todo = todo]
    PROVE  /\ call' \in [Clients -> CallRecords] /\ Alone(call, call', c)
           /\ call'[c].op = call[c].op /\ call'[c].h = call[c].h /\ call'[c].s = call[c].s /\ call'[c].todo = todo
<1> DEFINE cl == [call[c] EXCEPT !.todo = todo]
<1>0. call \in [Clients -> CallRecords] /\ call[c] \in CallRecords
    BY DEF ClientTypes
<1>1. cl \in CallRecords /\ cl.op = call[c].op /\ cl.h = call[c].h /\ cl.s = call[c].s /\ cl.todo = todo
    BY <1>0 DEF CallRecords
<1>2. call' = [call EXCEPT ![c] = cl]
    OBVIOUS
<1> HIDE DEF cl
<1>3. call' \in [Clients -> CallRecords] /\ call'[c] = cl /\ Alone(call, call', c)
    BY <1>0, <1>1, <1>2, SetOne
<1> QED BY <1>1, <1>3

LEMMA RetriesSet ==
    ASSUME ClientTypes, NEW c \in Clients, NEW n \in Nat, call' = [call EXCEPT ![c].retries = n]
    PROVE  /\ call' \in [Clients -> CallRecords] /\ Alone(call, call', c)
           /\ call'[c].op = call[c].op /\ call'[c].h = call[c].h /\ call'[c].s = call[c].s /\ call'[c].todo = call[c].todo
<1> DEFINE cl == [call[c] EXCEPT !.retries = n]
<1>0. call \in [Clients -> CallRecords] /\ call[c] \in CallRecords
    BY DEF ClientTypes
<1>1. cl \in CallRecords /\ cl.op = call[c].op /\ cl.h = call[c].h /\ cl.s = call[c].s /\ cl.todo = call[c].todo
    BY <1>0 DEF CallRecords
<1>2. call' = [call EXCEPT ![c] = cl]
    OBVIOUS
<1> HIDE DEF cl
<1>3. call' \in [Clients -> CallRecords] /\ call'[c] = cl /\ Alone(call, call', c)
    BY <1>0, <1>1, <1>2, SetOne
<1> QED BY <1>1, <1>3

\* A write is recorded: it gets the next number.
LEMMA Recorded ==
    ASSUME ClientTypes, NEW c \in Clients, NEW h \in Nat, NEW at \in Nat, Record(c, h, at)
    PROVE  /\ wrote' \in [Clients -> Seq(WriteRecords)] /\ Alone(wrote, wrote', c)
           /\ Longer(wrote[c], wrote'[c]) /\ NextWrite(c) \in Nat /\ Meant(wrote'[c], NextWrite(c), at)
<1>0. wrote[c] \in Seq(WriteRecords) /\ wrote \in [Clients -> Seq(WriteRecords)]
    BY DEF ClientTypes
<1> DEFINE w == [h |-> h, at |-> at]
           ws == Append(wrote[c], w)
<1>1. w \in WriteRecords /\ w.at = at
    BY DEF WriteRecords
<1> HIDE DEF w
<1>2. /\ ws \in Seq(WriteRecords) /\ Len(ws) = Len(wrote[c]) + 1 /\ ws[Len(wrote[c]) + 1] = w
      /\ \A n \in 1 .. Len(wrote[c]) : ws[n] = wrote[c][n]
    BY <1>0, <1>1
<1>3. wrote' = [wrote EXCEPT ![c] = ws]
    BY DEF Record, w
<1> HIDE DEF ws
<1>4. wrote' \in [Clients -> Seq(WriteRecords)] /\ wrote'[c] = ws /\ Alone(wrote, wrote', c)
    BY <1>0, <1>2, <1>3, SetOne
<1>5. Len(wrote[c]) \in Nat
    BY <1>0
<1> QED BY <1>1, <1>2, <1>4, <1>5 DEF Longer, Meant, NextWrite

\* A request on a descriptor.
LEMMA OnFdIs ==
    ASSUME ClientTypes, NEW c \in Clients, NEW h \in DOMAIN descs[c], NEW kind \in RequestKinds
    PROVE  LET r == OnFd(c, kind, h) IN
           r \in Requests /\ r.kind = kind /\ r.fd = descs[c][h].fd /\ r.data = <<>>
<1> DEFINE q == Request(kind)
<1>1. q \in Requests /\ q.kind = kind /\ q.data = <<>>
    BY DEF Request, Requests
<1>2. descs[c][h].fd \in Nat /\ OnFd(c, kind, h) = [q EXCEPT !.fd = descs[c][h].fd]
    BY DescType DEF OnFd
<1> HIDE DEF q
<1> QED BY <1>1, <1>2 DEF Requests

LEMMA SeekIs ==
    ASSUME ClientTypes, NEW c \in Clients, NEW h \in DOMAIN descs[c], NEW at \in Nat
    PROVE  Seek(c, h, at) \in Calls /\ Seek(c, h, at).kind = "Seek" /\ Seek(c, h, at).fd = descs[c][h].fd /\ Seek(c, h, at).at = at
<1> DEFINE q == OnFd(c, "Seek", h)
<1>1. q \in Requests /\ q.kind = "Seek" /\ q.fd = descs[c][h].fd
    BY OnFdIs DEF RequestKinds
<1>2. Seek(c, h, at) = [q EXCEPT !.at = at]
    BY DEF Seek
<1> HIDE DEF q
<1> QED BY <1>1, <1>2 DEF Requests, Calls

Put(c, kind, h, data) == [OnFd(c, kind, h) EXCEPT !.data = data]
LEMMA DataIs ==
    ASSUME ClientTypes, NEW c \in Clients, NEW h \in DOMAIN descs[c], NEW kind \in {"Write", "AppendWrite", "Ftruncate"},
           NEW data \in Seq(Nat)
    PROVE  LET r == Put(c, kind, h, data) IN
           r \in Calls /\ r.kind = kind /\ r.fd = descs[c][h].fd /\ r.data = data
<1> DEFINE q == OnFd(c, kind, h)
<1>1. q \in Requests /\ q.kind = kind /\ q.fd = descs[c][h].fd
    BY OnFdIs DEF RequestKinds
<1> HIDE DEF q
<1>2. LET r == [q EXCEPT !.data = data] IN
      r \in Calls /\ r.kind = kind /\ r.fd = descs[c][h].fd /\ r.data = data
    BY <1>1 DEF Requests, Calls
<1> QED BY <1>2 DEF q, Put
-----------------------------------------------------------------------------
(***************************************************************************)
(* What a client step must show                                            *)
(***************************************************************************)

\* A step of client c that leaves the server's descriptors alone.
OnlyClient(c) ==
    /\ UNCHANGED <<config, fds, nextFd>>
    /\ Alone(conn, conn', c) /\ Alone(link, link', c) /\ Alone(descs, descs', c)
    /\ Alone(streams, streams', c) /\ Alone(call, call', c) /\ Alone(wrote, wrote', c)

LEMMA OthersKept ==
    ASSUME Inv, NEW c \in Clients, OnlyClient(c)
    PROVE  (\A e \in Adapters : e # c => ClientOK(e)') /\ (\A e \in Direct : e # c => DirectOK(e)')
<1>0. Steady' = Steady /\ UNCHANGED <<config, fds, nextFd>>
    BY DEF OnlyClient, Steady
<1>1. ASSUME NEW e \in Clients, e # c
      PROVE  /\ conn'[e] = conn[e] /\ link'[e] = link[e] /\ descs'[e] = descs[e]
             /\ streams'[e] = streams[e] /\ call'[e] = call[e] /\ wrote'[e] = wrote[e]
    BY <1>1 DEF OnlyClient, Alone
<1>2. ASSUME NEW e \in Adapters, e # c PROVE ClientOK(e)'
    <2>1. ClientOK(e) /\ e \in Clients
        BY DEF Inv, CallInv, Adapters
    <2> QED BY <1>0, <1>1, <1>2, <2>1 DEF ClientOK
<1>3. ASSUME NEW e \in Direct, e # c PROVE DirectOK(e)'
    <2>1. DirectOK(e) /\ e \in Clients
        BY ServerAssumption DEF Inv, CallInv
    <2> QED BY <1>0, <1>1, <1>3, <2>1 DEF DirectOK, DirectReq, Served, NamesOwn, FdKnown
<1> QED BY <1>2, <1>3

LEMMA CallClient ==
    ASSUME Inv, NEW c \in Clients, OnlyClient(c), c \in Adapters => ClientOK(c)', c \in Direct => DirectOK(c)'
    PROVE  CallInv'
BY OthersKept DEF CallInv

LEMMA SameAlone ==
    ASSUME NEW f, NEW g, g = f, NEW c
    PROVE  Alone(f, g, c)
BY DEF Alone

\* The requests of a call: none, one, or two with a Seek first.
LEMMA TodoNone ==
    ASSUME NEW cl, cl.todo = <<>>, cl.op \in {"none", "fsync", "drop"}, NEW ds, NEW ws
    PROVE  TodoOK(cl, ds, ws)
<1>1. DOMAIN cl.todo = {}
    OBVIOUS
<1> QED BY <1>1 DEF TodoOK

LEMMA TodoOne ==
    ASSUME NEW r, NEW cl, cl.todo = <<r>>, cl.op # "none", NEW ds, NEW ws, ReqOK(r, ds, ws),
           r.kind # "Write"
    PROVE  TodoOK(cl, ds, ws)
<1>1. DOMAIN cl.todo = {1} /\ cl.todo[1] = r /\ cl.todo # <<>>
    OBVIOUS
<1>2. \A i \in DOMAIN cl.todo : ReqOK(cl.todo[i], ds, ws)
    BY <1>1
<1>3. \A i \in DOMAIN cl.todo : ~(i > 1)
    BY <1>1
<1> QED BY <1>1, <1>2, <1>3 DEF TodoOK

LEMMA TodoTwo ==
    ASSUME NEW q, NEW r, NEW cl, cl.todo = <<q, r>>, cl.op # "none", NEW ds, NEW ws,
           ReqOK(q, ds, ws), ReqOK(r, ds, ws), q.kind = "Seek", r.kind = "Write" => Seeked(q, r, ws)
    PROVE  TodoOK(cl, ds, ws)
<1>1. DOMAIN cl.todo = {1, 2} /\ cl.todo[1] = q /\ cl.todo[2] = r /\ cl.todo # <<>>
    OBVIOUS
<1>2. \A i \in DOMAIN cl.todo : ReqOK(cl.todo[i], ds, ws)
    BY <1>1
<1>3. \A i \in DOMAIN cl.todo : i > 1 /\ cl.todo[i].kind = "Write" => Seeked(cl.todo[i - 1], cl.todo[i], ws)
    BY <1>1
<1> QED BY <1>1, <1>2, <1>3 DEF TodoOK

\* A request on a descriptor that closes, opens and writes nothing.
LEMMA PlainReq ==
    ASSUME NEW ds, NEW ws, NEW h \in DOMAIN ds, NEW r, r.fd = ds[h].fd,
           r.kind \notin {"Connect", "Close", "OpenPath", "OpenAt", "AppendWrite", "Ftruncate"}
    PROVE  ReqOK(r, ds, ws)
BY DEF ReqOK

LEMMA NewCall ==
    ASSUME Inv, NEW c \in Clients, c \in Adapters, call[c].todo = <<>>, UNCHANGED <<config, fds, nextFd, conn, link>>,
           Longer(wrote[c], wrote'[c]), Kept(descs[c], descs'[c]),
           TodoOK(call'[c], descs'[c], wrote'[c]), call'[c].todo = <<>> \/ call'[c].todo[1].kind # "Write",
           WorkOK(call'[c], descs'[c], streams'[c]),
           \A s \in DOMAIN streams'[c] : StreamOK(streams'[c][s], descs'[c], wrote'[c])
    PROVE  ClientOK(c)'
<1>0. Steady' = Steady
    BY DEF Steady
<1>1. FlightOK(conn[c], call[c], link[c], descs[c], wrote[c], Steady) /\ Shaken(c)
    BY DEF Inv, CallInv, ClientOK, LoopInv
<1>2. conn[c].state = "up" => conn[c].resp.kind # "Ok" /\ ~Real(conn[c].req)
    BY <1>1, ResponseIs DEF FlightOK, Shaken, Real, NoRequest, Request
<1>3. Real(conn[c].req) => ReqOK(conn[c].req, descs'[c], wrote'[c]) /\ PosOK(conn[c].req, wrote'[c], Steady)
    <2>1. 0 \notin DOMAIN Steady /\ SamePos(descs[c], Steady, Steady)
        BY NoFdZero, SameLonger DEF Inv
    <2> QED BY <1>1, <2>1, ReqKept, PosKept DEF FlightOK
<1>4. FlightOK(conn[c], call'[c], link[c], descs'[c], wrote'[c], Steady)
    BY <1>1, <1>2, <1>3 DEF FlightOK, PosOK
<1> QED BY <1>0, <1>4 DEF ClientOK
-----------------------------------------------------------------------------
(***************************************************************************)
(* Calls of the application                                                *)
(***************************************************************************)

LEMMA IdleTodo ==
    ASSUME Inv, NEW c \in Clients, c \in Adapters, Idle(c)
    PROVE  call[c].todo = <<>>
BY DEF Inv, CallInv, ClientOK, TodoOK, Idle

\* Only the call changes.
LEMMA CallOnly ==
    ASSUME Inv, NEW c \in Clients, c \in Adapters, call[c].todo = <<>>, UNCHANGED <<serverVars, link, descs, streams, wrote>>,
           call' \in [Clients -> CallRecords], Alone(call, call', c),
           TodoOK(call'[c], descs[c], wrote[c]), call'[c].todo = <<>> \/ call'[c].todo[1].kind # "Write",
           WorkOK(call'[c], descs[c], streams[c])
    PROVE  ClientTypes' /\ OnlyClient(c) /\ ClientOK(c)'
<1>1. UNCHANGED <<config, fds, nextFd, conn>>
    BY DEF serverVars, fsVars
<1>2. ClientTypes'
    BY DEF Inv, ClientTypes
<1>3. OnlyClient(c)
    BY <1>1, SameAlone DEF OnlyClient
<1>4. Longer(wrote[c], wrote'[c]) /\ Kept(descs[c], descs'[c])
    BY SameLonger DEF Inv
<1>5. \A s \in DOMAIN streams'[c] : StreamOK(streams'[c][s], descs'[c], wrote'[c])
    BY DEF Inv, CallInv, ClientOK
<1>6. TodoOK(call'[c], descs'[c], wrote'[c]) /\ WorkOK(call'[c], descs'[c], streams'[c])
    OBVIOUS
<1>7. ClientOK(c)'
    BY <1>1, <1>4, <1>5, <1>6, NewCall
<1> QED BY <1>2, <1>3, <1>7

\* A call of one request, which is not a Write.
LEMMA OneRequest ==
    ASSUME Inv, NEW c \in Clients, c \in Adapters, Idle(c), UNCHANGED <<serverVars, link, descs, streams, wrote>>,
           NEW op \in {"open", "call"}, NEW h \in Nat, NEW r \in Calls, Start(c, op, h, 0, <<r>>),
           r.kind # "Write", ReqOK(r, descs[c], wrote[c])
    PROVE  ClientTypes' /\ OnlyClient(c) /\ ClientOK(c)'
<1>1. PICK todo : todo = <<r>> /\ todo \in Seq(Calls) /\ todo[1] = r /\ Start(c, op, h, 0, todo)
    <2>1. <<r>> \in Seq(Calls) /\ <<r>>[1] = r
        OBVIOUS
    <2> QED BY <2>1, Zenon
<1>2. call' \in [Clients -> CallRecords] /\ Alone(call, call', c) /\ call'[c].op = op /\ call'[c].todo = todo
    <2>1. PICK s \in Nat : s = 0
        OBVIOUS
    <2>2. ClientTypes /\ Start(c, op, h, s, todo) /\ op \in {"none", "open", "call", "fsync", "drop", "close"}
        BY <1>1, <2>1 DEF Inv
    <2>3. todo \in Seq(Calls)
        BY <1>1
    <2> QED BY <2>2, <2>3, Started
<1>3. TodoOK(call'[c], descs[c], wrote[c])
    BY <1>1, <1>2, TodoOne
<1>4. WorkOK(call'[c], descs[c], streams[c])
    BY <1>2 DEF WorkOK
<1> QED BY <1>1, <1>2, <1>3, <1>4, IdleTodo, CallOnly

LEMMA OpenAtOK ==
    ASSUME Inv, NEW c \in Clients, c \in Adapters, OpenAt(c)
    PROVE  ClientTypes' /\ OnlyClient(c) /\ ClientOK(c)'
<1>0. Idle(c) /\ UNCHANGED <<serverVars, link, descs, streams, wrote>>
    BY DEF OpenAt
<1>1. PICK o \in Opens(config) :
         Start(c, "open", 0, 0,
               <<[Request("OpenPath") EXCEPT !.path = o.path, !.write = o.write, !.creat = o.creat]>>)
    BY DEF OpenAt
<1>2. o.path \in Paths /\ o.path \in Seq(STRING) /\ o.write \in BOOLEAN /\ o.creat \in BOOLEAN
    BY AdapterAssumption, FilesAssumption DEF Inv, ServerTypes
<1> DEFINE q == Request("OpenPath")
           r == [q EXCEPT !.path = o.path, !.write = o.write, !.creat = o.creat]
<1>3. q \in Requests /\ q.kind = "OpenPath" /\ q.fd = 0
    BY DEF Request, Requests, RequestKinds
<1>4. Start(c, "open", 0, 0, <<r>>)
    BY <1>1
<1> HIDE DEF q
<1>5. r \in Calls /\ r.kind = "OpenPath" /\ r.fd = 0 /\ r.path \in Paths
    BY <1>2, <1>3 DEF Requests, Calls
<1> HIDE DEF r
<1>6. ReqOK(r, descs[c], wrote[c])
    BY <1>5 DEF ReqOK
<1> QED BY <1>0, <1>4, <1>5, <1>6, OneRequest

LEMMA PathCallOK ==
    ASSUME Inv, NEW c \in Clients, c \in Adapters, PathCall(c)
    PROVE  ClientTypes' /\ OnlyClient(c) /\ ClientOK(c)'
<1>1. PICK r \in PathCalls(config) : Start(c, "call", 0, 0, <<r>>)
    BY DEF PathCall
<1>2. r \in Requests /\ r.kind \in PathKinds /\ r.fd = 0
    BY AdapterAssumption DEF Inv, ServerTypes
<1>3. r \in Calls /\ r.kind # "Write" /\ ReqOK(r, descs[c], wrote[c])
    BY <1>2 DEF Calls, ReqOK, PathKinds
<1> QED BY <1>1, <1>3, OneRequest DEF PathCall

\* A handle of the client.
LEMMA HandleIs ==
    ASSUME Inv, NEW c \in Clients, NEW h \in Handles(c)
    PROVE  h \in DOMAIN descs[c] /\ h \in Nat /\ descs[c][h].state = "open"
BY DescType DEF Handles, Inv

\* One request on a descriptor that closes, opens and writes nothing.
LEMMA OneOnFd ==
    ASSUME Inv, NEW c \in Clients, c \in Adapters, Idle(c), UNCHANGED <<serverVars, link, descs, streams, wrote>>,
           NEW h \in Handles(c), NEW kind \in {"Read", "Fsync", "Fstat", "ReaddirFd"},
           Start(c, "call", h, 0, <<OnFd(c, kind, h)>>)
    PROVE  ClientTypes' /\ OnlyClient(c) /\ ClientOK(c)'
<1>1. h \in DOMAIN descs[c] /\ h \in Nat
    BY HandleIs
<1>2. PICK r : r = OnFd(c, kind, h) /\ r \in Requests /\ r.kind = kind /\ r.fd = descs[c][h].fd
    BY <1>1, OnFdIs DEF Inv, RequestKinds
<1>3. r \in Calls /\ r.kind # "Write" /\ ReqOK(r, descs[c], wrote[c])
    BY <1>1, <1>2, PlainReq DEF Calls
<1> QED BY <1>1, <1>2, <1>3, OneRequest

LEMMA ReadCallOK ==
    ASSUME Inv, NEW c \in Clients, c \in Adapters, ReadCall(c)
    PROVE  ClientTypes' /\ OnlyClient(c) /\ ClientOK(c)'
<1>0. Idle(c) /\ UNCHANGED <<serverVars, link, descs, streams, wrote>>
    BY DEF ReadCall
<1>1. PICK h \in Handles(c) :
          \/ Start(c, "call", h, 0, <<Seek(c, h, 0), OnFd(c, "Read", h)>>)
          \/ Start(c, "call", h, 0, <<OnFd(c, "Fstat", h)>>)
          \/ Start(c, "call", h, 0, <<OnFd(c, "ReaddirFd", h)>>)
    BY DEF ReadCall
<1>2. CASE Start(c, "call", h, 0, <<OnFd(c, "Fstat", h)>>) \/ Start(c, "call", h, 0, <<OnFd(c, "ReaddirFd", h)>>)
    BY <1>0, <1>2, OneOnFd
<1>3. CASE Start(c, "call", h, 0, <<Seek(c, h, 0), OnFd(c, "Read", h)>>)
    <2>1. h \in DOMAIN descs[c] /\ h \in Nat
        BY HandleIs
    <2>2. PICK r : r = OnFd(c, "Read", h) /\ r \in Requests /\ r.kind = "Read" /\ r.fd = descs[c][h].fd
        BY <2>1, OnFdIs DEF Inv, RequestKinds
    <2>3. PICK q : q = Seek(c, h, 0) /\ q \in Calls /\ q.kind = "Seek" /\ q.fd = descs[c][h].fd
        BY <2>1, SeekIs DEF Inv
    <2>4. r \in Calls
        BY <2>2 DEF Calls
    <2> DEFINE todo == <<q, r>>
    <2>5. todo \in Seq(Calls) /\ todo[1] = q
        BY <2>3, <2>4
    <2>6. call' \in [Clients -> CallRecords] /\ Alone(call, call', c) /\ call'[c].op = "call" /\ call'[c].todo = todo
        <3>1. Start(c, "call", h, 0, todo)
            BY <1>3, <2>2, <2>3
        <3> HIDE DEF todo
        <3> QED BY <2>1, <2>5, <3>1, Started DEF Inv
    <2>7. ReqOK(q, descs[c], wrote[c]) /\ ReqOK(r, descs[c], wrote[c])
        BY <2>1, <2>2, <2>3, PlainReq
    <2>8. TodoOK(call'[c], descs[c], wrote[c])
        BY <2>2, <2>3, <2>5, <2>6, <2>7, TodoTwo
    <2>9. WorkOK(call'[c], descs[c], streams[c])
        BY <2>6 DEF WorkOK
    <2> QED BY <1>0, <2>3, <2>5, <2>6, <2>8, <2>9, IdleTodo, CallOnly
<1> QED BY <1>1, <1>2, <1>3

LEMMA FsyncCallOK ==
    ASSUME Inv, NEW c \in Clients, c \in Adapters, FsyncCall(c)
    PROVE  ClientTypes' /\ OnlyClient(c) /\ ClientOK(c)'
<1>1. PICK h \in Handles(c) : Start(c, "fsync", h, 0, <<>>)
    BY DEF FsyncCall
<1>2. h \in DOMAIN descs[c] /\ h \in Nat
    BY HandleIs
<1>3. <<>> \in Seq(Calls)
    OBVIOUS
<1>4. /\ call' \in [Clients -> CallRecords] /\ Alone(call, call', c)
      /\ call'[c].op = "fsync" /\ call'[c].todo = <<>> /\ call'[c].h = h
    BY <1>1, <1>2, <1>3, Started DEF Inv
<1>5. TodoOK(call'[c], descs[c], wrote[c])
    BY <1>3, <1>4, TodoNone
<1>6. WorkOK(call'[c], descs[c], streams[c])
    BY <1>2, <1>3, <1>4 DEF WorkOK
<1> QED BY <1>3, <1>4, <1>5, <1>6, IdleTodo, CallOnly DEF FsyncCall
\* The streams of c, while it writes.
LEMMA StreamsLonger ==
    ASSUME Inv, NEW c \in Clients, c \in Adapters, NEW ws, Longer(wrote[c], ws)
    PROVE  \A s \in DOMAIN streams[c] : StreamOK(streams[c][s], descs[c], ws)
BY StreamKept DEF Inv, CallInv, ClientOK

LEMMA WriteCallOK ==
    ASSUME Inv, NEW c \in Clients, c \in Adapters, WriteCall(c)
    PROVE  ClientTypes' /\ OnlyClient(c) /\ ClientOK(c)'
<1>0. Idle(c) /\ UNCHANGED <<serverVars, link, descs, streams>> /\ UNCHANGED <<config, fds, nextFd, conn>>
    BY DEF WriteCall, serverVars, fsVars
<1>1. PICK h \in Handles(c) :
          \/ /\ Record(c, h, 0)
             /\ Start(c, "call", h, 0,
                      <<Seek(c, h, 0), [OnFd(c, "Write", h) EXCEPT !.data = <<NextWrite(c)>>]>>)
          \/ /\ Record(c, h, Anywhere)
             /\ Start(c, "call", h, 0, <<[OnFd(c, "Ftruncate", h) EXCEPT !.data = <<NextWrite(c)>>]>>)
    BY DEF WriteCall
<1>2. h \in DOMAIN descs[c] /\ h \in Nat
    BY HandleIs
<1>3. PICK n : n = NextWrite(c)
    OBVIOUS
<1>4. PICK at \in Nat : Record(c, h, at)
    BY <1>1 DEF Anywhere
<1>5. /\ wrote' \in [Clients -> Seq(WriteRecords)] /\ Alone(wrote, wrote', c) /\ Longer(wrote[c], wrote'[c]) /\ n \in Nat
    BY <1>2, <1>3, <1>4, Recorded DEF Inv
<1> DEFINE data == <<n>>
<1>6. data \in Seq(Nat) /\ DOMAIN data = {1} /\ data[1] = n
    BY <1>5
<1>7. /\ call' \in [Clients -> CallRecords] /\ Alone(call, call', c)
      /\ call'[c].op = "call" /\ call'[c].todo # <<>> /\ call'[c].todo[1].kind # "Write"
      /\ TodoOK(call'[c], descs[c], wrote'[c])
    <2>1. CASE Record(c, h, 0) /\ Start(c, "call", h, 0, <<Seek(c, h, 0), [OnFd(c, "Write", h) EXCEPT !.data = data]>>)
        <3>1. PICK q : q = Seek(c, h, 0) /\ q \in Calls /\ q.kind = "Seek" /\ q.fd = descs[c][h].fd /\ q.at = 0
            BY <1>2, SeekIs DEF Inv
        <3>2. PICK r : r = Put(c, "Write", h, data) /\ r \in Calls /\ r.kind = "Write"
                       /\ r.fd = descs[c][h].fd /\ r.data = data
            <4> HIDE DEF data
            <4> QED BY <1>2, <1>6, DataIs DEF Inv
        <3> DEFINE todo == <<q, r>>
        <3>3. todo \in Seq(Calls) /\ todo[1] = q /\ todo # <<>>
            BY <3>1, <3>2
        <3>4. call' \in [Clients -> CallRecords] /\ Alone(call, call', c) /\ call'[c].op = "call" /\ call'[c].todo = todo
            <4>1. Start(c, "call", h, 0, todo)
                BY <2>1, <3>1, <3>2 DEF Put
            <4> HIDE DEF todo
            <4> QED BY <1>2, <3>3, <4>1, Started DEF Inv
        <3>5. Meant(wrote'[c], n, 0)
            BY <1>2, <1>3, <2>1, Recorded DEF Inv
        <3>6. Seeked(q, r, wrote'[c])
            BY <1>6, <3>1, <3>2, <3>5 DEF Seeked, WriteAt
        <3>7. ReqOK(q, descs[c], wrote'[c]) /\ ReqOK(r, descs[c], wrote'[c])
            BY <1>2, <3>1, <3>2, PlainReq
        <3>8. TodoOK(call'[c], descs[c], wrote'[c])
            BY <3>1, <3>4, <3>6, <3>7, TodoTwo
        <3> QED BY <3>1, <3>3, <3>4, <3>8
    <2>2. CASE Record(c, h, Anywhere) /\ Start(c, "call", h, 0, <<[OnFd(c, "Ftruncate", h) EXCEPT !.data = data]>>)
        <3>1. PICK r : r = Put(c, "Ftruncate", h, data) /\ r \in Calls /\ r.kind = "Ftruncate"
                       /\ r.fd = descs[c][h].fd /\ r.data = data
            <4> HIDE DEF data
            <4> QED BY <1>2, <1>6, DataIs DEF Inv
        <3> DEFINE todo == <<r>>
        <3>2. todo \in Seq(Calls) /\ todo[1] = r /\ todo # <<>>
            BY <3>1
        <3>3. call' \in [Clients -> CallRecords] /\ Alone(call, call', c) /\ call'[c].op = "call" /\ call'[c].todo = todo
            <4>1. Start(c, "call", h, 0, todo)
                BY <2>2, <3>1 DEF Put
            <4> HIDE DEF todo
            <4> QED BY <1>2, <3>2, <4>1, Started DEF Inv
        <3>4. Meant(wrote'[c], n, Anywhere)
            <4>1. Anywhere \in Nat
                BY DEF Anywhere
            <4> QED BY <1>2, <1>3, <2>2, <4>1, Recorded DEF Inv
        <3>5. ReqOK(r, descs[c], wrote'[c])
            BY <1>2, <1>6, <3>1, <3>4 DEF ReqOK
        <3>6. TodoOK(call'[c], descs[c], wrote'[c])
            BY <3>1, <3>3, <3>5, TodoOne
        <3> QED BY <3>1, <3>2, <3>3, <3>6
    <2> QED BY <1>1, <1>3, <2>1, <2>2
<1>8. WorkOK(call'[c], descs'[c], streams'[c])
    BY <1>7 DEF WorkOK
<1>9. \A s \in DOMAIN streams'[c] : StreamOK(streams'[c][s], descs'[c], wrote'[c])
    BY <1>0, <1>5, StreamsLonger
<1>10. Kept(descs[c], descs'[c])
    BY <1>0, SameLonger DEF Inv
<1>11. ClientOK(c)'
    BY <1>0, <1>5, <1>7, <1>8, <1>9, <1>10, IdleTodo, NewCall
<1>12. ClientTypes' /\ OnlyClient(c)
    BY <1>0, <1>5, <1>7, SameAlone DEF Inv, ClientTypes, OnlyClient
<1> QED BY <1>11, <1>12
-----------------------------------------------------------------------------
(***************************************************************************)
(* Streams                                                                 *)
(***************************************************************************)

LEMMA StreamType ==
    ASSUME ClientTypes, NEW c \in Clients, NEW s \in DOMAIN streams[c]
    PROVE  /\ streams[c] \in Seq(Streams) /\ streams[c][s] \in Streams /\ s \in Nat
           /\ streams[c][s].h \in Nat /\ streams[c][s].append \in BOOLEAN /\ streams[c][s].offset \in Nat
           /\ streams[c][s].buffer \in Seq(Nat) /\ streams[c][s].live \in BOOLEAN
<1>1. streams[c] \in Seq(Streams)
    BY DEF ClientTypes
<1>2. streams[c][s] \in Streams /\ s \in Nat
    BY <1>1
<1> QED BY <1>1, <1>2 DEF Streams

\* One stream changes.
SetStream(c, s, st) == streams' = [streams EXCEPT ![c] = [streams[c] EXCEPT ![s] = st]]
LEMMA StreamSet ==
    ASSUME ClientTypes, NEW c \in Clients, NEW s \in DOMAIN streams[c], NEW st \in Streams, SetStream(c, s, st)
    PROVE  /\ streams' \in [Clients -> Seq(Streams)] /\ Alone(streams, streams', c)
           /\ DOMAIN streams'[c] = DOMAIN streams[c] /\ streams'[c][s] = st
           /\ \A t \in DOMAIN streams[c] : t # s => streams'[c][t] = streams[c][t]
<1> DEFINE ss == [streams[c] EXCEPT ![s] = st]
<1>0. streams \in [Clients -> Seq(Streams)] /\ streams[c] \in Seq(Streams)
    BY DEF ClientTypes
<1>1. /\ ss \in Seq(Streams) /\ DOMAIN ss = DOMAIN streams[c] /\ ss[s] = st
      /\ \A t \in DOMAIN streams[c] : t # s => ss[t] = streams[c][t]
    BY <1>0
<1>2. streams' = [streams EXCEPT ![c] = ss]
    BY DEF SetStream
<1> HIDE DEF ss
<1>3. streams' \in [Clients -> Seq(Streams)] /\ streams'[c] = ss /\ Alone(streams, streams', c)
    BY <1>0, <1>1, <1>2, SetOne
<1> QED BY <1>1, <1>3

\* Its buffer, and whether it is live.
SetBuffer(c, s, b) == streams' = [streams EXCEPT ![c][s].buffer = b]
LEMMA BufferSet ==
    ASSUME ClientTypes, NEW c \in Clients, NEW s \in DOMAIN streams[c], NEW b \in Seq(Nat), SetBuffer(c, s, b)
    PROVE  /\ streams' \in [Clients -> Seq(Streams)] /\ Alone(streams, streams', c)
           /\ DOMAIN streams'[c] = DOMAIN streams[c] /\ streams'[c][s].buffer = b /\ streams'[c][s].h = streams[c][s].h
           /\ streams'[c][s].append = streams[c][s].append /\ streams'[c][s].offset = streams[c][s].offset
           /\ streams'[c][s].live = streams[c][s].live
           /\ \A t \in DOMAIN streams[c] : t # s => streams'[c][t] = streams[c][t]
<1>0. streams[c][s] \in Streams
    BY StreamType
<1> DEFINE st == [streams[c][s] EXCEPT !.buffer = b]
<1>1. /\ st \in Streams /\ st.buffer = b /\ st.h = streams[c][s].h /\ st.append = streams[c][s].append
      /\ st.offset = streams[c][s].offset /\ st.live = streams[c][s].live
    BY <1>0 DEF Streams
<1>2. SetStream(c, s, st)
    BY DEF SetStream, SetBuffer
<1> HIDE DEF st
<1>3. PICK x : x = st
    OBVIOUS
<1> QED BY <1>1, <1>2, <1>3, StreamSet

NotLive(c, s) == streams' = [streams EXCEPT ![c][s].live = FALSE]
LEMMA LiveSet ==
    ASSUME ClientTypes, NEW c \in Clients, NEW s \in DOMAIN streams[c], NotLive(c, s)
    PROVE  /\ streams' \in [Clients -> Seq(Streams)] /\ Alone(streams, streams', c)
           /\ DOMAIN streams'[c] = DOMAIN streams[c] /\ streams'[c][s].buffer = streams[c][s].buffer
           /\ streams'[c][s].h = streams[c][s].h /\ ~streams'[c][s].live
           /\ \A t \in DOMAIN streams[c] : t # s => streams'[c][t] = streams[c][t]
<1>0. streams[c][s] \in Streams
    BY StreamType
<1> DEFINE st == [streams[c][s] EXCEPT !.live = FALSE]
<1>1. st \in Streams /\ st.buffer = streams[c][s].buffer /\ st.h = streams[c][s].h /\ ~st.live
    BY <1>0 DEF Streams
<1>2. SetStream(c, s, st)
    BY DEF SetStream, NotLive
<1> HIDE DEF st
<1>3. PICK x : x = st
    OBVIOUS
<1> QED BY <1>1, <1>2, <1>3, StreamSet

\* flush_buffer has moved the offset of a stream.
SetOffset(c, s, n) == streams' = [streams EXCEPT ![c][s].offset = n]
LEMMA OffsetSet ==
    ASSUME ClientTypes, NEW c \in Clients, NEW s \in DOMAIN streams[c], NEW n \in Nat, SetOffset(c, s, n)
    PROVE  /\ streams' \in [Clients -> Seq(Streams)] /\ Alone(streams, streams', c)
           /\ DOMAIN streams'[c] = DOMAIN streams[c] /\ streams'[c][s].buffer = streams[c][s].buffer
           /\ streams'[c][s].h = streams[c][s].h /\ streams'[c][s].live = streams[c][s].live
           /\ \A t \in DOMAIN streams[c] : t # s => streams'[c][t] = streams[c][t]
<1>0. streams[c][s] \in Streams
    BY StreamType
<1> DEFINE st == [streams[c][s] EXCEPT !.offset = n]
<1>1. st \in Streams /\ st.buffer = streams[c][s].buffer /\ st.h = streams[c][s].h /\ st.live = streams[c][s].live
    BY <1>0 DEF Streams
<1>2. SetStream(c, s, st)
    BY DEF SetStream, SetOffset
<1> HIDE DEF st
<1>3. PICK x : x = st
    OBVIOUS
<1> QED BY <1>1, <1>2, <1>3, StreamSet

LEMMA StreamIs ==
    ASSUME Inv, NEW c \in Clients, c \in Adapters, NEW s \in DOMAIN streams[c]
    PROVE  StreamOK(streams[c][s], descs[c], wrote[c])
BY DEF Inv, CallInv, ClientOK

\* An idle client that starts no call.
LEMMA NoNewCall ==
    ASSUME Inv, NEW c \in Clients, c \in Adapters, Idle(c), UNCHANGED <<config, fds, nextFd, conn, link, call, descs>>,
           Longer(wrote[c], wrote'[c]),
           \A s \in DOMAIN streams'[c] : StreamOK(streams'[c][s], descs'[c], wrote'[c])
    PROVE  ClientOK(c)'
<1>1. call'[c].op = "none" /\ call'[c].todo = <<>>
    BY IdleTodo DEF Idle
<1>2. TodoOK(call'[c], descs'[c], wrote'[c]) /\ WorkOK(call'[c], descs'[c], streams'[c])
    BY <1>1, TodoNone DEF WorkOK
<1>3. Kept(descs[c], descs'[c])
    BY SameLonger DEF Inv
<1> QED BY <1>1, <1>2, <1>3, IdleTodo, NewCall

LEMMA OpenStreamOK ==
    ASSUME Inv, NEW c \in Clients, c \in Adapters, OpenStream(c)
    PROVE  ClientTypes' /\ OnlyClient(c) /\ ClientOK(c)'
<1>0. Idle(c) /\ UNCHANGED <<link, descs, call, wrote, config, fds, nextFd, conn>>
    BY DEF OpenStream, serverVars, fsVars
<1>1. PICK h, append : h \in Handles(c) /\ append \in BOOLEAN /\ streams' = [streams EXCEPT ![c] = Append(@,
             [h |-> h, append |-> append, offset |-> 0, buffer |-> <<>>, live |-> TRUE])]
    BY DEF OpenStream
<1>2. h \in DOMAIN descs[c] /\ h \in Nat /\ descs[c][h].state = "open"
    BY <1>1, HandleIs
<1> DEFINE st == [h |-> h, append |-> append, offset |-> 0, buffer |-> <<>>, live |-> TRUE]
           ss == Append(streams[c], st)
<1>3. st \in Streams /\ st.h = h /\ st.buffer = <<>>
    BY <1>1, <1>2 DEF Streams
<1>4. streams[c] \in Seq(Streams) /\ streams \in [Clients -> Seq(Streams)]
    BY DEF Inv, ClientTypes
<1>5. streams' = [streams EXCEPT ![c] = ss]
    BY <1>1
<1> HIDE DEF st
<1>6. ss \in Seq(Streams) /\ \A s \in DOMAIN ss : ss[s] = st \/ (s \in DOMAIN streams[c] /\ ss[s] = streams[c][s])
    BY <1>3, <1>4
<1> HIDE DEF ss
<1>7. streams' \in [Clients -> Seq(Streams)] /\ streams'[c] = ss /\ Alone(streams, streams', c)
    BY <1>4, <1>5, <1>6, SetOne
<1>8. StreamOK(st, descs[c], wrote[c])
    BY <1>2, <1>3 DEF StreamOK
<1>9. \A s \in DOMAIN streams'[c] : StreamOK(streams'[c][s], descs'[c], wrote'[c])
    BY <1>0, <1>6, <1>7, <1>8, StreamIs
<1>10. Longer(wrote[c], wrote'[c])
    BY <1>0, SameLonger DEF Inv
<1>11. ClientOK(c)'
    BY <1>0, <1>9, <1>10, NoNewCall
<1>12. ClientTypes' /\ OnlyClient(c)
    BY <1>0, <1>7, SameAlone DEF Inv, ClientTypes, OnlyClient
<1> QED BY <1>11, <1>12

LEMMA WriteStreamOK ==
    ASSUME Inv, NEW c \in Clients, c \in Adapters, WriteStream(c)
    PROVE  ClientTypes' /\ OnlyClient(c) /\ ClientOK(c)'
<1>0. Idle(c) /\ UNCHANGED <<link, descs, call, config, fds, nextFd, conn>>
    BY DEF WriteStream, serverVars, fsVars
<1>1. PICK s \in DOMAIN streams[c] :
          /\ streams[c][s].live
          /\ streams' = [streams EXCEPT ![c][s].buffer = Append(@, NextWrite(c))]
          /\ Record(c, streams[c][s].h,
                    IF streams[c][s].append THEN Anywhere ELSE streams[c][s].offset + Len(streams[c][s].buffer))
    BY DEF WriteStream
<1>2. PICK st : st = streams[c][s]
    OBVIOUS
<1>3. /\ st \in Streams /\ st.h \in Nat /\ st.offset \in Nat /\ st.buffer \in Seq(Nat)
      /\ StreamOK(st, descs[c], wrote[c])
    BY <1>2, StreamType, StreamIs DEF Inv
<1>4. PICK at : at = IF st.append THEN Anywhere ELSE st.offset + Len(st.buffer)
    OBVIOUS
<1>5. PICK h, n : h = st.h /\ n = NextWrite(c)
    OBVIOUS
<1>6. at \in Nat /\ h \in Nat /\ Record(c, h, at)
    BY <1>1, <1>2, <1>3, <1>4, <1>5 DEF Anywhere
<1>7. /\ wrote' \in [Clients -> Seq(WriteRecords)] /\ Alone(wrote, wrote', c)
      /\ Longer(wrote[c], wrote'[c]) /\ n \in Nat /\ Meant(wrote'[c], n, at)
    BY <1>5, <1>6, Recorded DEF Inv
<1> DEFINE b == Append(st.buffer, n)
<1>8. b \in Seq(Nat)
    BY <1>3, <1>7
<1>9. \A j \in DOMAIN b : \/ j \in DOMAIN st.buffer /\ b[j] = st.buffer[j]
                          \/ j = Len(st.buffer) + 1 /\ b[j] = n
    BY <1>3, <1>7
<1>10. SetBuffer(c, s, b)
    BY <1>1, <1>2, <1>5 DEF SetBuffer
<1> HIDE DEF b
<1>11. /\ streams' \in [Clients -> Seq(Streams)] /\ Alone(streams, streams', c)
       /\ DOMAIN streams'[c] = DOMAIN streams[c] /\ streams'[c][s].buffer = b /\ streams'[c][s].h = st.h
       /\ streams'[c][s].append = st.append /\ streams'[c][s].offset = st.offset
       /\ streams'[c][s].live = st.live
       /\ \A t \in DOMAIN streams[c] : t # s => streams'[c][t] = streams[c][t]
    <2>1. PICK x : x = b
        OBVIOUS
    <2> QED BY <1>2, <1>8, <1>10, <2>1, BufferSet DEF Inv
<1>12. StreamOK(streams'[c][s], descs[c], wrote'[c])
    <2>1. \A j \in DOMAIN b : Meant(wrote'[c], b[j], IF st.append THEN Anywhere ELSE st.offset + j - 1)
        <3> SUFFICES ASSUME NEW j \in DOMAIN b
                     PROVE  Meant(wrote'[c], b[j], IF st.append THEN Anywhere ELSE st.offset + j - 1)
            OBVIOUS
        <3>1. CASE j \in DOMAIN st.buffer /\ b[j] = st.buffer[j]
            BY <1>3, <1>7, <3>1, MeantLonger DEF StreamOK
        <3>2. CASE j = Len(st.buffer) + 1 /\ b[j] = n
            <4>1. at = IF st.append THEN Anywhere ELSE st.offset + j - 1
                BY <1>3, <1>4, <3>2
            <4> QED BY <1>7, <3>2, <4>1
        <3> QED BY <1>9, <3>1, <3>2
    <2> QED BY <1>1, <1>2, <1>3, <1>11, <2>1 DEF StreamOK
<1>13. \A t \in DOMAIN streams'[c] : StreamOK(streams'[c][t], descs'[c], wrote'[c])
    BY <1>0, <1>7, <1>11, <1>12, StreamsLonger
<1>14. ClientOK(c)'
    BY <1>0, <1>7, <1>13, NoNewCall
<1>15. ClientTypes' /\ OnlyClient(c)
    BY <1>0, <1>7, <1>11, SameAlone DEF Inv, ClientTypes, OnlyClient
<1> QED BY <1>14, <1>15
-----------------------------------------------------------------------------
(***************************************************************************)
(* Flushing a stream                                                       *)
(***************************************************************************)

\* What flush_buffer sends: nothing, an append, or a write after its Seek.
Flushes(todo, ds, ws) ==
    \/ todo = <<>>
    \/ \E r \in Calls : todo = <<r>> /\ r.kind = "AppendWrite" /\ ReqOK(r, ds, ws)
    \/ \E q, r \in Calls : /\ todo = <<q, r>> /\ q.kind = "Seek" /\ Seeked(q, r, ws)
                           /\ ReqOK(q, ds, ws) /\ ReqOK(r, ds, ws)

LEMMA FlushTodo ==
    ASSUME NEW todo, NEW ds, NEW ws, Flushes(todo, ds, ws), NEW cl, cl.todo = todo,
           cl.op \in {"fsync", "drop"}
    PROVE  TodoOK(cl, ds, ws)
<1>1. CASE todo = <<>>
    BY <1>1, TodoNone
<1>2. ASSUME NEW r \in Calls, todo = <<r>>, r.kind = "AppendWrite", ReqOK(r, ds, ws) PROVE TodoOK(cl, ds, ws)
    BY <1>2, TodoOne
<1>3. ASSUME NEW q \in Calls, NEW r \in Calls, todo = <<q, r>>, q.kind = "Seek", Seeked(q, r, ws),
             ReqOK(q, ds, ws), ReqOK(r, ds, ws)
      PROVE  TodoOK(cl, ds, ws)
    BY <1>3, TodoTwo
<1> QED BY <1>1, <1>2, <1>3 DEF Flushes

LEMMA FlushKinds ==
    ASSUME NEW todo, NEW ds, NEW ws, Flushes(todo, ds, ws)
    PROVE  todo \in Seq(Calls) /\ (todo = <<>> \/ todo[1].kind \in {"AppendWrite", "Seek"})
<1>1. CASE todo = <<>>
    BY <1>1
<1>2. ASSUME NEW r \in Calls, todo = <<r>>, r.kind = "AppendWrite"
      PROVE  todo \in Seq(Calls) /\ todo[1].kind \in {"AppendWrite", "Seek"}
    BY <1>2
<1>3. ASSUME NEW q \in Calls, NEW r \in Calls, todo = <<q, r>>, q.kind = "Seek"
      PROVE  todo \in Seq(Calls) /\ todo[1].kind \in {"AppendWrite", "Seek"}
    BY <1>3
<1> QED BY <1>1, <1>2, <1>3 DEF Flushes

LEMMA FlushIs ==
    ASSUME Inv, NEW c \in Clients, c \in Adapters, NEW s \in DOMAIN streams[c]
    PROVE  Flushes(FlushRequests(c, s), descs[c], wrote[c])
<1>1. PICK st : st = streams[c][s]
    OBVIOUS
<1>2. /\ st.h \in DOMAIN descs[c] /\ st.offset \in Nat /\ st.buffer \in Seq(Nat)
      /\ StreamOK(st, descs[c], wrote[c])
    BY <1>1, StreamType, StreamIs DEF Inv, StreamOK
<1>3. PICK h, b, n : h = st.h /\ b = st.buffer /\ n = st.offset
    OBVIOUS
<1>4. h \in DOMAIN descs[c] /\ b \in Seq(Nat) /\ n \in Nat
    BY <1>2, <1>3
<1>5. CASE b = <<>>
    BY <1>1, <1>3, <1>5 DEF FlushRequests, Flushes
<1>6. CASE b # <<>> /\ st.append
    <2>1. PICK r : r = Put(c, "AppendWrite", h, b) /\ r \in Calls /\ r.kind = "AppendWrite" /\ r.fd = descs[c][h].fd /\ r.data = b
        BY <1>4, DataIs DEF Inv
    <2>2. FlushRequests(c, s) = <<r>>
        BY <1>1, <1>3, <1>6, <2>1 DEF FlushRequests, Put
    <2>3. \A k \in DOMAIN r.data : Meant(wrote[c], r.data[k], Anywhere)
        BY <1>2, <1>3, <1>6, <2>1 DEF StreamOK
    <2>4. ReqOK(r, descs[c], wrote[c])
        BY <1>4, <2>1, <2>3 DEF ReqOK
    <2> QED BY <2>1, <2>2, <2>4 DEF Flushes
<1>7. CASE b # <<>> /\ ~st.append
    <2>1. PICK r : r = Put(c, "Write", h, b) /\ r \in Calls /\ r.kind = "Write" /\ r.fd = descs[c][h].fd /\ r.data = b
        BY <1>4, DataIs DEF Inv
    <2>2. PICK q : q = Seek(c, h, n) /\ q \in Calls /\ q.kind = "Seek" /\ q.fd = descs[c][h].fd /\ q.at = n
        BY <1>4, SeekIs DEF Inv
    <2>3. FlushRequests(c, s) = <<q, r>>
        BY <1>1, <1>3, <1>7, <2>1, <2>2 DEF FlushRequests, Put
    <2>4. Seeked(q, r, wrote[c])
        BY <1>2, <1>3, <1>7, <2>1, <2>2 DEF StreamOK, Seeked, WriteAt
    <2>5. ReqOK(q, descs[c], wrote[c]) /\ ReqOK(r, descs[c], wrote[c])
        BY <1>4, <2>1, <2>2, PlainReq
    <2> QED BY <2>1, <2>2, <2>3, <2>4, <2>5 DEF Flushes
<1> QED BY <1>5, <1>6, <1>7

\* flush_buffer has emptied the buffer.
LEMMA BufferTaken ==
    ASSUME Inv, NEW c \in Clients, c \in Adapters, NEW s \in DOMAIN streams[c], SetBuffer(c, s, <<>>)
    PROVE  /\ streams' \in [Clients -> Seq(Streams)] /\ Alone(streams, streams', c) /\ s \in DOMAIN streams'[c]
           /\ streams'[c][s].buffer = <<>> /\ streams'[c][s].h = streams[c][s].h /\ streams'[c][s].live = streams[c][s].live
           /\ \A t \in DOMAIN streams'[c] : StreamOK(streams'[c][t], descs[c], wrote[c])
<1>1. <<>> \in Seq(Nat)
    OBVIOUS
<1>2. /\ streams' \in [Clients -> Seq(Streams)] /\ Alone(streams, streams', c)
      /\ DOMAIN streams'[c] = DOMAIN streams[c] /\ streams'[c][s].buffer = <<>> /\ streams'[c][s].h = streams[c][s].h
      /\ streams'[c][s].live = streams[c][s].live
      /\ \A t \in DOMAIN streams[c] : t # s => streams'[c][t] = streams[c][t]
    BY <1>1, BufferSet DEF Inv
<1>3. StreamOK(streams'[c][s], descs[c], wrote[c])
    BY <1>2, StreamIs DEF StreamOK
<1> QED BY <1>2, <1>3, StreamIs

LEMMA DropStreamOK ==
    ASSUME Inv, NEW c \in Clients, c \in Adapters, DropStream(c)
    PROVE  ClientTypes' /\ OnlyClient(c) /\ ClientOK(c)'
<1>0. Idle(c) /\ UNCHANGED <<link, descs, wrote, config, fds, nextFd, conn>>
    BY DEF DropStream, serverVars, fsVars
<1>1. PICK s \in DOMAIN streams[c] :
          /\ streams[c][s].live /\ SetBuffer(c, s, <<>>)
          /\ Start(c, "drop", streams[c][s].h, s, FlushRequests(c, s))
    BY DEF DropStream, SetBuffer
<1>2. PICK h, todo : h = streams[c][s].h /\ todo = FlushRequests(c, s)
    OBVIOUS
<1>3. /\ streams' \in [Clients -> Seq(Streams)] /\ Alone(streams, streams', c) /\ s \in DOMAIN streams'[c]
      /\ streams'[c][s].buffer = <<>> /\ streams'[c][s].h = h /\ streams'[c][s].live
      /\ \A t \in DOMAIN streams'[c] : StreamOK(streams'[c][t], descs'[c], wrote'[c])
    BY <1>0, <1>1, <1>2, BufferTaken
<1>4. Flushes(todo, descs[c], wrote[c]) /\ h \in Nat /\ s \in Nat
    BY <1>2, FlushIs, StreamType DEF Inv
<1>5. todo \in Seq(Calls) /\ (todo = <<>> \/ todo[1].kind \in {"AppendWrite", "Seek"})
    BY <1>4, FlushKinds
<1>6. Start(c, "drop", h, s, todo)
    BY <1>1, <1>2
<1>7. /\ call' \in [Clients -> CallRecords] /\ Alone(call, call', c)
      /\ call'[c].op = "drop" /\ call'[c].h = h /\ call'[c].s = s /\ call'[c].todo = todo
    BY <1>4, <1>5, <1>6, Started DEF Inv
<1>8. TodoOK(call'[c], descs'[c], wrote'[c])
    BY <1>0, <1>4, <1>7, FlushTodo
<1>9. WorkOK(call'[c], descs'[c], streams'[c])
    BY <1>3, <1>7 DEF WorkOK
<1>10. Longer(wrote[c], wrote'[c]) /\ Kept(descs[c], descs'[c])
    BY <1>0, SameLonger DEF Inv
<1>11. ClientOK(c)'
    BY <1>0, <1>3, <1>5, <1>7, <1>8, <1>9, <1>10, IdleTodo, NewCall
<1>12. ClientTypes' /\ OnlyClient(c)
    BY <1>0, <1>3, <1>7, SameAlone DEF Inv, ClientTypes, OnlyClient
<1> QED BY <1>11, <1>12
\* A set of numbers has a minimum.
LEMMA MinOfSome ==
    ASSUME NEW S \in SUBSET Nat, S # {}
    PROVE  Min(S) \in S
<1>1. PICK b \in S : b \in Nat
    OBVIOUS
<1> DEFINE T == {y \in 0 .. b : b - y \in S}
<1>2. T \in SUBSET Nat /\ 0 \in T /\ \A y \in T : y <= b
    BY <1>1
<1>3. PICK m \in T : \A y \in T : y <= m
    <2> HIDE DEF T
    <2> QED BY <1>1, <1>2, MaxOfBounded
<1>4. ASSUME NEW x \in S PROVE b - m <= x
    <2>1. m \in 0 .. b /\ x \in Nat
        OBVIOUS
    <2>2. CASE x > b
        BY <1>1, <2>1, <2>2
    <2>3. CASE x <= b
        <3>1. b - x \in T
            BY <1>1, <2>1, <2>3
        <3> QED BY <1>1, <1>3, <2>1, <3>1
    <2> QED BY <1>1, <2>1, <2>2, <2>3
<1>5. \E x \in S : \A y \in S : x =< y
    BY <1>4
<1> QED BY <1>5 DEF Min

-----------------------------------------------------------------------------
(***************************************************************************)
(* Closing a descriptor                                                    *)
(***************************************************************************)

\* The state of one descriptor changes.
SetState(c, h, x) == descs' = [descs EXCEPT ![c][h].state = x]
LEMMA StateSet ==
    ASSUME ClientTypes, NEW c \in Clients, NEW h \in DOMAIN descs[c], NEW x \in {"pending", "released"}, SetState(c, h, x),
           descs[c][h].state = "released" => x = "released"
    PROVE  /\ descs' \in [Clients -> Seq(Descriptors)] /\ Alone(descs, descs', c) /\ Kept(descs[c], descs'[c])
           /\ DOMAIN descs'[c] = DOMAIN descs[c] /\ descs'[c][h].fd = descs[c][h].fd /\ descs'[c][h].state = x
           /\ \A k \in DOMAIN descs[c] : k # h => descs'[c][k] = descs[c][k]
<1>0. descs[c][h] \in Descriptors /\ descs[c] \in Seq(Descriptors) /\ descs \in [Clients -> Seq(Descriptors)]
    BY DescType DEF ClientTypes
<1> DEFINE d == [descs[c][h] EXCEPT !.state = x]
           ds == [descs[c] EXCEPT ![h] = d]
<1>1. d \in Descriptors /\ d.fd = descs[c][h].fd /\ d.state = x
    BY <1>0 DEF Descriptors
<1>2. descs' = [descs EXCEPT ![c] = ds]
    BY DEF SetState
<1> HIDE DEF d
<1>3. /\ ds \in Seq(Descriptors) /\ DOMAIN ds = DOMAIN descs[c] /\ ds[h] = d
      /\ \A k \in DOMAIN descs[c] : k # h => ds[k] = descs[c][k]
    BY <1>0, <1>1
<1> HIDE DEF ds
<1>4. descs' \in [Clients -> Seq(Descriptors)] /\ descs'[c] = ds /\ Alone(descs, descs', c)
    BY <1>0, <1>2, <1>3, SetOne
<1>5. Kept(descs[c], ds)
    BY <1>1, <1>3 DEF Kept
<1> QED BY <1>1, <1>3, <1>4, <1>5

LEMMA OwnState ==
    ASSUME Inv, NEW c \in Clients, NEW h \in DOMAIN descs[c], NEW x \in {"pending", "released"}, SetState(c, h, x),
           descs[c][h].state = "released" => x = "released", UNCHANGED <<serverVars, link>>
    PROVE  OwnInv'
<1>1. /\ Alone(descs, descs', c) /\ Kept(descs[c], descs'[c]) /\ DOMAIN descs'[c] = DOMAIN descs[c]
      /\ descs'[c] \in Seq(Descriptors) /\ descs[c] \in Seq(Descriptors)
    BY StateSet DEF Inv, ClientTypes
<1>2. UNCHANGED <<config, fds, nextFd, sessions, sessionFds, strays, conn>>
    BY DEF serverVars, fsVars, loopVars, tableVars
<1>3. descs[c] = <<>> => descs'[c] = <<>>
    BY <1>1
<1>4. \A e \in Clients : e # c => conn'[e] = conn[e] /\ descs'[e] = descs[e] /\ link'[e] = link[e]
    BY <1>1, <1>2 DEF Alone
<1>5. /\ \A k \in DOMAIN descs[c] : descs'[c][k].fd = descs[c][k].fd
      /\ \A k \in DOMAIN descs[c] : descs[c][k].state = "released" => descs'[c][k].state = "released"
    BY <1>1 DEF Kept
<1>6. Up(c)' => Up(c)
    BY <1>2 DEF Up
<1> QED BY <1>1, <1>2, <1>3, <1>4, <1>5, <1>6, OwnClient

\* release, when no live stream is left.
LEMMA Released ==
    ASSUME Inv, NEW c \in Clients, c \in Adapters, NEW h \in DOMAIN descs[c], Release(c, h), call[c].todo = <<>>,
           UNCHANGED <<serverVars, link, wrote>>, streams' \in [Clients -> Seq(Streams)], Alone(streams, streams', c),
           \A s \in DOMAIN streams'[c] : /\ StreamOK(streams'[c][s], descs[c], wrote[c])
                                         /\ streams'[c][s].live => streams'[c][s].h # h
    PROVE  ClientTypes' /\ OnlyClient(c) /\ ClientOK(c)' /\ OwnInv'
<1>0. UNCHANGED <<config, fds, nextFd, conn>>
    BY DEF serverVars, fsVars
<1>1. SetState(c, h, "released") /\ Start(c, "close", h, 0, <<OnFd(c, "Close", h)>>) /\ h \in Nat
    BY DescType DEF Release, SetState, Inv
<1>2. /\ descs' \in [Clients -> Seq(Descriptors)] /\ Alone(descs, descs', c) /\ Kept(descs[c], descs'[c])
      /\ DOMAIN descs'[c] = DOMAIN descs[c] /\ descs'[c][h].fd = descs[c][h].fd /\ descs'[c][h].state = "released"
      /\ \A k \in DOMAIN descs[c] : k # h => descs'[c][k] = descs[c][k]
    BY <1>1, StateSet DEF Inv
<1>3. PICK r : r = OnFd(c, "Close", h) /\ r \in Requests /\ r.kind = "Close" /\ r.fd = descs[c][h].fd
    BY OnFdIs DEF Inv, RequestKinds
<1> DEFINE todo == <<r>>
<1>4. todo \in Seq(Calls) /\ todo[1] = r
    BY <1>3 DEF Calls
<1>5. /\ call' \in [Clients -> CallRecords] /\ Alone(call, call', c) /\ call'[c].op = "close" /\ call'[c].todo = todo
    <2>1. Start(c, "close", h, 0, todo)
        BY <1>1, <1>3
    <2> HIDE DEF todo
    <2> QED BY <1>1, <1>4, <2>1, Started DEF Inv
<1>6. ReqOK(r, descs'[c], wrote'[c])
    BY <1>2, <1>3 DEF ReqOK
<1>7. TodoOK(call'[c], descs'[c], wrote'[c])
    BY <1>3, <1>5, <1>6, TodoOne
<1>8. WorkOK(call'[c], descs'[c], streams'[c])
    BY <1>5 DEF WorkOK
<1>9. \A s \in DOMAIN streams'[c] : StreamOK(streams'[c][s], descs'[c], wrote'[c])
    BY <1>2 DEF StreamOK
<1>10. Longer(wrote[c], wrote'[c])
    BY SameLonger DEF Inv
<1>11. ClientOK(c)'
    BY <1>0, <1>2, <1>3, <1>4, <1>5, <1>7, <1>8, <1>9, <1>10, NewCall
<1>12. ClientTypes' /\ OnlyClient(c)
    BY <1>0, <1>2, <1>5, SameAlone DEF Inv, ClientTypes, OnlyClient
<1>13. OwnInv'
    BY <1>1, OwnState
<1> QED BY <1>11, <1>12, <1>13

LEMMA DropDescriptorOK ==
    ASSUME Inv, NEW c \in Clients, c \in Adapters, DropDescriptor(c)
    PROVE  ClientTypes' /\ OnlyClient(c) /\ ClientOK(c)' /\ OwnInv'
<1>0. Idle(c) /\ UNCHANGED <<serverVars, link, streams, wrote>> /\ UNCHANGED <<config, fds, nextFd, conn>>
    BY DEF DropDescriptor, serverVars, fsVars
<1>1. PICK h \in Handles(c) :
          IF LiveStreams(c, h) # {} THEN SetState(c, h, "pending") /\ UNCHANGED call ELSE Release(c, h)
    BY DEF DropDescriptor, SetState
<1>2. h \in DOMAIN descs[c] /\ descs[c][h].state = "open"
    BY HandleIs
<1>3. CASE LiveStreams(c, h) # {}
    <2>1. SetState(c, h, "pending") /\ UNCHANGED call
        BY <1>1, <1>3
    <2>2. /\ descs' \in [Clients -> Seq(Descriptors)] /\ Alone(descs, descs', c) /\ Kept(descs[c], descs'[c])
          /\ DOMAIN descs'[c] = DOMAIN descs[c] /\ descs'[c][h].state = "pending"
          /\ \A k \in DOMAIN descs[c] : k # h => descs'[c][k] = descs[c][k]
        BY <1>2, <2>1, StateSet DEF Inv
    <2>3. call'[c].op = "none" /\ call'[c].todo = <<>>
        BY <1>0, <2>1, IdleTodo DEF Idle
    <2>4. TodoOK(call'[c], descs'[c], wrote'[c]) /\ WorkOK(call'[c], descs'[c], streams'[c])
        BY <2>3, TodoNone DEF WorkOK
    <2>5. \A s \in DOMAIN streams'[c] : StreamOK(streams'[c][s], descs'[c], wrote'[c])
        BY <1>0, <2>2, StreamIs DEF StreamOK
    <2>6. Longer(wrote[c], wrote'[c])
        BY <1>0, SameLonger DEF Inv
    <2>7. ClientOK(c)'
        BY <1>0, <2>2, <2>3, <2>4, <2>5, <2>6, IdleTodo, NewCall
    <2>8. ClientTypes' /\ OnlyClient(c)
        BY <1>0, <2>1, <2>2, SameAlone DEF Inv, ClientTypes, OnlyClient
    <2>9. OwnInv'
        BY <1>0, <1>2, <2>1, OwnState
    <2> QED BY <2>7, <2>8, <2>9
<1>4. CASE LiveStreams(c, h) = {}
    <2>1. Release(c, h)
        BY <1>1, <1>4
    <2>2. \A s \in DOMAIN streams'[c] : /\ StreamOK(streams'[c][s], descs[c], wrote[c])
                                        /\ streams'[c][s].live => streams'[c][s].h # h
        BY <1>0, <1>4, StreamIs DEF LiveStreams
    <2>3. streams' \in [Clients -> Seq(Streams)] /\ Alone(streams, streams', c)
        BY <1>0, SameAlone DEF Inv, ClientTypes
    <2> QED BY <1>0, <1>2, <2>1, <2>2, <2>3, IdleTodo, Released
<1> QED BY <1>3, <1>4
LEMMA StreamClosedOK ==
    ASSUME Inv, NEW c \in Clients, c \in Adapters, StreamClosed(c)
    PROVE  ClientTypes' /\ OnlyClient(c) /\ ClientOK(c)' /\ (UNCHANGED descs \/ OwnInv')
<1>0. /\ call[c].op = "drop" /\ call[c].todo = <<>> /\ UNCHANGED <<serverVars, link, wrote>>
      /\ UNCHANGED <<config, fds, nextFd, conn>>
    BY DEF StreamClosed, serverVars, fsVars
<1>1. PICK h, s : h = call[c].h /\ s = call[c].s
    OBVIOUS
<1>2. WorkOK(call[c], descs[c], streams[c])
    BY DEF Inv, CallInv, ClientOK
<1>3. s \in DOMAIN streams[c] /\ streams[c][s].h = h /\ streams[c][s].live /\ streams[c][s].buffer = <<>>
    BY <1>0, <1>1, <1>2 DEF WorkOK
<1>4. h \in DOMAIN descs[c]
    BY <1>3, StreamIs DEF StreamOK
<1>5. /\ NotLive(c, s)
      /\ IF descs[c][h].state = "pending" /\ LiveStreams(c, h) = {s}
         THEN Release(c, h)
         ELSE Return(c) /\ UNCHANGED descs
    BY <1>1 DEF StreamClosed, NotLive
<1>6. /\ streams' \in [Clients -> Seq(Streams)] /\ Alone(streams, streams', c)
      /\ DOMAIN streams'[c] = DOMAIN streams[c] /\ streams'[c][s].buffer = streams[c][s].buffer
      /\ streams'[c][s].h = streams[c][s].h /\ ~streams'[c][s].live
      /\ \A t \in DOMAIN streams[c] : t # s => streams'[c][t] = streams[c][t]
    BY <1>3, <1>5, LiveSet DEF Inv
<1>7. StreamOK(streams'[c][s], descs[c], wrote[c])
    BY <1>3, <1>4, <1>6 DEF StreamOK
<1>8. \A t \in DOMAIN streams'[c] : StreamOK(streams'[c][t], descs[c], wrote[c])
    BY <1>6, <1>7, StreamIs
<1>9. CASE descs[c][h].state = "pending" /\ LiveStreams(c, h) = {s}
    <2>1. Release(c, h)
        BY <1>5, <1>9
    <2>2. \A t \in DOMAIN streams'[c] : streams'[c][t].live => streams'[c][t].h # h
        BY <1>6, <1>9 DEF LiveStreams
    <2> QED BY <1>0, <1>4, <1>6, <1>8, <2>1, <2>2, Released
<1>10. CASE ~(descs[c][h].state = "pending" /\ LiveStreams(c, h) = {s})
    <2>1. Return(c) /\ UNCHANGED descs
        BY <1>5, <1>10
    <2>2. call' \in [Clients -> CallRecords] /\ Alone(call, call', c) /\ call'[c].op = "none" /\ call'[c].todo = <<>>
        BY <2>1, Returned DEF Inv
    <2>3. TodoOK(call'[c], descs'[c], wrote'[c]) /\ WorkOK(call'[c], descs'[c], streams'[c])
        BY <2>2, TodoNone DEF WorkOK
    <2>4. Longer(wrote[c], wrote'[c]) /\ Kept(descs[c], descs'[c])
        BY <1>0, <2>1, SameLonger DEF Inv
    <2>5. \A t \in DOMAIN streams'[c] : StreamOK(streams'[c][t], descs'[c], wrote'[c])
        BY <1>0, <1>8, <2>1
    <2>6. ClientOK(c)'
        BY <1>0, <2>2, <2>3, <2>4, <2>5, NewCall
    <2>7. ClientTypes' /\ OnlyClient(c)
        BY <1>0, <1>6, <2>1, <2>2, SameAlone DEF Inv, ClientTypes, OnlyClient
    <2> QED BY <2>1, <2>6, <2>7
<1> QED BY <1>9, <1>10

-----------------------------------------------------------------------------
(***************************************************************************)
(* fsync                                                                   *)
(***************************************************************************)

\* A call goes on with another stream.
SetWork(c, s, todo) == call' = [call EXCEPT ![c].s = s, ![c].todo = todo]
LEMMA WorkSet ==
    ASSUME ClientTypes, NEW c \in Clients, NEW s \in Nat, NEW todo \in Seq(Calls), SetWork(c, s, todo)
    PROVE  /\ call' \in [Clients -> CallRecords] /\ Alone(call, call', c)
           /\ call'[c].op = call[c].op /\ call'[c].h = call[c].h /\ call'[c].s = s /\ call'[c].todo = todo
<1> DEFINE cl == [call[c] EXCEPT !.s = s, !.todo = todo]
<1>0. call \in [Clients -> CallRecords] /\ call[c] \in CallRecords
    BY DEF ClientTypes
<1>1. cl \in CallRecords /\ cl.op = call[c].op /\ cl.h = call[c].h /\ cl.s = s /\ cl.todo = todo
    BY <1>0 DEF CallRecords
<1>2. call' = [call EXCEPT ![c] = cl]
    BY <1>0 DEF SetWork
<1> HIDE DEF cl
<1>3. call' \in [Clients -> CallRecords] /\ call'[c] = cl /\ Alone(call, call', c)
    BY <1>0, <1>1, <1>2, SetOne
<1> QED BY <1>1, <1>3

LEMMA FsyncNextOK ==
    ASSUME Inv, NEW c \in Clients, c \in Adapters, FsyncNext(c)
    PROVE  ClientTypes' /\ OnlyClient(c) /\ ClientOK(c)'
<1>0. /\ call[c].op = "fsync" /\ call[c].todo = <<>> /\ UNCHANGED <<serverVars, link, descs, wrote>>
      /\ UNCHANGED <<config, fds, nextFd, conn>>
    BY DEF FsyncNext, serverVars, fsVars
<1>1. PICK full, h : full = {s \in LiveStreams(c, call[c].h) : streams[c][s].buffer # <<>>} /\ h = call[c].h
    OBVIOUS
<1>2. h \in DOMAIN descs[c]
    BY <1>0, <1>1 DEF Inv, CallInv, ClientOK, WorkOK
<1>3. IF full # {} THEN SetWork(c, Min(full), FlushRequests(c, Min(full))) /\ SetBuffer(c, Min(full), <<>>)
      ELSE /\ Return(c) \/ call' = [call EXCEPT ![c].todo = <<OnFd(c, "Fsync", h)>>]
           /\ UNCHANGED streams
    BY <1>1 DEF FsyncNext, SetWork, SetBuffer
<1>4. CASE full # {}
    <2>1. PICK s : s = Min(full)
        OBVIOUS
    <2>2. full \in SUBSET Nat /\ full \subseteq DOMAIN streams[c]
        BY <1>1, StreamType DEF LiveStreams, Inv
    <2>3. s \in DOMAIN streams[c] /\ s \in Nat
        BY <1>4, <2>1, <2>2, MinOfSome
    <2>4. PICK todo : todo = FlushRequests(c, s)
        OBVIOUS
    <2>5. SetWork(c, s, todo) /\ SetBuffer(c, s, <<>>)
        BY <1>3, <1>4, <2>1, <2>4
    <2>6. /\ streams' \in [Clients -> Seq(Streams)] /\ Alone(streams, streams', c) /\ s \in DOMAIN streams'[c]
          /\ streams'[c][s].buffer = <<>>
          /\ \A t \in DOMAIN streams'[c] : StreamOK(streams'[c][t], descs'[c], wrote'[c])
        BY <1>0, <2>3, <2>5, BufferTaken
    <2>7. Flushes(todo, descs[c], wrote[c])
        BY <2>3, <2>4, FlushIs
    <2>8. todo \in Seq(Calls) /\ (todo = <<>> \/ todo[1].kind \in {"AppendWrite", "Seek"})
        BY <2>7, FlushKinds
    <2>9. /\ call' \in [Clients -> CallRecords] /\ Alone(call, call', c)
          /\ call'[c].op = "fsync" /\ call'[c].h = h /\ call'[c].s = s /\ call'[c].todo = todo
        BY <1>0, <1>1, <2>3, <2>5, <2>8, WorkSet DEF Inv
    <2>10. TodoOK(call'[c], descs'[c], wrote'[c])
        BY <1>0, <2>7, <2>9, FlushTodo
    <2>11. WorkOK(call'[c], descs'[c], streams'[c])
        BY <1>0, <1>2, <2>6, <2>9 DEF WorkOK
    <2>12. Longer(wrote[c], wrote'[c]) /\ Kept(descs[c], descs'[c])
        BY <1>0, SameLonger DEF Inv
    <2>13. ClientOK(c)'
        BY <1>0, <2>6, <2>8, <2>9, <2>10, <2>11, <2>12, NewCall
    <2>14. ClientTypes' /\ OnlyClient(c)
        BY <1>0, <2>6, <2>9, SameAlone DEF Inv, ClientTypes, OnlyClient
    <2> QED BY <2>13, <2>14
<1>5. CASE full = {}
    <2>0. UNCHANGED streams
        BY <1>3, <1>5
    <2>1. CASE Return(c)
        <3>1. call' \in [Clients -> CallRecords] /\ Alone(call, call', c) /\ call'[c].op = "none" /\ call'[c].todo = <<>>
            BY <2>1, Returned DEF Inv
        <3>2. TodoOK(call'[c], descs[c], wrote[c]) /\ WorkOK(call'[c], descs[c], streams[c])
            BY <3>1, TodoNone DEF WorkOK
        <3> QED BY <1>0, <2>0, <3>1, <3>2, CallOnly
    <2>2. CASE call' = [call EXCEPT ![c].todo = <<OnFd(c, "Fsync", h)>>]
        <3>1. PICK r : r = OnFd(c, "Fsync", h) /\ r \in Requests /\ r.kind = "Fsync" /\ r.fd = descs[c][h].fd
            BY <1>2, OnFdIs DEF Inv, RequestKinds
        <3> DEFINE todo == <<r>>
        <3>2. todo \in Seq(Calls) /\ todo[1] = r /\ Len(todo) = 1
            BY <3>1 DEF Calls
        <3>3. SetWork(c, call[c].s, todo)
            <4>1. call[c] \in CallRecords /\ call \in [Clients -> CallRecords]
                BY CallType DEF Inv, ClientTypes
            <4>2. [call[c] EXCEPT !.s = call[c].s, !.todo = todo] = [call[c] EXCEPT !.todo = todo]
                BY <4>1 DEF CallRecords
            <4>3. call' = [call EXCEPT ![c] = [call[c] EXCEPT !.todo = todo]]
                BY <2>2, <3>1
            <4>4. [call EXCEPT ![c].s = call[c].s, ![c].todo = todo] = [call EXCEPT ![c] = [call[c] EXCEPT !.s = call[c].s, !.todo = todo]]
                BY <4>1
            <4> QED BY <4>2, <4>3, <4>4 DEF SetWork
        <3>4. PICK s : s = call[c].s /\ s \in Nat
            BY CallType DEF Inv
        <3>5. /\ call' \in [Clients -> CallRecords] /\ Alone(call, call', c)
              /\ call'[c].op = "fsync" /\ call'[c].h = h /\ call'[c].todo = todo
            <4> HIDE DEF todo
            <4> QED BY <1>0, <1>1, <3>2, <3>3, <3>4, WorkSet DEF Inv
        <3>6. ReqOK(r, descs[c], wrote[c])
            BY <1>2, <3>1, PlainReq
        <3>7. TodoOK(call'[c], descs[c], wrote[c])
            BY <3>1, <3>5, <3>6, TodoOne
        <3>8. WorkOK(call'[c], descs[c], streams[c])
            BY <1>2, <3>1, <3>2, <3>5 DEF WorkOK
        <3> QED BY <1>0, <2>0, <3>1, <3>2, <3>5, <3>7, <3>8, CallOnly
    <2> QED BY <1>3, <1>5, <2>1, <2>2
<1> QED BY <1>4, <1>5
-----------------------------------------------------------------------------
(***************************************************************************)
(* Requests on the connection                                              *)
(***************************************************************************)

\* The connection of the client changes, and nothing else of it.
LEMMA FlightOnly ==
    ASSUME Inv, NEW c \in Clients, c \in Adapters, UNCHANGED <<config, fds, nextFd, descs, streams, call, wrote>>, Alone(link, link', c), Alone(conn, conn', c),
           link' \in [Clients -> Nat], FlightOK(conn'[c], call[c], link'[c], descs[c], wrote[c], Steady)
    PROVE  ClientTypes' /\ OnlyClient(c) /\ ClientOK(c)'
<1>1. ClientTypes' /\ OnlyClient(c)
    BY SameAlone DEF Inv, ClientTypes, OnlyClient
<1>2. ClientOK(c)
    BY DEF Inv, CallInv
<1>3. Steady' = Steady
    BY DEF Steady
<1>4. ClientOK(c)'
    BY <1>2, <1>3 DEF ClientOK
<1> QED BY <1>1, <1>4

LEMMA ConnectOK ==
    ASSUME Inv, NEW c \in Clients, c \in Adapters, Connect(c)
    PROVE  ClientTypes' /\ OnlyClient(c) /\ ClientOK(c)' /\ OwnInv'
<1>0. /\ UNCHANGED <<config, fds, nextFd, sessions, sessionFds, strays, descs, streams, call, wrote, link>> /\ link[c] = 0
      /\ call[c].todo # <<>>
    BY DEF Connect, fsVars, tableVars, loopVars, adapterVars
<1>1. PICK r : r = ConnectRequest(2) /\ r \in Requests /\ r.kind = "Connect" /\ SendRequest(c, r)
    BY ConnectRequestIs DEF Connect
<1>2. ConnNow(c, "up", r, NoResponse)
    BY <1>1, SentNow DEF Inv
<1>3. /\ FlightOK(conn[c], call[c], link[c], descs[c], wrote[c], Steady) /\ TodoOK(call[c], descs[c], wrote[c])
      /\ link \in [Clients -> Nat]
    BY DEF Inv, CallInv, ClientOK, ClientTypes
<1>4. descs[c] = <<>>
    BY <1>0 DEF Inv, OwnInv, KnownInv
<1>5. PosOK(call[c].todo[1], wrote[c], Steady)
    <2>1. ReqOK(call[c].todo[1], descs[c], wrote[c])
        BY <1>0, <1>3, CallType DEF Inv, TodoOK
    <2>2. call[c].todo[1].fd = 0
        BY <1>4, <2>1 DEF ReqOK
    <2> QED BY <2>2, NoFdZero DEF Inv, PosOK
<1>6. FlightOK(conn'[c], call[c], link'[c], descs[c], wrote[c], Steady)
    BY <1>0, <1>1, <1>2, <1>5, ResponseIs DEF FlightOK, ConnNow, Real
<1>7. ClientTypes' /\ OnlyClient(c) /\ ClientOK(c)'
    BY <1>0, <1>2, <1>3, <1>6, SameAlone, FlightOnly DEF ConnNow, Alone
<1>8. OwnInv'
    <2>1. /\ \A e \in Clients : e # c => conn'[e] = conn[e] /\ descs'[e] = descs[e] /\ link'[e] = link[e]
          /\ conn'[c].resp.kind # "Fd"
        BY <1>0, <1>2, ResponseIs DEF ConnNow
    <2> QED BY <1>0, <1>4, <2>1, OwnClient
<1> QED BY <1>7, <1>8

LEMMA ConnectedOK ==
    ASSUME Inv, NEW c \in Clients, c \in Adapters, Connected(c)
    PROVE  ClientTypes' /\ OnlyClient(c) /\ ClientOK(c)' /\ OwnInv'
<1>0. UNCHANGED <<config, fds, nextFd, sessions, sessionFds, strays, descs, streams, call, wrote>> /\ link[c] = 0
    BY DEF Connected, fsVars, tableVars, loopVars
<1>1. /\ FlightOK(conn[c], call[c], link[c], descs[c], wrote[c], Steady) /\ TodoOK(call[c], descs[c], wrote[c])
      /\ link \in [Clients -> Nat] /\ Shaken(c) /\ conn[c].resp \in Responses
    BY ReqType DEF Inv, CallInv, ClientOK, ClientTypes, LoopInv
<1>2. descs[c] = <<>>
    BY <1>0 DEF Inv, OwnInv, KnownInv
<1>3. call[c].todo # <<>> => PosOK(call[c].todo[1], wrote[c], Steady)
    <2> SUFFICES ASSUME call[c].todo # <<>> PROVE PosOK(call[c].todo[1], wrote[c], Steady)
        OBVIOUS
    <2>1. ReqOK(call[c].todo[1], descs[c], wrote[c])
        BY <1>1, CallType DEF Inv, TodoOK
    <2>2. call[c].todo[1].fd = 0
        BY <1>2, <2>1 DEF ReqOK
    <2> QED BY <2>2, NoFdZero DEF Inv, PosOK
<1>4. CASE conn[c].resp.kind = "Connected" /\ link' = [link EXCEPT ![c] = conn[c].resp.version]
           /\ ConnNow(c, conn[c].state, conn[c].req, NoResponse)
    <2>1. link' \in [Clients -> Nat] /\ Alone(link, link', c) /\ link'[c] > 0
        BY <1>1, <1>4 DEF Shaken, Alone, Responses
    <2>2. conn[c].req = NoRequest /\ ~Real(NoRequest)
        BY <1>1, <1>4 DEF Shaken, Real, NoRequest, Request
    <2>3. FlightOK(conn'[c], call[c], link'[c], descs[c], wrote[c], Steady)
        BY <1>3, <1>4, <2>2, ResponseIs DEF FlightOK, ConnNow
    <2>4. ClientTypes' /\ OnlyClient(c) /\ ClientOK(c)'
        BY <1>0, <1>4, <2>1, <2>3, FlightOnly DEF ConnNow, Alone
    <2>5. OwnInv'
        <3>1. /\ \A e \in Clients : e # c => conn'[e] = conn[e] /\ descs'[e] = descs[e] /\ link'[e] = link[e]
              /\ conn'[c].resp.kind # "Fd"
            BY <1>0, <1>4, <2>1, ResponseIs DEF ConnNow, Alone
        <3> QED BY <1>0, <1>2, <2>1, <3>1, OwnClient
    <2> QED BY <2>4, <2>5
<1>5. CASE UNCHANGED link /\ ConnNow(c, "up", ConnectRequest(1), NoResponse)
    <2>1. ~Real(ConnectRequest(1))
        BY ConnectRequestIs DEF Real
    <2>2. FlightOK(conn'[c], call[c], link'[c], descs[c], wrote[c], Steady)
        BY <1>0, <1>3, <1>5, <2>1, ResponseIs DEF FlightOK, ConnNow
    <2>3. ClientTypes' /\ OnlyClient(c) /\ ClientOK(c)'
        BY <1>0, <1>1, <1>5, <2>2, SameAlone, FlightOnly DEF ConnNow, Alone
    <2>4. OwnInv'
        <3>1. /\ \A e \in Clients : e # c => conn'[e] = conn[e] /\ descs'[e] = descs[e] /\ link'[e] = link[e]
              /\ conn'[c].resp.kind # "Fd"
            BY <1>0, <1>5, ResponseIs DEF ConnNow
        <3> QED BY <1>0, <1>2, <1>5, <3>1, OwnClient
    <2> QED BY <2>3, <2>4
<1> QED BY <1>4, <1>5, ConnectedNow DEF Inv

LEMMA SendOK ==
    ASSUME Inv, NEW c \in Clients, c \in Adapters, Send(c)
    PROVE  ClientTypes' /\ OnlyClient(c) /\ ClientOK(c)' /\ OwnInv'
<1>0. /\ UNCHANGED <<config, fds, nextFd, sessions, sessionFds, strays, descs, streams, call, wrote, link>> /\ link[c] > 0
      /\ call[c].todo # <<>> /\ conn[c].state = "up" /\ conn[c].resp = NoResponse
    BY DEF Send, Waiting, fsVars, tableVars, loopVars, adapterVars
<1>1. PICK r : r = call[c].todo[1] /\ r \in Calls /\ ConnNow(c, "up", r, NoResponse)
    BY <1>0, SendNow, FirstRequest, CallType DEF Inv
<1>2. /\ FlightOK(conn[c], call[c], link[c], descs[c], wrote[c], Steady) /\ TodoOK(call[c], descs[c], wrote[c])
      /\ link \in [Clients -> Nat]
    BY DEF Inv, CallInv, ClientOK, ClientTypes
<1>3. ReqOK(r, descs[c], wrote[c]) /\ PosOK(r, wrote[c], Steady)
    BY <1>0, <1>1, <1>2, CallType DEF Inv, TodoOK, FlightOK
<1>4. FlightOK(conn'[c], call[c], link'[c], descs[c], wrote[c], Steady)
    BY <1>0, <1>1, <1>3, ResponseIs DEF FlightOK, ConnNow
<1>5. ClientTypes' /\ OnlyClient(c) /\ ClientOK(c)'
    BY <1>0, <1>1, <1>2, <1>4, SameAlone, FlightOnly DEF ConnNow, Alone
<1>6. OwnInv'
    <2>1. /\ \A e \in Clients : e # c => conn'[e] = conn[e] /\ descs'[e] = descs[e] /\ link'[e] = link[e]
          /\ conn'[c].resp.kind # "Fd" /\ Up(c)
        BY <1>0, <1>1, ResponseIs DEF ConnNow, Up
    <2> QED BY <1>0, <2>1, OwnClient
<1> QED BY <1>5, <1>6
-----------------------------------------------------------------------------
(***************************************************************************)
(* What a call does with an answer                                         *)
(***************************************************************************)

\* It returns, or goes on with the requests todo.
GoesOn(c, todo) ==
    call'[c].op = call[c].op /\ call'[c].h = call[c].h /\ call'[c].s = call[c].s /\ call'[c].todo = todo
CallAfter(c, resp) ==
    /\ call' \in [Clients -> CallRecords] /\ Alone(call, call', c)
    /\ \/ call'[c].op = "none" /\ call'[c].todo = <<>>
       \/ /\ GoesOn(c, Tail(call[c].todo)) /\ resp.kind = "Ok" /\ call[c].op # "open"
          /\ call[c].op \in {"call", "close"} => Len(call[c].todo) > 1
       \/ GoesOn(c, <<>>) /\ call[c].op = "drop"
       \/ GoesOn(c, call[c].todo) /\ call[c].op = "open"
\* The offset of a stream that has been flushed is the only change in streams.
StreamsAfter(c) ==
    /\ streams' \in [Clients -> Seq(Streams)] /\ Alone(streams, streams', c)
    /\ DOMAIN streams'[c] = DOMAIN streams[c]
    /\ \A s \in DOMAIN streams[c] :
          /\ streams'[c][s].buffer = streams[c][s].buffer /\ streams'[c][s].h = streams[c][s].h
          /\ streams'[c][s].live = streams[c][s].live
          /\ streams'[c][s] = streams[c][s] \/ streams[c][s].buffer = <<>>
\* A new descriptor is the only change in descs.
DescsAfter(c, resp) ==
    \/ UNCHANGED descs
    \/ /\ resp.kind = "Fd" /\ call'[c].op = "none"
       /\ \E d \in Descriptors : d.fd = resp.fd /\ descs' = [descs EXCEPT ![c] = Append(descs[c], d)]

LEMMA SameStreams ==
    ASSUME Inv, NEW c \in Clients, UNCHANGED streams
    PROVE  StreamsAfter(c)
BY SameAlone DEF StreamsAfter, Inv, ClientTypes

LEMMA ReturnAfter ==
    ASSUME Inv, NEW c \in Clients, NEW resp, Return(c)
    PROVE  CallAfter(c, resp) /\ call'[c].op = "none"
BY Returned DEF CallAfter, Inv

\* The rest of the requests, or none.
SetTodo(c, todo) == call' = [call EXCEPT ![c].todo = todo]
LEMMA TodoNow ==
    ASSUME Inv, NEW c \in Clients, NEW todo \in Seq(Calls), SetTodo(c, todo)
    PROVE  call' \in [Clients -> CallRecords] /\ Alone(call, call', c) /\ GoesOn(c, todo)
BY TodoSet DEF Inv, SetTodo, GoesOn

LEMMA SomeLeft ==
    ASSUME NEW S, NEW q \in Seq(S), q # <<>>
    PROVE  Tail(q) \in Seq(S) /\ (Len(q) # 1 => Len(q) > 1)
<1>1. Tail(q) \in Seq(S)
    OBVIOUS
<1>2. PICK n \in Nat : n = Len(q) /\ n # 0
    <2>1. Len(q) # 0 /\ Len(q) \in Nat
        OBVIOUS
    <2> QED BY <2>1
<1> QED BY <1>1, <1>2

LEMMA TailAfter ==
    ASSUME Inv, NEW c \in Clients, call[c].todo # <<>>, NEW resp, resp.kind = "Ok", call[c].op # "open",
           call[c].op \in {"call", "close"} => Len(call[c].todo) > 1,
           SetTodo(c, Tail(call[c].todo))
    PROVE  CallAfter(c, resp)
<1>0. call[c].todo \in Seq(Calls)
    BY CallType DEF Inv
<1>1. PICK todo : todo = Tail(call[c].todo) /\ todo \in Seq(Calls)
    BY <1>0, SomeLeft
<1>2. call' \in [Clients -> CallRecords] /\ Alone(call, call', c) /\ GoesOn(c, todo)
    BY <1>1, TodoNow
<1> QED BY <1>1, <1>2 DEF CallAfter

LEMMA OpenAfter ==
    ASSUME Inv, NEW c \in Clients, call[c].todo # <<>>, NEW resp \in Responses, call[c].op = "open", OpenAnswered(c, resp)
    PROVE  CallAfter(c, resp) /\ DescsAfter(c, resp)
<1>1. CASE resp.kind = "Fd"
    <2> DEFINE d == [fd |-> resp.fd, write |-> Head(call[c].todo).write, state |-> "open"]
    <2>1. Return(c) /\ descs' = [descs EXCEPT ![c] = Append(@, d)]
        BY <1>1 DEF OpenAnswered
    <2>2. d \in Descriptors /\ d.fd = resp.fd
        <3>1. Head(call[c].todo).write \in BOOLEAN
            BY FirstRequest DEF Inv, Requests
        <3>2. resp.fd \in Nat
            BY DEF Responses
        <3> QED BY <3>1, <3>2 DEF Descriptors
    <2>3. descs' = [descs EXCEPT ![c] = Append(descs[c], d)]
        BY <2>1
    <2> HIDE DEF d
    <2> QED BY <1>1, <2>1, <2>2, <2>3, ReturnAfter DEF DescsAfter
<1>2. CASE resp.kind = "Busy" /\ call[c].retries < MaxRetries /\ UNCHANGED descs /\ call' = [call EXCEPT ![c].retries = @ + 1]
    <2>1. PICK n : n = call[c].retries + 1 /\ n \in Nat
        BY CallType DEF Inv
    <2>2. call' = [call EXCEPT ![c].retries = n]
        BY <1>2, <2>1
    <2>3. /\ call' \in [Clients -> CallRecords] /\ Alone(call, call', c) /\ GoesOn(c, call[c].todo)
        BY <2>1, <2>2, RetriesSet DEF Inv, GoesOn
    <2> QED BY <1>2, <2>3 DEF CallAfter, DescsAfter
<1>3. CASE Return(c) /\ UNCHANGED descs
    BY <1>3, ReturnAfter DEF DescsAfter
<1> QED BY <1>1, <1>2, <1>3 DEF OpenAnswered

LEMMA AnsweredAfter ==
    ASSUME Inv, NEW c \in Clients, call[c].todo # <<>>, NEW resp \in Responses, Answered(c, resp)
    PROVE  CallAfter(c, resp) /\ DescsAfter(c, resp) /\ StreamsAfter(c)
<1>1. CASE call[c].op = "open"
    <2>1. OpenAnswered(c, resp) /\ UNCHANGED streams
        BY <1>1 DEF Answered
    <2> QED BY <1>1, <2>1, OpenAfter, SameStreams
<1>2. CASE call[c].op \in {"call", "close"}
    <2>1. /\ IF resp.kind = "Ok" /\ Len(call[c].todo) # 1 THEN SetTodo(c, Tail(call[c].todo)) ELSE Return(c)
          /\ UNCHANGED <<descs, streams>>
        BY <1>2 DEF Answered, SetTodo
    <2>2. DescsAfter(c, resp) /\ StreamsAfter(c)
        BY <2>1, SameStreams DEF DescsAfter
    <2>3. CASE resp.kind = "Ok" /\ Len(call[c].todo) # 1
        <3>1. Len(call[c].todo) > 1
            <4>1. call[c].todo \in Seq(Calls)
                BY CallType DEF Inv
            <4> QED BY <2>3, <4>1, SomeLeft
        <3> QED BY <1>2, <2>1, <2>2, <2>3, <3>1, TailAfter
    <2>4. CASE ~(resp.kind = "Ok" /\ Len(call[c].todo) # 1)
        BY <2>1, <2>2, <2>4, ReturnAfter
    <2> QED BY <2>3, <2>4
<1>3. CASE call[c].op = "drop"
    <2>1. /\ SetTodo(c, IF resp.kind = "Ok" THEN Tail(call[c].todo) ELSE <<>>)
          /\ UNCHANGED <<descs, streams>>
        BY <1>3 DEF Answered, SetTodo
    <2>2. DescsAfter(c, resp) /\ StreamsAfter(c)
        BY <2>1, SameStreams DEF DescsAfter
    <2>3. CASE resp.kind = "Ok"
        <3>1. SetTodo(c, Tail(call[c].todo))
            BY <2>1, <2>3
        <3> QED BY <1>3, <2>2, <2>3, <3>1, TailAfter
    <2>4. CASE resp.kind # "Ok"
        <3>1. SetTodo(c, <<>>) /\ <<>> \in Seq(Calls)
            BY <2>1, <2>4
        <3>2. call' \in [Clients -> CallRecords] /\ Alone(call, call', c) /\ GoesOn(c, <<>>)
            BY <3>1, TodoNow
        <3> QED BY <1>3, <2>2, <3>2 DEF CallAfter
    <2> QED BY <2>3, <2>4
<1>4. CASE call[c].op = "fsync"
    <2> DEFINE ok == resp.kind = "Ok"
               last == Len(call[c].todo) = 1
               flushed == ok /\ last /\ call[c].op = "fsync" /\ Head(call[c].todo).kind # "Fsync"
    <2>1. /\ IF ok /\ (~last \/ flushed) THEN SetTodo(c, Tail(call[c].todo)) ELSE Return(c)
          /\ IF flushed /\ ~streams[c][call[c].s].append
             THEN SetOffset(c, call[c].s, streams[c][call[c].s].offset + Len(Head(call[c].todo).data))
             ELSE UNCHANGED streams
          /\ UNCHANGED descs
        BY <1>4 DEF Answered, SetTodo, SetOffset
    <2>2. DescsAfter(c, resp)
        BY <2>1 DEF DescsAfter
    <2>3. CallAfter(c, resp)
        <3>1. CASE ok /\ (~last \/ flushed)
            BY <1>4, <2>1, <3>1, TailAfter
        <3>2. CASE ~(ok /\ (~last \/ flushed))
            BY <2>1, <3>2, ReturnAfter
        <3> QED BY <3>1, <3>2
    <2>4. StreamsAfter(c)
        <3>1. CASE flushed /\ ~streams[c][call[c].s].append
            <4>1. PICK s : s = call[c].s
                OBVIOUS
            <4>2. Head(call[c].todo) = call[c].todo[1] /\ Head(call[c].todo) \in Calls
                BY CallType, FirstRequest DEF Inv
            <4>3. WorkOK(call[c], descs[c], streams[c])
                BY <1>4 DEF Inv, CallInv, ClientOK, DirectOK, Adapters
            <4>4. s \in DOMAIN streams[c] /\ streams[c][s].buffer = <<>>
                BY <1>4, <3>1, <4>1, <4>2, <4>3 DEF WorkOK
            <4>5. PICK n : n = streams[c][s].offset + Len(Head(call[c].todo).data)
                OBVIOUS
            <4>6. n \in Nat
                <5>1. streams[c][s].offset \in Nat
                    BY <4>4, StreamType DEF Inv
                <5>2. Head(call[c].todo).data \in Seq(Nat)
                    BY <4>2 DEF Calls, Requests
                <5>3. Len(Head(call[c].todo).data) \in Nat
                    BY <5>2
                <5> QED BY <4>5, <5>1, <5>3
            <4>7. SetOffset(c, s, n)
                BY <2>1, <3>1, <4>1, <4>5
            <4>8. /\ streams' \in [Clients -> Seq(Streams)] /\ Alone(streams, streams', c)
                  /\ DOMAIN streams'[c] = DOMAIN streams[c] /\ streams'[c][s].buffer = streams[c][s].buffer
                  /\ streams'[c][s].h = streams[c][s].h /\ streams'[c][s].live = streams[c][s].live
                  /\ \A t \in DOMAIN streams[c] : t # s => streams'[c][t] = streams[c][t]
                BY <4>4, <4>6, <4>7, OffsetSet DEF Inv
            <4> QED BY <4>4, <4>8 DEF StreamsAfter
        <3>2. CASE ~(flushed /\ ~streams[c][call[c].s].append)
            BY <2>1, <3>2, SameStreams
        <3> QED BY <3>1, <3>2
    <2> QED BY <2>2, <2>3, <2>4
<1> QED BY <1>1, <1>2, <1>3, <1>4 DEF Answered
\* The call goes on in order.
LEMMA AfterOK ==
    ASSUME Inv, NEW c \in Clients, c \in Adapters, call[c].todo # <<>>, NEW resp, CallAfter(c, resp), StreamsAfter(c), UNCHANGED descs
    PROVE  /\ TodoOK(call'[c], descs[c], wrote[c]) /\ WorkOK(call'[c], descs[c], streams'[c])
           /\ \A s \in DOMAIN streams'[c] : StreamOK(streams'[c][s], descs[c], wrote[c])
<1>0. /\ TodoOK(call[c], descs[c], wrote[c]) /\ WorkOK(call[c], descs[c], streams[c])
      /\ call[c].todo \in Seq(Calls)
    BY CallType DEF Inv, CallInv, ClientOK
<1>1. \A s \in DOMAIN streams'[c] : StreamOK(streams'[c][s], descs[c], wrote[c])
    <2> SUFFICES ASSUME NEW s \in DOMAIN streams[c] PROVE StreamOK(streams'[c][s], descs[c], wrote[c])
        BY DEF StreamsAfter
    <2>1. StreamOK(streams[c][s], descs[c], wrote[c])
        BY StreamIs
    <2>2. CASE streams'[c][s] = streams[c][s]
        BY <2>1, <2>2
    <2>3. CASE streams[c][s].buffer = <<>>
        BY <2>1, <2>3 DEF StreamsAfter, StreamOK
    <2> QED BY <2>2, <2>3 DEF StreamsAfter
<1>2. CASE call'[c].op = "none" /\ call'[c].todo = <<>>
    BY <1>1, <1>2, TodoNone DEF WorkOK
<1>3. CASE GoesOn(c, Tail(call[c].todo)) /\ call[c].op # "open" /\ (call[c].op \in {"call", "close"} => Len(call[c].todo) > 1)
    <2>1. PICK todo : todo = call[c].todo /\ todo \in Seq(Calls) /\ todo # <<>> /\ Len(todo) \in Nat /\ Len(todo) > 0
        BY <1>0
    <2>2. /\ Tail(todo) \in Seq(Calls) /\ Len(Tail(todo)) = Len(todo) - 1
          /\ DOMAIN Tail(todo) = 1 .. Len(todo) - 1 /\ DOMAIN todo = 1 .. Len(todo)
          /\ \A i \in 1 .. Len(todo) - 1 : Tail(todo)[i] = todo[i + 1]
        BY <2>1
    <2>3. PICK rest : rest = Tail(todo)
        OBVIOUS
    <2>4. \A i \in DOMAIN rest : i \in Nat /\ i + 1 \in DOMAIN todo /\ rest[i] = todo[i + 1]
                                 /\ (i > 1 => i - 1 \in DOMAIN rest /\ rest[i - 1] = todo[(i + 1) - 1] /\ i + 1 > 1)
        <3> SUFFICES ASSUME NEW i \in DOMAIN rest
                     PROVE  /\ i \in Nat /\ i + 1 \in DOMAIN todo /\ rest[i] = todo[i + 1]
                            /\ i > 1 => i - 1 \in DOMAIN rest /\ rest[i - 1] = todo[(i + 1) - 1] /\ i + 1 > 1
            OBVIOUS
        <3>1. PICK n \in Nat : n = Len(todo)
            BY <2>1
        <3>2. /\ DOMAIN rest = 1 .. n - 1 /\ DOMAIN todo = 1 .. n
              /\ \A j \in 1 .. n - 1 : rest[j] = todo[j + 1]
            BY <2>2, <2>3, <3>1
        <3>3. i \in 1 .. n - 1 /\ i + 1 \in 1 .. n /\ (i > 1 => i - 1 \in 1 .. n - 1 /\ (i - 1) + 1 = (i + 1) - 1)
            BY <3>1, <3>2
        <3> QED BY <3>2, <3>3
    <2>5. \A i \in DOMAIN rest : ReqOK(rest[i], descs[c], wrote[c])
        BY <1>0, <2>1, <2>4 DEF TodoOK
    <2>6. \A i \in DOMAIN rest : i > 1 /\ rest[i].kind = "Write" => Seeked(rest[i - 1], rest[i], wrote[c])
        BY <1>0, <2>1, <2>4 DEF TodoOK
    <2>7. rest # <<>> => Len(todo) > 1
        BY <2>1, <2>2, <2>3
    <2>8. call[c].op # "none" /\ (call[c].op \in {"call", "close"} => rest # <<>>)
        BY <1>0, <1>3, <2>1, <2>2, <2>3 DEF TodoOK
    <2>9. GoesOn(c, rest)
        BY <1>3, <2>1, <2>3
    <2>10. TodoOK(call'[c], descs[c], wrote[c])
        BY <1>3, <2>5, <2>6, <2>8, <2>9 DEF TodoOK, GoesOn
    <2>11. WorkOK(call'[c], descs[c], streams'[c])
        BY <1>0, <2>1, <2>7, <2>9 DEF WorkOK, GoesOn, StreamsAfter
    <2> QED BY <1>1, <2>10, <2>11
<1>4. CASE GoesOn(c, <<>>) /\ call[c].op = "drop"
    <2>1. TodoOK(call'[c], descs[c], wrote[c])
        BY <1>4, TodoNone DEF GoesOn
    <2>2. WorkOK(call'[c], descs[c], streams'[c])
        BY <1>0, <1>4 DEF WorkOK, GoesOn, StreamsAfter
    <2> QED BY <1>1, <2>1, <2>2
<1>5. CASE GoesOn(c, call[c].todo) /\ call[c].op = "open"
    <2>1. TodoOK(call'[c], descs[c], wrote[c])
        BY <1>0, <1>5 DEF TodoOK, GoesOn
    <2>2. WorkOK(call'[c], descs[c], streams'[c])
        BY <1>5 DEF WorkOK, GoesOn
    <2> QED BY <1>1, <2>1, <2>2
<1> QED BY <1>2, <1>3, <1>4, <1>5 DEF CallAfter

LEMMA IoErrorOK ==
    ASSUME Inv, NEW c \in Clients, c \in Adapters, IoError(c)
    PROVE  ClientTypes' /\ OnlyClient(c) /\ ClientOK(c)' /\ UNCHANGED descs
<1>0. /\ call[c].todo # <<>> /\ conn[c].state # "up" /\ Answered(c, Error) /\ UNCHANGED <<serverVars, link, wrote>>
      /\ UNCHANGED <<config, fds, nextFd, conn>>
    BY DEF IoError, serverVars, fsVars
<1>1. PICK resp : resp = Error /\ resp \in Responses /\ resp.kind = "Error"
    <2>1. Error \in Responses /\ Error.kind = "Error"
        BY DEF Error, Response, Responses, ResponseKinds
    <2> QED BY <2>1
<1>2. CallAfter(c, resp) /\ DescsAfter(c, resp) /\ StreamsAfter(c)
    BY <1>0, <1>1, AnsweredAfter
<1>3. UNCHANGED descs
    BY <1>1, <1>2 DEF DescsAfter
<1>4. /\ TodoOK(call'[c], descs[c], wrote[c]) /\ WorkOK(call'[c], descs[c], streams'[c])
      /\ \A s \in DOMAIN streams'[c] : StreamOK(streams'[c][s], descs[c], wrote[c])
    BY <1>0, <1>2, <1>3, AfterOK
<1>5. FlightOK(conn[c], call[c], link[c], descs[c], wrote[c], Steady)
    BY DEF Inv, CallInv, ClientOK
<1>6. FlightOK(conn[c], call'[c], link[c], descs[c], wrote[c], Steady)
    BY <1>0, <1>5 DEF FlightOK
<1>7. ClientOK(c)'
    <2>1. Steady' = Steady
        BY <1>0 DEF Steady
    <2> QED BY <1>0, <1>3, <1>4, <1>6, <2>1 DEF ClientOK
<1>8. ClientTypes' /\ OnlyClient(c)
    BY <1>0, <1>2, <1>3, SameAlone DEF Inv, ClientTypes, OnlyClient, CallAfter, StreamsAfter
<1> QED BY <1>3, <1>7, <1>8
LEMMA ReceiveOK ==
    ASSUME Inv, NEW c \in Clients, c \in Adapters, Receive(c)
    PROVE  ClientTypes' /\ OnlyClient(c) /\ ClientOK(c)' /\ OwnInv'
<1>0. /\ link[c] > 0 /\ conn[c].state = "up" /\ conn[c].resp # NoResponse
      /\ UNCHANGED <<config, fds, nextFd, sessions, sessionFds, strays, link, wrote>>
    BY DEF Receive, fsVars, tableVars, loopVars
<1>1. /\ FlightOK(conn[c], call[c], link[c], descs[c], wrote[c], Steady) /\ TodoOK(call[c], descs[c], wrote[c])
      /\ Shaken(c) /\ call[c].todo \in Seq(Calls)
    BY CallType DEF Inv, CallInv, ClientOK, LoopInv
<1>2. call[c].todo # <<>>
    BY <1>0, <1>1 DEF FlightOK
<1>3. PICK resp : resp = conn[c].resp /\ resp \in Responses
    BY ReqType DEF Inv
<1>4. CallAfter(c, resp) /\ DescsAfter(c, resp) /\ StreamsAfter(c)
    BY <1>2, <1>3, AnsweredAfter DEF Receive
<1>5. ConnNow(c, conn[c].state, conn[c].req, NoResponse)
    BY TakenNow DEF Receive, Inv
<1>6. conn[c].req = NoRequest /\ ~Real(NoRequest)
    BY <1>0, <1>1 DEF Shaken, Real, NoRequest, Request
<1>7. CASE UNCHANGED descs
    <2>1. /\ TodoOK(call'[c], descs[c], wrote[c]) /\ WorkOK(call'[c], descs[c], streams'[c])
          /\ \A s \in DOMAIN streams'[c] : StreamOK(streams'[c][s], descs[c], wrote[c])
        BY <1>2, <1>4, <1>7, AfterOK
    <2>2. call'[c].todo # <<>> => PosOK(call'[c].todo[1], wrote[c], Steady)
        <3>1. CASE call'[c].todo = <<>>
            BY <3>1
        <3>2. CASE GoesOn(c, Tail(call[c].todo)) /\ resp.kind = "Ok" /\ call'[c].todo # <<>>
            <4>1. PICK q, r : q = call[c].todo[1] /\ r = call[c].todo[2]
                OBVIOUS
            <4>2. 2 \in DOMAIN call[c].todo /\ call'[c].todo[1] = r
                <5>1. PICK todo : todo = call[c].todo /\ todo \in Seq(Calls) /\ todo # <<>> /\ Tail(todo) # <<>>
                    BY <1>1, <1>2, <3>2 DEF GoesOn
                <5>2. Len(todo) \in Nat /\ Len(todo) # 0 /\ Len(Tail(todo)) = Len(todo) - 1 /\ Len(Tail(todo)) # 0
                    <6>1. Tail(todo) \in Seq(Calls) /\ Len(Tail(todo)) = Len(todo) - 1
                        BY <5>1
                    <6>2. PICK rest : rest = Tail(todo)
                        OBVIOUS
                    <6>3. rest \in Seq(Calls) /\ rest # <<>>
                        BY <5>1, <6>1, <6>2
                    <6>4. Len(rest) # 0
                        BY <6>3
                    <6> QED BY <5>1, <6>1, <6>2, <6>4
                <5>3. 2 \in 1 .. Len(todo) /\ Tail(todo)[1] = todo[2]
                    BY <5>1, <5>2
                <5> QED BY <3>2, <4>1, <5>1, <5>3 DEF GoesOn
            <4>3. r.kind = "Write" => Seeked(q, r, wrote[c])
                BY <1>1, <4>1, <4>2 DEF TodoOK
            <4>4. q.kind = "Seek" /\ q.fd \in DOMAIN Steady => Steady[q.fd].pos = q.at
                BY <1>0, <1>1, <1>2, <1>3, <3>2, <4>1 DEF FlightOK
            <4>5. PosOK(r, wrote[c], Steady)
                BY <4>3, <4>4 DEF PosOK, Seeked
            <4> QED BY <4>2, <4>5
        <3>3. CASE GoesOn(c, call[c].todo) /\ call[c].op = "open"
            BY <1>1, <3>3 DEF GoesOn, TodoOK, PosOK
        <3> QED BY <1>4, <3>1, <3>2, <3>3 DEF CallAfter, GoesOn
    <2>3. FlightOK(conn'[c], call'[c], link[c], descs[c], wrote[c], Steady)
        BY <1>5, <1>6, <2>2, ResponseIs DEF FlightOK, ConnNow
    <2>4. ClientOK(c)'
        <3>1. Steady' = Steady
            BY <1>0 DEF Steady
        <3> QED BY <1>0, <1>7, <2>1, <2>3, <3>1 DEF ClientOK
    <2>5. ClientTypes' /\ OnlyClient(c)
        BY <1>0, <1>4, <1>5, <1>7, SameAlone DEF Inv, ClientTypes, OnlyClient, CallAfter, StreamsAfter, ConnNow, Alone
    <2>6. OwnInv'
        <3>1. /\ \A e \in Clients : e # c => conn'[e] = conn[e] /\ descs'[e] = descs[e] /\ link'[e] = link[e]
              /\ conn'[c].resp.kind # "Fd" /\ Up(c)
            BY <1>0, <1>5, <1>7, ResponseIs DEF ConnNow, Up
        <3> QED BY <1>0, <1>7, <3>1, OwnClient
    <2> QED BY <2>4, <2>5, <2>6
<1>8. ASSUME NEW d \in Descriptors, d.fd = resp.fd, descs' = [descs EXCEPT ![c] = Append(descs[c], d)],
             resp.kind = "Fd", call'[c].op = "none"
      PROVE  ClientTypes' /\ OnlyClient(c) /\ ClientOK(c)' /\ OwnInv'
    <2>0. call'[c].todo = <<>>
        BY <1>1, <1>2, <1>4, <1>8 DEF CallAfter, GoesOn, TodoOK
    <2>1. descs[c] \in Seq(Descriptors) /\ descs \in [Clients -> Seq(Descriptors)]
        BY DEF Inv, ClientTypes
    <2> DEFINE ds == Append(descs[c], d)
    <2>2. ds \in Seq(Descriptors) /\ DOMAIN descs[c] \subseteq DOMAIN ds /\ \A h \in DOMAIN descs[c] : ds[h] = descs[c][h]
        BY <2>1
    <2>3. descs' = [descs EXCEPT ![c] = ds]
        BY <1>8
    <2> HIDE DEF ds
    <2>4. descs' \in [Clients -> Seq(Descriptors)] /\ descs'[c] = ds /\ Alone(descs, descs', c)
        BY <2>1, <2>2, <2>3, SetOne
    <2>5. Kept(descs[c], descs'[c])
        BY <2>2, <2>4 DEF Kept
    <2>6. \A s \in DOMAIN streams'[c] : StreamOK(streams'[c][s], descs'[c], wrote'[c])
        <3> SUFFICES ASSUME NEW s \in DOMAIN streams[c] PROVE StreamOK(streams'[c][s], descs'[c], wrote[c])
            BY <1>0, <1>4 DEF StreamsAfter
        <3>1. StreamOK(streams[c][s], descs[c], wrote[c])
            BY StreamIs
        <3>2. CASE streams'[c][s] = streams[c][s]
            BY <2>2, <2>4, <3>1, <3>2 DEF StreamOK
        <3>3. CASE streams[c][s].buffer = <<>>
            BY <1>4, <2>2, <2>4, <3>1, <3>3 DEF StreamsAfter, StreamOK
        <3> QED BY <1>4, <3>2, <3>3 DEF StreamsAfter
    <2>7. TodoOK(call'[c], descs'[c], wrote'[c]) /\ WorkOK(call'[c], descs'[c], streams'[c])
        BY <1>8, <2>0, TodoNone DEF WorkOK
    <2>8. FlightOK(conn'[c], call'[c], link[c], descs'[c], wrote'[c], Steady)
        BY <1>5, <1>6, <2>0, ResponseIs DEF FlightOK, ConnNow
    <2>9. ClientOK(c)'
        <3>1. Steady' = Steady
            BY <1>0 DEF Steady
        <3> QED BY <1>0, <2>6, <2>7, <2>8, <3>1 DEF ClientOK
    <2>10. ClientTypes' /\ OnlyClient(c)
        BY <1>0, <1>4, <1>5, <2>4, SameAlone DEF Inv, ClientTypes, OnlyClient, CallAfter, StreamsAfter, ConnNow, Alone
    <2>11. OwnInv'
        <3>1. PICK x \in Nat : x = resp.fd
            BY <1>3 DEF Responses
        <3>2. FdOffered(c, x)
            BY <1>3, <1>8, <3>1 DEF FdOffered
        <3>3. \A e \in Clients : e # c => conn'[e] = conn[e] /\ descs'[e] = descs[e]
            BY <1>5, <2>4 DEF ConnNow, Alone
        <3>4. descs'[c] = Append(descs[c], d)
            BY <2>4 DEF ds
        <3> QED BY <1>0, <1>5, <1>8, <3>1, <3>2, <3>3, <3>4, OwnReceive
    <2> QED BY <2>9, <2>10, <2>11
<1> QED BY <1>4, <1>7, <1>8 DEF DescsAfter
-----------------------------------------------------------------------------
(***************************************************************************)
(* Clients without the adapter                                             *)
(***************************************************************************)

\* A call of one request.
LEMMA DirectStarts ==
    ASSUME Inv, NEW c \in Clients, c \in Direct, UNCHANGED <<serverVars, link, streams>>,
           descs' \in [Clients -> Seq(Descriptors)], Alone(descs, descs', c), Kept(descs[c], descs'[c]),
           UNCHANGED wrote \/ Record(c, 0, Anywhere),
           NEW op \in {"open", "call", "close"}, NEW h \in Nat, NEW r \in Calls, DirectReq(c, r), Start(c, op, h, 0, <<r>>)
    PROVE  ClientTypes' /\ OnlyClient(c) /\ DirectOK(c)'
<1>0. UNCHANGED <<config, fds, nextFd, conn>>
    BY DEF serverVars, fsVars
<1>1. PICK todo : todo = <<r>> /\ todo \in Seq(Calls) /\ DOMAIN todo = {1} /\ todo[1] = r /\ todo # <<>> /\ Start(c, op, h, 0, todo)
    <2>1. <<r>> \in Seq(Calls) /\ DOMAIN <<r>> = {1} /\ <<r>>[1] = r /\ <<r>> # <<>>
        OBVIOUS
    <2> QED BY <2>1, Zenon
<1>2. call' \in [Clients -> CallRecords] /\ Alone(call, call', c) /\ call'[c].op = op /\ call'[c].todo = todo
    <2>1. PICK s \in Nat : s = 0
        OBVIOUS
    <2>2. ClientTypes /\ Start(c, op, h, s, todo) /\ op \in {"none", "open", "call", "fsync", "drop", "close"}
        BY <1>1, <2>1 DEF Inv
    <2>3. todo \in Seq(Calls)
        BY <1>1
    <2> QED BY <2>2, <2>3, Started
<1>3. wrote' \in [Clients -> Seq(WriteRecords)] /\ Alone(wrote, wrote', c)
    <2>1. CASE UNCHANGED wrote
        BY <2>1, SameAlone DEF Inv, ClientTypes
    <2>2. CASE Record(c, 0, Anywhere)
        <3>1. PICK n, at \in Nat : n \in Nat /\ Record(c, n, at)
            BY <2>2 DEF Anywhere
        <3> QED BY <3>1, Recorded DEF Inv
    <2> QED BY <2>1, <2>2
<1>4. ClientTypes' /\ OnlyClient(c)
    BY <1>0, <1>2, <1>3, SameAlone DEF Inv, ClientTypes, OnlyClient
<1>5. ASSUME NEW q, DirectReq(c, q) PROVE DirectReq(c, q)'
    BY <1>0, <1>5 DEF DirectReq, Served, NamesOwn, FdKnown, Kept
<1>6. DirectReq(c, conn[c].req)
    BY DEF Inv, CallInv, DirectOK
<1>7. DirectReq(c, conn[c].req)' /\ DirectReq(c, r)'
    <2>1. PICK q : q = conn[c].req /\ DirectReq(c, q) /\ q = conn'[c].req
        BY <1>0, <1>6
    <2>2. DirectReq(c, q)'
        BY <1>5, <2>1
    <2> QED BY <1>5, <2>1, <2>2 DEF DirectReq, Served, NamesOwn, FdKnown
<1>8. \A i \in DOMAIN call'[c].todo : call'[c].todo[i] = r
    BY <1>1, <1>2
<1>9. ASSUME NEW i \in DOMAIN call'[c].todo PROVE DirectReq(c, call[c].todo[i])'
    <2>1. call'[c].todo[i] = r
        BY <1>8
    <2> QED BY <1>7, <2>1 DEF DirectReq, Served, NamesOwn, FdKnown
<1>10. call'[c].op \notin {"fsync", "drop"} /\ call'[c].todo # <<>>
    BY <1>1, <1>2
<1> QED BY <1>4, <1>7, <1>9, <1>10 DEF DirectOK

\* A descriptor that the client names.
LEMMA NamedIs ==
    ASSUME Inv, NEW c \in Clients, NEW fd \in Named(c)
    PROVE  fd \in Nat /\ (~config.any => FdKnown(c, fd))
<1>1. nextFd \in Nat
    BY DEF Inv, Disk, FdsOK
<1>2. CASE config.any
    BY <1>1, <1>2 DEF Named
<1>3. CASE ~config.any
    <2>1. PICK h \in Handles(c) : fd = descs[c][h].fd
        BY <1>3 DEF Named
    <2>2. h \in DOMAIN descs[c]
        BY HandleIs
    <2> QED BY <2>1, <2>2, DescType DEF Inv, FdKnown
<1> QED BY <1>2, <1>3

\* A request on it.
Ask(kind, fd) == [Request(kind) EXCEPT !.fd = fd]
LEMMA DirectOn ==
    ASSUME Inv, NEW c \in Clients, NEW fd \in Named(c), NEW kind \in FdKinds
    PROVE  LET r == Ask(kind, fd) IN
           r \in Requests /\ r.kind = kind /\ r.fd = fd /\ r \in Calls /\ (kind # "OpenAt" => DirectReq(c, r))
<1>1. Request(kind) \in Requests /\ Request(kind).kind = kind
    BY DEF Request, Requests, RequestKinds, FdKinds
<1>2. fd \in Nat /\ (~config.any => FdKnown(c, fd))
    BY NamedIs
<1> DEFINE r == Ask(kind, fd)
<1>3. r \in Requests /\ r.kind = kind /\ r.fd = fd
    BY <1>1, <1>2 DEF Requests, Ask
<1> HIDE DEF r
<1>4. r \in Calls /\ (kind # "OpenAt" => DirectReq(c, r))
    BY <1>2, <1>3 DEF Calls, DirectReq, Served, NamesOwn, FdKinds
<1> QED BY <1>3, <1>4 DEF r

LEMMA WithData ==
    ASSUME NEW q \in Requests, NEW data \in Seq(Nat), NEW r, r = [q EXCEPT !.data = data]
    PROVE  r \in Requests /\ r.kind = q.kind /\ r.fd = q.fd
BY DEF Requests

LEMMA WithPath ==
    ASSUME NEW q \in Requests, NEW o, o.path \in Seq(STRING), o.write \in BOOLEAN, o.creat \in BOOLEAN,
           NEW r, r = [q EXCEPT !.path = o.path, !.write = o.write, !.creat = o.creat]
    PROVE  r \in Requests /\ r.kind = q.kind /\ r.fd = q.fd /\ r.path = o.path
BY DEF Requests

LEMMA DirectCallOK ==
    ASSUME Inv, NEW c \in Clients, c \in Direct, DirectCall(c)
    PROVE  ClientTypes' /\ OnlyClient(c) /\ DirectOK(c)'
<1>0. /\ UNCHANGED <<serverVars, link, descs, streams>> /\ config \in Configs
      /\ descs' \in [Clients -> Seq(Descriptors)] /\ Alone(descs, descs', c) /\ Kept(descs[c], descs'[c])
    BY SameAlone, SameLonger DEF DirectCall, Inv, ServerTypes, ClientTypes
<1> DEFINE Op(r) == IF r.kind \in {"OpenPath", "OpenAt"} THEN "open" ELSE "call"
<1>1. ASSUME NEW r \in Calls, DirectReq(c, r), Start(c, Op(r), 0, 0, <<r>>), UNCHANGED wrote \/ Record(c, 0, Anywhere)
      PROVE  ClientTypes' /\ OnlyClient(c) /\ DirectOK(c)'
    <2>1. PICK op, h : op = Op(r) /\ h = 0
        OBVIOUS
    <2>2. op \in {"open", "call", "close"} /\ h \in Nat /\ Start(c, op, h, 0, <<r>>)
        BY <1>1, <2>1
    <2> QED BY <1>0, <1>1, <2>2, DirectStarts
<1>2. CASE \E r \in DirectRequests(config) : Start(c, Op(r), 0, 0, <<r>>) /\ UNCHANGED wrote
    <2>1. PICK r \in DirectRequests(config) : Start(c, Op(r), 0, 0, <<r>>) /\ UNCHANGED wrote
        BY <1>2
    <2>2. /\ r \in Requests /\ r.kind \in PathKinds \union {"Connect", "OpenPath", "Undecodable"} /\ r.fd = 0
          /\ r.kind = "OpenPath" => r.path \in Paths
        BY <1>0, AdapterAssumption
    <2>3. r \in Calls /\ DirectReq(c, r)
        BY <2>2 DEF Calls, PathKinds, DirectReq, Served, NamesOwn
    <2> QED BY <1>1, <2>1, <2>3
<1>3. ASSUME NEW fd \in Named(c), NEW kind \in DirectKinds(config), kind \in {"Read", "Seek", "Fsync", "Close"},
             Start(c, Op(Ask(kind, fd)), 0, 0, <<Ask(kind, fd)>>), UNCHANGED wrote
      PROVE  ClientTypes' /\ OnlyClient(c) /\ DirectOK(c)'
    <2>1. kind \in FdKinds
        BY <1>0, AdapterAssumption
    <2>2. PICK r : r = Ask(kind, fd)
        OBVIOUS
    <2>4. r \in Calls /\ DirectReq(c, r)
        BY <1>3, <2>1, <2>2, DirectOn
    <2> QED BY <1>1, <1>3, <2>2, <2>4
<1>4. ASSUME NEW fd \in Named(c), NEW kind \in DirectKinds(config), kind \in {"Write", "AppendWrite", "Ftruncate"},
             LET r == [Ask(kind, fd) EXCEPT !.data = <<NextWrite(c)>>] IN Start(c, Op(r), 0, 0, <<r>>),
             Record(c, 0, Anywhere)
      PROVE  ClientTypes' /\ OnlyClient(c) /\ DirectOK(c)'
    <2>1. kind \in FdKinds
        BY <1>0, AdapterAssumption
    <2>2. PICK q : q = Ask(kind, fd)
        OBVIOUS
    <2>3. q \in Requests /\ q.kind = kind /\ q.fd = fd
        BY <1>4, <2>1, <2>2, DirectOn
    <2>4. NextWrite(c) \in Nat
        <3>1. PICK n, at \in Nat : n \in Nat /\ Record(c, n, at)
            BY <1>4 DEF Anywhere
        <3> QED BY <3>1, Recorded DEF Inv
    <2>8. PICK data : data = <<NextWrite(c)>> /\ data \in Seq(Nat)
        <3>1. <<NextWrite(c)>> \in Seq(Nat)
            BY <2>4
        <3> QED BY <3>1
    <2>9. PICK r : r = [q EXCEPT !.data = data]
        OBVIOUS
    <2>5. r \in Requests /\ r.kind = kind /\ r.fd = fd
        BY <2>3, <2>8, <2>9, WithData
    <2>6. r \in Calls /\ DirectReq(c, r)
        BY <1>4, <2>5, NamedIs DEF Calls, DirectReq, Served, NamesOwn
    <2>7. Start(c, Op(r), 0, 0, <<r>>)
        BY <1>4, <2>2, <2>8, <2>9
    <2> QED BY <1>1, <1>4, <2>6, <2>7
<1>5. ASSUME NEW fd \in Named(c), "OpenAt" \in DirectKinds(config), NEW o \in Opens(config), OpensBelow(fd, o.path),
             LET r == [Ask("OpenAt", fd) EXCEPT !.path = o.path, !.write = o.write, !.creat = o.creat] IN
                Start(c, Op(r), 0, 0, <<r>>),
             UNCHANGED wrote
      PROVE  ClientTypes' /\ OnlyClient(c) /\ DirectOK(c)'
    <2>0. "OpenAt" \in FdKinds
        BY DEF FdKinds
    <2>1. PICK q : q = Ask("OpenAt", fd)
        OBVIOUS
    <2>8. q \in Requests /\ q.kind = "OpenAt" /\ q.fd = fd
        BY <1>5, <2>0, <2>1, DirectOn
    <2>2. PICK r : r = [q EXCEPT !.path = o.path, !.write = o.write, !.creat = o.creat]
        OBVIOUS
    <2>3. o.path \in Paths /\ o.path \in Seq(STRING) /\ o.write \in BOOLEAN /\ o.creat \in BOOLEAN
        BY <1>0, AdapterAssumption, FilesAssumption
    <2>4. r \in Requests /\ r.kind = "OpenAt" /\ r.fd = fd /\ r.path = o.path
        <3>1. r \in Requests /\ r.kind = q.kind /\ r.fd = q.fd /\ r.path = o.path
            BY <2>2, <2>3, <2>8, WithPath, Zenon
        <3> QED BY <2>8, <3>1
    <2>5. fd < nextFd /\ fds[fd].path \o o.path \in Paths
        BY <1>5 DEF OpensBelow, Inv, Disk, FdsOK
    <2>6. r \in Calls /\ DirectReq(c, r)
        BY <2>4, <2>5, NamedIs DEF Calls, DirectReq, Served, NamesOwn
    <2>7. Start(c, Op(r), 0, 0, <<r>>)
        BY <1>5, <2>1, <2>2
    <2> QED BY <1>1, <1>5, <2>6, <2>7
<1> QED BY <1>2, <1>3, <1>4, <1>5 DEF DirectCall, Ask

\* The descriptor is closed at once, or when its streams are; it has none.
LEMMA DirectDropOK ==
    ASSUME Inv, NEW c \in Clients, c \in Direct, DropDescriptor(c)
    PROVE  ClientTypes' /\ OnlyClient(c) /\ DirectOK(c)' /\ OwnInv'
<1>0. UNCHANGED <<serverVars, link, streams, wrote>> /\ UNCHANGED <<config, fds, nextFd, conn>>
    BY DEF DropDescriptor, serverVars, fsVars
<1>1. PICK h \in Handles(c) :
          IF LiveStreams(c, h) # {} THEN SetState(c, h, "pending") /\ UNCHANGED call ELSE Release(c, h)
    BY DEF DropDescriptor, SetState
<1>2. h \in DOMAIN descs[c] /\ h \in Nat /\ descs[c][h].state = "open"
    BY HandleIs
<1>3. CASE SetState(c, h, "pending") /\ UNCHANGED call
    <2>1. descs' \in [Clients -> Seq(Descriptors)] /\ Alone(descs, descs', c) /\ Kept(descs[c], descs'[c])
        BY <1>2, <1>3, StateSet DEF Inv
    <2>2. ClientTypes' /\ OnlyClient(c)
        BY <1>0, <1>3, <2>1, SameAlone DEF Inv, ClientTypes, OnlyClient
    <2>3. \A q : DirectReq(c, q) => Served(q) /\ (~config.any /\ q.fd # 0 => \E k \in DOMAIN descs'[c] : descs'[c][k].fd = q.fd)
        BY <2>1 DEF DirectReq, NamesOwn, FdKnown, Kept
    <2>4. DirectOK(c)'
        BY <1>0, <1>3, <2>3 DEF Inv, CallInv, DirectOK, DirectReq, NamesOwn, FdKnown, Served
    <2>5. OwnInv'
        BY <1>0, <1>2, <1>3, OwnState
    <2> QED BY <2>2, <2>4, <2>5
<1>4. CASE Release(c, h)
    <2>1. SetState(c, h, "released") /\ Start(c, "close", h, 0, <<OnFd(c, "Close", h)>>)
        BY <1>4 DEF Release, SetState
    <2>2. descs' \in [Clients -> Seq(Descriptors)] /\ Alone(descs, descs', c) /\ Kept(descs[c], descs'[c])
        BY <1>2, <2>1, StateSet DEF Inv
    <2>3. PICK r : r = OnFd(c, "Close", h) /\ r \in Requests /\ r.kind = "Close" /\ r.fd = descs[c][h].fd
        BY <1>2, OnFdIs DEF Inv, RequestKinds
    <2>4. r \in Calls /\ DirectReq(c, r)
        BY <1>2, <2>3 DEF Calls, DirectReq, Served, NamesOwn, FdKnown
    <2>5. ClientTypes' /\ OnlyClient(c) /\ DirectOK(c)'
        BY <1>0, <1>2, <2>1, <2>2, <2>3, <2>4, DirectStarts
    <2>6. OwnInv'
        BY <1>0, <1>2, <2>1, OwnState
    <2> QED BY <2>5, <2>6
<1> QED BY <1>1, <1>3, <1>4

LEMMA DirectKept ==
    ASSUME NEW c \in Clients, Kept(descs[c], descs'[c]), UNCHANGED <<config, fds, nextFd>>, NEW r, DirectReq(c, r)
    PROVE  DirectReq(c, r)'
BY DEF DirectReq, Served, NamesOwn, FdKnown, Kept

\* What is left of the call, and the request on the connection.
LEMMA DirectNow ==
    ASSUME Inv, NEW c \in Clients, c \in Direct, Kept(descs[c], descs'[c]), UNCHANGED <<config, fds, nextFd>>,
           DirectReq(c, conn'[c].req),
           call'[c].op \notin {"fsync", "drop"}, call'[c].op # "none" => call'[c].todo # <<>>,
           \A i \in DOMAIN call'[c].todo : DirectReq(c, call'[c].todo[i])
    PROVE  DirectOK(c)'
<1>1. PICK q : q = conn'[c].req /\ DirectReq(c, q)
    OBVIOUS
<1>2. DirectReq(c, q)'
    BY <1>1, DirectKept
<1>3. DirectReq(c, conn[c].req)'
    BY <1>1, <1>2 DEF DirectReq, Served, NamesOwn, FdKnown
<1>4. ASSUME NEW i \in DOMAIN call'[c].todo PROVE DirectReq(c, call[c].todo[i])'
    <2>1. PICK r : r = call'[c].todo[i] /\ DirectReq(c, r)
        OBVIOUS
    <2>2. DirectReq(c, r)'
        BY <2>1, DirectKept
    <2> QED BY <2>1, <2>2 DEF DirectReq, Served, NamesOwn, FdKnown
<1> QED BY <1>3, <1>4 DEF DirectOK

LEMMA DirectAfter ==
    ASSUME Inv, NEW c \in Clients, c \in Direct, call[c].todo # <<>>, NEW resp, CallAfter(c, resp),
           Kept(descs[c], descs'[c]), UNCHANGED <<config, fds, nextFd>>, conn'[c].req \in {conn[c].req, NoRequest}
    PROVE  DirectOK(c)'
<1>1. /\ DirectOK(c) /\ call[c].todo \in Seq(Calls)
      /\ \A i \in DOMAIN call[c].todo : DirectReq(c, call[c].todo[i])
    BY CallType DEF Inv, CallInv, DirectOK
<1>2. DirectReq(c, conn'[c].req)
    <2>1. DirectReq(c, NoRequest)
        BY ResponseIs DEF DirectReq, NamesOwn, Served
    <2> QED BY <1>1, <2>1 DEF DirectOK
<1>3. CASE call'[c].op = "none" /\ call'[c].todo = <<>>
    <2>1. DOMAIN call'[c].todo = {}
        BY <1>3
    <2> QED BY <1>2, <1>3, <2>1, DirectNow
<1>4. CASE GoesOn(c, Tail(call[c].todo)) /\ (call[c].op \in {"call", "close"} => Len(call[c].todo) > 1) /\ call[c].op # "open"
    <2>1. PICK todo : todo = call[c].todo /\ todo \in Seq(Calls) /\ todo # <<>> /\ Len(todo) \in Nat /\ Len(todo) > 0
        BY <1>1
    <2>2. /\ Tail(todo) \in Seq(Calls) /\ Len(Tail(todo)) = Len(todo) - 1 /\ DOMAIN Tail(todo) = 1 .. Len(todo) - 1 /\ DOMAIN todo = 1 .. Len(todo)
          /\ \A i \in 1 .. Len(todo) - 1 : Tail(todo)[i] = todo[i + 1]
        BY <2>1
    <2>3. PICK rest : rest = Tail(todo)
        OBVIOUS
    <2>4. \A i \in DOMAIN rest : DirectReq(c, rest[i])
        <3> SUFFICES ASSUME NEW i \in DOMAIN rest PROVE DirectReq(c, rest[i])
            OBVIOUS
        <3>1. PICK n \in Nat : n = Len(todo)
            BY <2>1
        <3>2. i \in 1 .. n - 1 /\ i + 1 \in 1 .. n /\ DOMAIN todo = 1 .. n /\ rest[i] = todo[i + 1]
            BY <2>2, <2>3, <3>1
        <3> QED BY <1>1, <2>1, <3>2
    <2>5. call[c].op \in {"call", "close"} => rest # <<>>
        <3>1. Len(rest) = Len(todo) - 1 /\ (rest = <<>> => Len(rest) = 0)
            BY <2>2, <2>3
        <3> QED BY <1>4, <2>1, <3>1
    <2>6. call[c].op \in {"none", "call", "close"}
        BY <1>1, <1>4, CallType DEF Inv, DirectOK
    <2>7. call'[c].todo = rest /\ call'[c].op = call[c].op
        BY <1>4, <2>1, <2>3 DEF GoesOn
    <2> QED BY <1>2, <2>4, <2>5, <2>6, <2>7, DirectNow
<1>5. CASE GoesOn(c, call[c].todo) /\ call[c].op = "open"
    BY <1>1, <1>2, <1>5, DirectNow DEF GoesOn
<1>6. call[c].op # "drop"
    BY <1>1 DEF DirectOK
<1> QED BY <1>3, <1>4, <1>5, <1>6 DEF CallAfter

LEMMA DirectIoErrorOK ==
    ASSUME Inv, NEW c \in Clients, c \in Direct, IoError(c)
    PROVE  ClientTypes' /\ OnlyClient(c) /\ DirectOK(c)' /\ UNCHANGED descs
<1>0. /\ call[c].todo # <<>> /\ Answered(c, Error) /\ UNCHANGED <<serverVars, link, wrote>>
      /\ UNCHANGED <<config, fds, nextFd, conn>>
    BY DEF IoError, serverVars, fsVars
<1>1. PICK resp : resp = Error /\ resp \in Responses /\ resp.kind = "Error"
    <2>1. Error \in Responses /\ Error.kind = "Error"
        BY DEF Error, Response, Responses, ResponseKinds
    <2> QED BY <2>1
<1>2. CallAfter(c, resp) /\ DescsAfter(c, resp) /\ StreamsAfter(c)
    BY <1>0, <1>1, AnsweredAfter
<1>3. UNCHANGED descs
    BY <1>1, <1>2 DEF DescsAfter
<1>4. Kept(descs[c], descs'[c])
    BY <1>3, SameLonger DEF Inv
<1>5. ClientTypes' /\ OnlyClient(c)
    BY <1>0, <1>2, <1>3, SameAlone DEF Inv, ClientTypes, OnlyClient, CallAfter, StreamsAfter
<1> QED BY <1>0, <1>2, <1>3, <1>4, <1>5, DirectAfter

LEMMA DirectSendOK ==
    ASSUME Inv, NEW c \in Clients, c \in Direct, Send(c)
    PROVE  ClientTypes' /\ OnlyClient(c) /\ DirectOK(c)' /\ OwnInv'
<1>0. /\ UNCHANGED <<config, fds, nextFd, sessions, sessionFds, strays, descs, streams, call, wrote, link>>
      /\ call[c].todo # <<>> /\ conn[c].state = "up"
    BY DEF Send, fsVars, tableVars, loopVars, adapterVars
<1>1. PICK r : r = call[c].todo[1] /\ ConnNow(c, "up", r, NoResponse) /\ 1 \in DOMAIN call[c].todo
    BY <1>0, SendNow, FirstRequest, CallType DEF Inv
<1>2. DirectOK(c) /\ DirectReq(c, r)
    BY <1>1 DEF Inv, CallInv, DirectOK
<1>3. Kept(descs[c], descs'[c]) /\ conn'[c].req = r
    BY <1>0, <1>1, SameLonger DEF Inv, ConnNow
<1>4. DirectOK(c)'
    BY <1>0, <1>2, <1>3, DirectNow DEF DirectOK
<1>5. ClientTypes' /\ OnlyClient(c)
    BY <1>0, <1>1, SameAlone DEF Inv, ClientTypes, OnlyClient, ConnNow, Alone
<1>6. OwnInv'
    <2>1. /\ \A e \in Clients : e # c => conn'[e] = conn[e] /\ descs'[e] = descs[e] /\ link'[e] = link[e]
          /\ conn'[c].resp.kind # "Fd" /\ Up(c)
        BY <1>0, <1>1, ResponseIs DEF ConnNow, Up
    <2> QED BY <1>0, <2>1, OwnClient
<1> QED BY <1>4, <1>5, <1>6

LEMMA DirectReceiveOK ==
    ASSUME Inv, NEW c \in Clients, c \in Direct, Receive(c)
    PROVE  ClientTypes' /\ OnlyClient(c) /\ DirectOK(c)' /\ OwnInv'
<1>0. /\ link[c] > 0 /\ conn[c].state = "up" /\ call[c].op # "none"
      /\ UNCHANGED <<config, fds, nextFd, sessions, sessionFds, strays, link, wrote>>
    BY DEF Receive, Idle, fsVars, tableVars, loopVars
<1>1. call[c].todo # <<>>
    BY <1>0 DEF Inv, CallInv, DirectOK
<1>2. PICK resp : resp = conn[c].resp /\ resp \in Responses
    BY ReqType DEF Inv
<1>3. CallAfter(c, resp) /\ DescsAfter(c, resp) /\ StreamsAfter(c)
    BY <1>1, <1>2, AnsweredAfter DEF Receive
<1>4. ConnNow(c, conn[c].state, conn[c].req, NoResponse)
    BY TakenNow DEF Receive, Inv
<1>5. ASSUME descs' \in [Clients -> Seq(Descriptors)], Alone(descs, descs', c), Kept(descs[c], descs'[c])
      PROVE  ClientTypes' /\ OnlyClient(c) /\ DirectOK(c)'
    <2>1. conn'[c].req = conn[c].req
        BY <1>4 DEF ConnNow
    <2>2. DirectOK(c)'
        BY <1>0, <1>1, <1>3, <1>5, <2>1, DirectAfter
    <2> QED BY <1>0, <1>3, <1>4, <1>5, <2>2, SameAlone
            DEF Inv, ClientTypes, OnlyClient, CallAfter, StreamsAfter, ConnNow, Alone
<1>6. CASE UNCHANGED descs
    <2>1. descs' \in [Clients -> Seq(Descriptors)] /\ Alone(descs, descs', c) /\ Kept(descs[c], descs'[c])
        BY <1>6, SameAlone, SameLonger DEF Inv, ClientTypes
    <2>2. OwnInv'
        <3>1. /\ \A e \in Clients : e # c => conn'[e] = conn[e] /\ descs'[e] = descs[e] /\ link'[e] = link[e]
              /\ conn'[c].resp.kind # "Fd" /\ Up(c)
            BY <1>0, <1>4, <1>6, ResponseIs DEF ConnNow, Up
        <3> QED BY <1>0, <1>6, <3>1, OwnClient
    <2> QED BY <1>5, <2>1, <2>2
<1>7. ASSUME NEW d \in Descriptors, d.fd = resp.fd, descs' = [descs EXCEPT ![c] = Append(descs[c], d)], resp.kind = "Fd"
      PROVE  ClientTypes' /\ OnlyClient(c) /\ DirectOK(c)' /\ OwnInv'
    <2>1. descs[c] \in Seq(Descriptors) /\ descs \in [Clients -> Seq(Descriptors)]
        BY DEF Inv, ClientTypes
    <2> DEFINE ds == Append(descs[c], d)
    <2>2. ds \in Seq(Descriptors) /\ DOMAIN descs[c] \subseteq DOMAIN ds /\ \A h \in DOMAIN descs[c] : ds[h] = descs[c][h]
        BY <2>1
    <2>3. descs' = [descs EXCEPT ![c] = ds]
        BY <1>7
    <2> HIDE DEF ds
    <2>4. descs' \in [Clients -> Seq(Descriptors)] /\ descs'[c] = ds /\ Alone(descs, descs', c)
        BY <2>1, <2>2, <2>3, SetOne
    <2>5. Kept(descs[c], descs'[c])
        BY <2>2, <2>4 DEF Kept
    <2>6. OwnInv'
        <3>1. PICK x \in Nat : x = resp.fd
            BY <1>2 DEF Responses
        <3>2. FdOffered(c, x)
            BY <1>2, <1>7, <3>1 DEF FdOffered
        <3>3. \A e \in Clients : e # c => conn'[e] = conn[e] /\ descs'[e] = descs[e]
            BY <1>4, <2>4 DEF ConnNow, Alone
        <3>4. descs'[c] = Append(descs[c], d)
            BY <2>4 DEF ds
        <3> QED BY <1>0, <1>4, <1>7, <3>1, <3>2, <3>3, <3>4, OwnReceive
    <2> QED BY <1>5, <2>4, <2>5, <2>6
<1> QED BY <1>3, <1>6, <1>7 DEF DescsAfter

-----------------------------------------------------------------------------
(***************************************************************************)
(* Every step                                                              *)
(***************************************************************************)

LEMMA OwnLocal ==
    ASSUME Inv, NEW c \in Clients, UNCHANGED <<serverVars, link, descs>>
    PROVE  OwnInv'
<1>1. UNCHANGED <<config, fds, nextFd, sessions, sessionFds, strays, conn>>
    BY DEF serverVars, fsVars, tableVars, loopVars
<1> QED BY <1>1, OwnClient DEF Up

\* Calls of the application.
LEMMA AppCallOK ==
    ASSUME Inv, NEW c \in Clients, c \in Adapters, AppCall(c)
    PROVE  ClientTypes' /\ CallInv' /\ OwnInv'
<1>1. UNCHANGED <<serverVars, link, descs>>
    BY DEF AppCall, OpenAt, PathCall, ReadCall, WriteCall, OpenStream, WriteStream, FsyncCall, DropStream
<1>2. ClientTypes' /\ OnlyClient(c) /\ ClientOK(c)'
    BY OpenAtOK, PathCallOK, ReadCallOK, WriteCallOK, OpenStreamOK, WriteStreamOK, FsyncCallOK, DropStreamOK, Zenon DEF AppCall
<1>3. CallInv'
    BY <1>2, CallClient DEF Adapters
<1> QED BY <1>1, <1>2, <1>3, OwnLocal

\* The other steps of an adapter.
LEMMA AdapterOK ==
    ASSUME Inv, NEW c \in Clients, c \in Adapters, DropDescriptor(c) \/ ClientStep(c)
    PROVE  ClientTypes' /\ CallInv' /\ OwnInv'
<1>1. CASE IoError(c) \/ FsyncNext(c)
    <2>1. ClientTypes' /\ OnlyClient(c) /\ ClientOK(c)'
        BY <1>1, IoErrorOK, FsyncNextOK
    <2>2. UNCHANGED <<serverVars, link, descs>>
        BY <1>1, IoErrorOK DEF IoError, FsyncNext
    <2> QED BY <2>1, <2>2, CallClient, OwnLocal DEF Adapters
<1>2. CASE DropDescriptor(c) \/ Connect(c) \/ Connected(c) \/ Send(c) \/ Receive(c)
    <2>1. ClientTypes' /\ OnlyClient(c) /\ ClientOK(c)' /\ OwnInv'
        BY <1>2, DropDescriptorOK, ConnectOK, ConnectedOK, SendOK, ReceiveOK
    <2> QED BY <2>1, CallClient DEF Adapters
<1>3. CASE StreamClosed(c)
    <2>1. ClientTypes' /\ OnlyClient(c) /\ ClientOK(c)' /\ (UNCHANGED descs \/ OwnInv')
        BY <1>3, StreamClosedOK
    <2>2. UNCHANGED <<serverVars, link>>
        BY <1>3 DEF StreamClosed
    <2> QED BY <2>1, <2>2, CallClient, OwnLocal DEF Adapters
<1> QED BY <1>1, <1>2, <1>3 DEF ClientStep

\* Those of another client.
LEMMA DirectStepOK ==
    ASSUME Inv, NEW c \in Clients, c \in Direct, DirectCall(c) \/ DropDescriptor(c) \/ ClientStep(c)
    PROVE  ClientTypes' /\ CallInv' /\ OwnInv'
<1>1. CASE DirectCall(c) \/ IoError(c)
    <2>1. ClientTypes' /\ OnlyClient(c) /\ DirectOK(c)'
        BY <1>1, DirectCallOK, DirectIoErrorOK
    <2>2. UNCHANGED <<serverVars, link, descs>>
        BY <1>1, DirectIoErrorOK DEF DirectCall, IoError
    <2> QED BY <2>1, <2>2, CallClient, OwnLocal DEF Adapters
<1>2. CASE DropDescriptor(c) \/ Send(c) \/ Receive(c)
    <2>1. ClientTypes' /\ OnlyClient(c) /\ DirectOK(c)' /\ OwnInv'
        BY <1>2, DirectDropOK, DirectSendOK, DirectReceiveOK
    <2> QED BY <2>1, CallClient DEF Adapters
<1>3. ~Connect(c) /\ ~Connected(c)
    BY DEF Inv, LoopInv, Shaken, Connect, Connected
<1>4. ~FsyncNext(c) /\ ~StreamClosed(c)
    BY DEF Inv, CallInv, DirectOK, FsyncNext, StreamClosed
<1> QED BY <1>1, <1>2, <1>3, <1>4 DEF ClientStep

\* Steps of the server and its surroundings.
LEMMA OwnServer ==
    ASSUME Inv, UNCHANGED adapterVars,
           \/ \E c \in Clients : Accept(c) \/ Disconnected(c) \/ CloseSession(c) \/ ForceFlush(c) \/ Leave(c) \/ Break(c)
           \/ Tick \/ \E p \in ForeignPaths : ForeignRelease(p)
    PROVE  OwnInv'
<1>0. UNCHANGED <<descs, link>>
    BY DEF adapterVars
<1>1. CASE UNCHANGED <<config, fds, nextFd, sessions, sessionFds, strays, conn>>
    <2>1. nextFd \in Nat /\ nextFd' = nextFd
        BY <1>1 DEF Inv, Disk, FdsOK
    <2>2. NoNews
        BY <1>0, <1>1, <2>1 DEF NoNews, FdOffered, Up
    <2> QED BY <1>1, <2>2, OwnSame DEF Inv
<1>2. ASSUME NEW c \in Clients, Break(c) PROVE OwnInv'
    <2>1. PICK req \in {NoRequest, conn[c].req} : ConnNow(c, "down", req, NoResponse)
        BY <1>2, BrokenNow DEF Inv
    <2>2. UNCHANGED <<config, fds, nextFd, sessions, sessionFds, strays>>
        BY <1>2 DEF Break, fsVars, loopVars, tableVars
    <2>3. /\ \A e \in Clients : e # c => conn'[e] = conn[e] /\ descs'[e] = descs[e] /\ link'[e] = link[e]
          /\ conn'[c].resp.kind # "Fd" /\ ~Up(c)'
        BY <1>0, <2>1, ResponseIs DEF ConnNow, Up
    <2> QED BY <1>0, <2>2, <2>3, OwnClient
<1>3. ASSUME NEW c \in Clients, Disconnected(c) \/ ForceFlush(c) PROVE OwnInv'
    BY <1>1, <1>3 DEF Disconnected, ForceFlush, fsVars, tableVars, loopVars
<1>4. CASE Tick \/ \E p \in ForeignPaths : ForeignRelease(p)
    BY <1>1, <1>4 DEF Tick, ForeignRelease, fsVars, tableVars, loopVars
<1> QED BY <1>2, <1>3, <1>4, OwnAccept, OwnCloseSession, OwnLeave

\* Every step keeps the invariant.
LEMMA InvStep ==
    ASSUME Inv, Next
    PROVE  Inv'
<1>1. RequestsInv
    BY CallsAreServed DEF Inv
<1>2. Disk'
    BY <1>1, DiskStep DEF Inv
<1>3. ClientTypes' /\ CallInv' /\ OwnInv'
    <2>1. ASSUME UNCHANGED adapterVars PROVE ClientTypes'
        BY <2>1 DEF Inv, ClientTypes, adapterVars
    <2>2. CASE \E c \in Adapters : AppCall(c)
        BY <2>2, AppCallOK DEF Adapters
    <2>3. CASE \E c \in Direct : DirectCall(c)
        BY <2>3, DirectStepOK, ServerAssumption
    <2>4. CASE \E c \in Clients : DropDescriptor(c) \/ ClientStep(c)
        BY <2>4, AdapterOK, DirectStepOK DEF Adapters
    <2>5. ASSUME NEW c \in Clients, Serve(c), UNCHANGED adapterVars PROVE CallInv' /\ OwnInv'
        <3>1. c \in accepted
            BY <1>1, <2>5, ServeCases DEF Inv
        <3>2. PICK resp \in Responses : Effect(c, resp) /\ Reply(c, resp)
            BY <1>1, <2>5, ServeCases DEF Inv
        <3> QED BY <1>2, <2>5, <3>1, <3>2, CallServe, OwnServe
    <2>6. ASSUME NEW c \in Clients, ServerStep(c), UNCHANGED adapterVars PROVE CallInv' /\ OwnInv'
        <3>1. CASE Accept(c) \/ Disconnected(c) \/ CloseSession(c) \/ ForceFlush(c) \/ Leave(c)
            BY <1>2, <2>6, <3>1, CallServer, OwnServer
        <3> QED BY <2>5, <2>6, <3>1 DEF ServerStep
    <2>7. ASSUME Environment, UNCHANGED adapterVars PROVE CallInv' /\ OwnInv'
        <3>1. (Tick \/ \E p \in ForeignPaths : ForeignRelease(p)) \/ \E c \in Clients : Break(c)
            BY <2>7 DEF Environment
        <3> QED BY <1>2, <2>7, <3>1, CallServer, OwnServer
    <2> QED BY <2>1, <2>2, <2>3, <2>4, <2>6, <2>7 DEF Next
<1>4. NoHandshake
    <2>1. \A c \in Adapters : TodoOK(call[c], descs[c], wrote[c])
        BY DEF Inv, CallInv, ClientOK
    <2> QED BY <2>1 DEF NoHandshake, TodoOK, ReqOK
<1>5. ServerTypes' /\ LoopInv' /\ SessionsInv'
    BY <1>1, <1>3, <1>4, LoopStep DEF Inv
<1> QED BY <1>2, <1>3, <1>5 DEF Inv

LEMMA InvStutter ==
    ASSUME Inv, UNCHANGED vars
    PROVE  Inv'
<1>1. UNCHANGED <<config, fsVars, leases, store, wrote, conn, link, sessions, accepted, mode, dropping, sessionFds, strays>>
    BY DEF vars, serverVars, syncVars, loopVars, tableVars, adapterVars
<1>2. UNCHANGED <<fds, nextFd, descs, streams, call>>
    BY DEF vars, serverVars, fsVars, adapterVars
<1>3. Disk'
    BY <1>1, DiskSame DEF Inv
<1>4. ServerTypes' /\ ClientTypes'
    BY <1>1, <1>2 DEF Inv, ServerTypes, ClientTypes
<1>5. LoopInv' /\ SessionsInv'
    BY <1>1, <1>2, LoopSame, SessionsSame DEF Inv
<1>6. OwnInv'
    <2>1. nextFd \in Nat /\ nextFd' = nextFd
        BY <1>2 DEF Inv, Disk, FdsOK
    <2>2. NoNews
        BY <1>1, <1>2, <2>1 DEF NoNews, FdOffered, Up
    <2> QED BY <1>1, <1>2, <2>2, OwnSame DEF Inv
<1>7. CallInv'
    <2>1. Steady' = Steady
        BY <1>1, <1>2 DEF Steady
    <2> QED BY <1>1, <1>2, <2>1 DEF Inv, CallInv, ClientOK, DirectOK, DirectReq, Served, NamesOwn, FdKnown
<1> QED BY <1>3, <1>4, <1>5, <1>6, <1>7 DEF Inv

LEMMA InvInit ==
    ASSUME Init
    PROVE  Inv
<1>0. FilesInit /\ ServerInit
    BY DEF Init, ServerInit
<1>1. PICK W : W = Good(0)
    OBVIOUS
<1>2. Original \subseteq W
    BY <1>1, FilesAssumption DEF Original, Good, Adapters
<1>3. FilesIn(Files, W) /\ StoreIn(W) /\ FdsOK /\ LeasesOK /\ config \in Configs /\ DOMAIN fds = {}
    BY <1>0, <1>2, InitFiles
<1>4. NoRequest \in Requests /\ NoRequest.kind = "none" /\ NoResponse \in Responses /\ NoResponse.kind = "none"
    BY DEF NoRequest, Request, Requests, RequestKinds, NoResponse, Response, Responses, ResponseKinds
<1>5. /\ conn \in [Clients -> Connections]
      /\ \A c \in Clients : /\ conn[c].req = NoRequest /\ conn[c].resp = NoResponse
                            /\ conn[c].state = IF c \in Direct THEN "up" ELSE "none"
    <2> DEFINE k == [NoConnection EXCEPT !.state = "up"]
    <2>1. /\ k \in Connections /\ k.state = "up" /\ k.req = NoRequest /\ k.resp = NoResponse
          /\ NoConnection \in Connections /\ NoConnection.state = "none"
          /\ NoConnection.req = NoRequest /\ NoConnection.resp = NoResponse
        BY <1>4 DEF NoConnection, Connections
    <2>2. conn = [c \in Clients |-> IF c \in Direct THEN k ELSE NoConnection]
        BY <1>0 DEF ServerInit
    <2> HIDE DEF k
    <2> QED BY <2>1, <2>2
<1>6. Cardinality(Direct) \in Nat
    BY ServerAssumption, FS_CardinalityType
<1>7. /\ sessions \in [Clients -> 0 .. Cardinality(Direct)] /\ accepted = Direct /\ mode = "poll" /\ sessionFds = <<>>
      /\ \A c, d \in Clients : sessions[c] = sessions[d] /\ sessions[c] > 0 => c = d
      /\ strays = {}
    BY <1>0 DEF ServerInit
<1>8. /\ link = [c \in Clients |-> IF c \in Direct THEN config.version ELSE 0] /\ descs = [c \in Clients |-> <<>>]
      /\ streams = [c \in Clients |-> <<>>] /\ call = [c \in Clients |-> NoCall] /\ wrote = [c \in Clients |-> <<>>]
    BY DEF Init
<1>9. config.version \in Nat /\ config.version > 0
    BY <1>3, ServerAssumption
<1>10. ServerTypes
    BY <1>3, <1>5, <1>6, <1>7, ServerAssumption DEF ServerTypes
<1>11. ClientTypes
    <2>1. <<>> \in Seq(Calls) /\ <<>> \in Seq(Descriptors) /\ <<>> \in Seq(Streams) /\ <<>> \in Seq(WriteRecords)
        OBVIOUS
    <2>2. NoCall \in CallRecords
        BY <2>1 DEF NoCall, CallRecords
    <2> QED BY <1>8, <1>9, <2>1, <2>2 DEF ClientTypes
<1>12. Disk
    <2>1. LeaseCoversWriters
        <3>1. ASSUME NEW p \in Paths PROVE leases[p].refs >= Writers(p, DOMAIN fds)
            <4>1. Writers(p, DOMAIN fds) = 0
                <5>1. \A S : S = {} => Cardinality(S) = 0
                    BY FS_EmptySet
                <5> QED BY <1>3, <5>1 DEF Writers
            <4>2. leases[p].refs \in Nat
                BY <1>3 DEF LeasesOK, LeaseRecords
            <4> QED BY <4>1, <4>2
        <3> QED BY <3>1 DEF LeaseCoversWriters
    <2>2. FilesInv
        BY <1>1, <1>3 DEF FilesInv
    <2> QED BY <1>3, <2>1, <2>2 DEF Disk
<1>13. LoopInv
    <2>1. ASSUME NEW c \in Clients PROVE Shaken(c)
        BY <1>4, <1>5, <1>7, <1>8, <1>9 DEF Shaken, Linked, Up, Adapters
    <2> QED BY <1>7, <2>1 DEF LoopInv
<1>14. SessionsInv
    <2>1. DOMAIN sessionFds = {}
        BY <1>7
    <2>2. \E n \in Nat : (\A c \in Clients : sessions[c] <= n) /\ DOMAIN sessionFds \subseteq 1 .. n
        BY <1>6, <1>7, <2>1
    <2> QED BY <1>3, <1>7, <2>1, <2>2 DEF SessionsInv, HaveSession
<1>15. OwnInv
    <2>1. \A c \in Clients : descs[c] = <<>> /\ DOMAIN descs[c] = {}
        BY <1>8
    <2>2. \A c \in Clients, fd \in Nat : ~FdKnown(c, fd) /\ ~FdOffered(c, fd)
        BY <1>4, <1>5, <2>1 DEF FdKnown, FdOffered
    <2>3. KnownInv
        BY <2>1, <2>2 DEF KnownInv
    <2>4. ApartInv /\ HeldInv
        BY <2>2, NeedsKnown DEF ApartInv, HeldInv, Adapters
    <2> QED BY <2>3, <2>4 DEF OwnInv
<1>16. CallInv
    <2>1. ASSUME NEW c \in Clients
          PROVE  call[c].op = "none" /\ call[c].todo = <<>> /\ DOMAIN call[c].todo = {} /\ DOMAIN streams[c] = {}
        BY <1>8 DEF NoCall
    <2>2. ASSUME NEW c \in Adapters PROVE ClientOK(c)
        <3>1. c \in Clients
            BY DEF Adapters
        <3>2. TodoOK(call[c], descs[c], wrote[c]) /\ WorkOK(call[c], descs[c], streams[c])
            BY <2>1, <3>1, TodoNone DEF WorkOK
        <3>3. FlightOK(conn[c], call[c], link[c], descs[c], wrote[c], Steady)
            BY <1>4, <1>5, <2>1, <3>1 DEF FlightOK, Real
        <3> QED BY <2>1, <3>1, <3>2, <3>3 DEF ClientOK
    <2>3. ASSUME NEW c \in Direct PROVE DirectOK(c)
        <3>1. c \in Clients
            BY ServerAssumption
        <3>2. DirectReq(c, NoRequest)
            BY ResponseIs DEF DirectReq, Served, NamesOwn
        <3> QED BY <1>5, <2>1, <3>1, <3>2 DEF DirectOK
    <2> QED BY <2>2, <2>3 DEF CallInv
<1> QED BY <1>10, <1>11, <1>12, <1>13, <1>14, <1>15, <1>16 DEF Inv

\* The invariant holds in every state of every behaviour of the clients and the
\* server: files, leases, sessions, handshakes, descriptors and calls agree.
THEOREM InvHolds == Spec => []Inv
<1>1. Init => Inv
    BY InvInit
<1>2. Inv /\ [Next]_vars => Inv'
    BY InvStep, InvStutter
<1> QED BY <1>1, <1>2, PTL DEF Spec

-----------------------------------------------------------------------------
(***************************************************************************)
(* Theorems                                                                *)
(***************************************************************************)

\* For any number of clients and paths, in whatever order they connect, open and
\* close, and whatever breaks: a descriptor that is in no listed client's session
\* has been opened before Connect, or left behind by a second one (register_fd,
\* close_session, unregister_fd); those of an adapter never are.
THEOREM DescriptorsHaveSessionHolds == Spec => []DescriptorsHaveSession
<1>1. Inv => DescriptorsHaveSession
    <2> SUFFICES ASSUME Inv, NEW c \in Adapters, NEW h \in DOMAIN descs[c] PROVE descs[c][h].fd \notin strays
        BY DEF DescriptorsHaveSession, Inv, SessionsInv, HaveSession
    <2>1. c \in Clients
        BY DEF Adapters
    <2>2. descs[c][h].fd \in Nat /\ FdKnown(c, descs[c][h].fd)
        BY <2>1, DescType DEF Inv, FdKnown
    <2> QED BY <2>2 DEF Inv, OwnInv, ApartInv, Apart
<1> QED BY <1>1, InvHolds, PTL

\* For any number of clients, also such as close the descriptors of others:
\* close_fd and close_session never give back a lease that some descriptor still
\* writes under.
THEOREM LeaseCoversWritersHolds == Spec => []LeaseCoversWriters
<1>1. Inv => LeaseCoversWriters
    BY DEF Inv, Disk
<1> QED BY <1>1, InvHolds, PTL

\* For any number of streams and descriptors: while its connection is up, and
\* unless other clients close it, the descriptor of a stream with buffered data is
\* open at the server (descriptor_dropped, stream_closed and close_pending).
THEOREM BufferHasDescriptorHolds == Spec => []BufferHasDescriptor
<1>1. Inv => BufferHasDescriptor
    <2> SUFFICES ASSUME Inv, ~config.any, NEW c \in Adapters, NEW s \in DOMAIN streams[c], streams[c][s].buffer # <<>>, Up(c)
                 PROVE  descs[c][streams[c][s].h].fd \in DOMAIN fds
        BY DEF BufferHasDescriptor, Up
    <2>1. c \in Clients
        BY DEF Adapters
    <2>2. StreamOK(streams[c][s], descs[c], wrote[c])
        BY <2>1, StreamIs
    <2>3. streams[c][s].h \in DOMAIN descs[c] /\ descs[c][streams[c][s].h].state # "released"
        BY <2>2 DEF StreamOK
    <2>4. PICK fd \in Nat : fd = descs[c][streams[c][s].h].fd
        BY <2>1, <2>3, DescType DEF Inv
    <2>5. Needs(c, fd)
        BY <2>3, <2>4 DEF Needs
    <2> QED BY <2>4, <2>5 DEF Inv, OwnInv, HeldInv, Held
<1> QED BY <1>1, InvHolds, PTL

\* For any number of clients, streams, reads and writes: what an adapter writes is
\* in the file at the offset it was meant for, although seek and write are two
\* requests and all streams, reads and writes of a descriptor move one position;
\* unless other clients use its descriptors.
THEOREM WritesLandWhereMeantHolds == Spec => []WritesLandWhereMeant
<1>1. Inv => WritesLandWhereMeant
    <2> SUFFICES ASSUME Inv, ~config.any, NEW i \in 1 .. Len(nodes), NEW w \in nodes[i].writes, w.c \in Adapters
                 PROVE  wrote[w.c][w.n].at \in {Anywhere, w.at}
        BY DEF WritesLandWhereMeant
    <2>1. PICK b, W : b \in Nat /\ W = Good(b) /\ FilesIn(Files, W)
        BY DEF Inv, Disk, FilesInv
    <2>2. w \in W
        <3>1. nodes \in Seq(Inodes(W))
            BY <2>1 DEF FilesIn, Files
        <3>2. nodes[i] \in Inodes(W)
            BY <3>1
        <3> QED BY <3>2 DEF Inodes
    <2> QED BY <2>1, <2>2 DEF Good
<1> QED BY <1>1, InvHolds, PTL
=============================================================================
