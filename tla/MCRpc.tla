------------------------------- MODULE MCRpc -------------------------------
(* An instance of RpcAdapter for TLC: one adapter, one direct client. *)
EXTENDS RpcAdapter

CONSTANTS a, d

MCPaths == {<<"f">>, <<"g">>, <<"h">>, <<"d">>, <<"d", "f">>}
AtStart == [dirs |-> {<<"d">>}, files |-> {<<"f">>}, objects |-> {<<"f">>}, loaded |-> TRUE]

Base == [start |-> AtStart, lock |-> TRUE, realtime |-> FALSE, readS3 |-> FALSE, headS3 |-> FALSE,
         version |-> 2, connected |-> {d}, any |-> FALSE, faults |-> 0, breaks |-> 0, streams |-> 1,
         writes |-> 1, calls |-> 0, others |-> 1]
Faults == [Base EXCEPT !.faults = 1, !.readS3 = TRUE, !.calls = 1]
Streams == [Base EXCEPT !.streams = 2, !.writes = 2, !.calls = 1, !.others = 0]
Breaks == [Base EXCEPT !.breaks = 1, !.realtime = TRUE, !.others = 0]
Strangers == [Base EXCEPT !.breaks = 1, !.any = TRUE, !.streams = 0, !.writes = 0, !.others = 2]
Early == [Strangers EXCEPT !.connected = {}, !.breaks = 0]
NoLock == [Base EXCEPT !.lock = FALSE, !.headS3 = TRUE, !.others = 2, !.streams = 0]
OldServer == [Base EXCEPT !.lock = FALSE, !.version = 1, !.calls = 1, !.writes = 0]
MCConfigs == {Faults, Streams, Breaks, Strangers, Early, NoLock, OldServer}

MCForeign == {<<"f">>}

Open(write) == [path |-> <<"f">>, write |-> write, creat |-> write]
OnPath(kind, p) == [Request(kind) EXCEPT !.path = p]

MCOpens(cfg) == {Open(TRUE)} \union (IF cfg = Faults THEN {Open(FALSE)} ELSE {})

MCPathCalls(cfg) == IF cfg = OldServer THEN {OnPath("Mkdir", <<"g">>)} ELSE {}

MCDirectRequests(cfg) ==
    LET Hello == [Request("Connect") EXCEPT !.version = 2] IN
    CASE cfg = Faults -> {OnPath("Unlink", <<"f">>)}
      [] cfg \in {Strangers, Early} -> {Hello, [OnPath("OpenPath", <<"f">>) EXCEPT !.write = TRUE]}
      [] cfg = OldServer ->
            {OnPath("MkdirP", <<"g">>), OnPath("Rmdir", <<"g">>), Request("Undecodable"),
             [OnPath("Rename", <<"g">>) EXCEPT !.to = <<"h">>]}
      [] OTHER -> {OnPath("Unlink", <<"f">>), OnPath("OpenPath", <<"d">>)}

MCDirectKinds(cfg) ==
    CASE cfg \in {Strangers, Early} -> {"Close", "Seek"}
      [] cfg = NoLock -> FdKinds
      [] OTHER -> {}
=============================================================================
