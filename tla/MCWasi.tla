------------------------------- MODULE MCWasi -------------------------------
(* An instance of WasiSystem for TLC: two guests, a file f and a directory d. *)
EXTENDS WasiSystem

CONSTANTS g1, g2

f == <<"f">>
d == <<"d">>
MCPaths == {f, d, <<"g">>, <<"d", "f">>, <<"d", "g">>}
AtStart == [dirs |-> {d}, files |-> {f}, objects |-> {f}, loaded |-> TRUE]

Base == [frontend |-> "static", guests |-> {g1}, lock |-> TRUE, realtime |-> FALSE, readS3 |-> FALSE,
         headS3 |-> FALSE, start |-> [AtStart EXCEPT !.loaded = FALSE], faults |-> 0,
         opens |-> 2, streams |-> 2, writes |-> 2, calls |-> 1]
StaticFaults == [Base EXCEPT !.faults = 1, !.streams = 1]
StaticReads == [Base EXCEPT !.readS3 = TRUE, !.writes = 1]
StaticRealtime == [Base EXCEPT !.realtime = TRUE, !.opens = 1]
StaticTree == [Base EXCEPT !.lock = FALSE, !.headS3 = TRUE, !.opens = 2, !.streams = 0, !.writes = 1, !.calls = 2]

HostBase == [Base EXCEPT !.frontend = "host", !.guests = {g1, g2}, !.start = AtStart, !.writes = 1]
HostExit == [HostBase EXCEPT !.calls = 2]
HostSync == [HostBase EXCEPT !.faults = 1, !.streams = 1]
HostRealtime == [HostBase EXCEPT !.realtime = TRUE, !.readS3 = TRUE, !.streams = 1]
HostTree == [HostBase EXCEPT !.lock = FALSE, !.guests = {g1}, !.streams = 1, !.calls = 2]
MCConfigs == {StaticFaults, StaticReads, StaticRealtime, StaticTree, HostExit, HostSync, HostRealtime, HostTree}

\* A file that is removed and made again under one lease, in realtime mode.
Recreate == [StaticRealtime EXCEPT !.opens = 2]
MCRecreate == {Recreate}

MCForeign == {f}

Open(base, path, write) == [base |-> base, path |-> path, write |-> write, creat |-> write, trunc |-> FALSE]
MCOpens(cfg) ==
    CASE cfg = StaticTree -> {Open(<<>>, d, FALSE), Open(d, <<>>, FALSE), Open(d, f, TRUE), Open(<<>>, f, FALSE)}
      [] cfg = HostTree -> {Open(<<>>, d, FALSE), Open(d, f, TRUE)}
      [] cfg \in {StaticReads, StaticFaults} -> {Open(<<>>, f, TRUE), Open(<<>>, f, FALSE)}
      [] cfg = StaticRealtime -> {[Open(<<>>, f, TRUE) EXCEPT !.trunc = TRUE]}
      [] OTHER -> {Open(<<>>, f, TRUE)}

MCStreaming(cfg) ==
    CASE cfg \in {StaticReads, HostRealtime} -> {[kind |-> "in", at |-> 0], [kind |-> "out", at |-> 1]}
      [] cfg \in {HostExit, HostSync} -> {[kind |-> "append", at |-> 0]}
      [] OTHER -> {[kind |-> "out", at |-> 1], [kind |-> "append", at |-> 0]}

Call(op, p) == [op |-> op, base |-> <<>>, path |-> p, newBase |-> <<>>, newPath |-> p]
MCCalls(cfg) ==
    CASE cfg = StaticReads -> {Call("read", <<>>), Call("write", <<>>)}
      [] cfg = StaticFaults -> {Call("sync", <<>>), Call("write", <<>>)}
      [] cfg \in {StaticRealtime, Recreate} -> {Call("unlink", f), Call("set_size", <<>>)}
      [] cfg = HostExit -> {Call("exit", <<>>)}
      [] cfg = HostSync -> {Call("sync", <<>>)}
      [] cfg = HostRealtime -> {Call("read", <<>>), Call("set_size", <<>>)}
      [] OTHER -> {Call("write", <<>>), Call("mkdir", <<"g">>), Call("rmdir", d), Call("unlink", f),
                   [Call("rename", f) EXCEPT !.newBase = d, !.newPath = <<"g">>]}
=============================================================================
