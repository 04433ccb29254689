--------------------------- MODULE MCSyncManager ---------------------------
(***************************************************************************)
(* SyncManager for TLC.                                                    *)
(***************************************************************************)
EXTENDS SyncManager, TLC

CONSTANTS i1, i2, t1, t2, t3

\* One task for each instance: the RPC server, the static adapter.
OneThread == t1 :> i1 @@ t2 :> i2

\* Two threads in the first instance: the native host.
TwoThreads == t1 :> i1 @@ t3 :> i1 @@ t2 :> i2
=============================================================================
