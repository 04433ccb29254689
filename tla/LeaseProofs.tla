---------------------------- MODULE LeaseProofs ----------------------------
(***************************************************************************)
(* Proofs about LeaseHolder: type correctness, and, for a store that       *)
(* evaluates conditional deletes itself, that a holder owns the lock       *)
(* object, mutual exclusion, the epoch discipline of takeovers and the     *)
(* implementation of LeaseSpec; for any number of instances, any lease and *)
(* timeout, any number of transport faults and crashes.  Also, without     *)
(* faults and with prompt renewals, that a live holder keeps its lease.    *)
(***************************************************************************)
EXTENDS LeaseHolder, TLAPS

(***************************************************************************)
(* The inductive invariant.                                                *)
(***************************************************************************)

\* What a request in flight can do to the lock object, whether or not its
\* sender is still alive: a PUT writes a record of its sender, over nothing,
\* over an expired record with the next epoch, or over the sender's own record
\* of the same epoch that ends no later; a DELETE removes the sender's own.
RequestOK(t) ==
    /\ req[t].op = "put" =>
          /\ req[t].body \in Records
          /\ req[t].body.instance = InstanceOf[t]
          /\ \/ req[t].cond = "ifNoneMatch"
             \/ /\ req[t].cond = "ifMatch" /\ req[t].etag \in Records
                /\ \/ /\ IsExpired(req[t].etag)
                      /\ req[t].body.epoch = req[t].etag.epoch + 1
                   \/ /\ req[t].etag.instance = InstanceOf[t]
                      /\ req[t].body.epoch = req[t].etag.epoch
                      /\ req[t].body.expires >= req[t].etag.expires
    /\ req[t].op = "delete" =>
          /\ req[t].cond = "ifMatch" /\ req[t].etag \in Records
          /\ req[t].etag.instance = InstanceOf[t]

\* Where a live task can be: which request it may have in flight at each
\* await, and which part of the lease's life its entry says it is in.
ControlOK(t) ==
    /\ req[t].op # "none" => resp[t].status = "none"
    /\ req[t].op = "get" => Pc(t) \in {"get", "verify"}
    /\ req[t].op = "put" => Pc(t) \in {"put", "renew"} /\ req[t].body = call[t].body
    /\ req[t].op = "delete" => Pc(t) = "release"
    /\ Pc(t) \in {"put", "renew"} /\ resp[t].status = "ok" => resp[t].val = call[t].body
    /\ ~held[t].live => Pc(t) \in {"none", "get", "put", "verify", "sleep",
                                   "acquired", "busy", "failed"}
    /\ held[t].live /\ ~held[t].releasing =>
          Pc(t) \in {"none", "renew", "renewed", "lost", "renewFailed"}
    /\ held[t].live /\ held[t].releasing => Pc(t) \in {"release", "released"}

\* The records a live task remembers: what its call wrote or obtained, and
\* what its entry says.
MemoryOK(t) ==
    /\ Pc(t) \in {"put", "verify", "acquired", "renew", "renewed"} =>
          /\ call[t].body.instance = InstanceOf[t]
          /\ call[t].body.expires <= now + LeaseTime
    /\ Pc(t) \in {"acquired", "renewed"} => call[t].etag = call[t].body
    /\ Pc(t) \in {"renew", "renewed"} =>
          /\ call[t].body.epoch = held[t].epoch
          /\ call[t].body.expires >= held[t].expires
    /\ held[t].live =>
          /\ held[t].etag \in Records
          /\ held[t].etag.instance = InstanceOf[t]
          /\ held[t].etag.epoch = held[t].epoch
          /\ held[t].etag.expires = held[t].expires
          /\ held[t].expires <= now + LeaseTime

\* t has been told that it has the lease of record call[t].body.
Granted(t) ==
    \/ Pc(t) \in {"put", "renew"} /\ resp[t].status = "ok"
    \/ Pc(t) = "verify" /\ resp[t].status = "ok" /\ LeaseLanded(t)
    \/ Pc(t) \in {"acquired", "renewed"}

\* A grant, consumed or on its way, is backed by the lock object until it runs
\* out.  And the lock object names t only as a result of what t has done: in an
\* acquire it is what the GET returned or what the PUT wrote, which is why
\* comparing instance and epoch suffices in verify_lease_landed.
BackedOK(t) ==
    /\ held[t].live /\ ~held[t].releasing /\ now < held[t].expires =>
          Owns(t, held[t].epoch, held[t].expires)
    /\ Granted(t) /\ now < call[t].body.expires =>
          Owns(t, call[t].body.epoch, call[t].body.expires)
    /\ Pc(t) = "verify" /\ resp[t].status = "ok" /\ LeaseLanded(t) =>
          resp[t].val = call[t].body
    /\ lock # Absent /\ lock.instance = InstanceOf[t] =>
          /\ Pc(t) = "get" /\ resp[t].status = "ok" => lock = resp[t].val
          /\ Pc(t) \in {"put", "verify"} =>
                \/ lock = call[t].body
                \/ lock = call[t].etag /\ call[t].body.epoch = lock.epoch + 1

TaskOK(t) ==
    /\ RequestOK(t)
    /\ Live(t) => ControlOK(t) /\ MemoryOK(t) /\ BackedOK(t)
    /\ ~Live(t) => ~held[t].live

LeaseInv == TypeOK /\ \A t \in Tasks : TaskOK(t)

-----------------------------------------------------------------------------
(***************************************************************************)
(* Type correctness.                                                       *)
(***************************************************************************)

\* The constant records have their types, and so has a fresh record.
LEMMA ConstantTypes ==
    /\ NoRequest \in RequestType
    /\ NoResponse \in ResponseType
    /\ NoCall \in CallType
    /\ NoLease \in EntryType
    /\ Unparsable \in Records
  BY DEF NoRequest, NoResponse, NoCall, NoLease, Unparsable, LockRecord, RequestType,
         ResponseType, CallType, EntryType, Statuses, Records, ETags, AwaitPcs, ResultPcs

LEMMA FreshRecordType ==
    ASSUME now \in Nat, NEW t \in Tasks, NEW epoch \in Nat
    PROVE  FreshRecord(t, epoch) \in Records
  BY LeaseAssumption DEF FreshRecord, LockRecord, Records

\* The requests on the lock object have their types.
LEMMA RequestTypes ==
    ASSUME NEW etag \in ETags, NEW body \in Records
    PROVE  /\ Get("lock") \in RequestType
           /\ PutIf("lock", etag, body) \in RequestType
           /\ DeleteIf("lock", etag) \in RequestType
  BY DEF Get, PutIf, DeleteIf, RequestType, ETags

\* What the store answers and keeps has its type (Outcome, After, Response).
LEMMA ServedTypes ==
    ASSUME NEW r \in RequestType, NEW cur \in ETags
    PROVE  /\ Outcome(r, cur) \in Statuses
           /\ After(r, cur) \in ETags
           /\ Response(r, cur) \in ResponseType
  <1>1. CheckCond(r, cur) \in Statuses
    BY DEF CheckCond, RequestType, Statuses
  <1>2. Outcome(r, cur) \in Statuses
    BY <1>1 DEF Outcome, Statuses
  <1>3. After(r, cur) \in ETags
    BY DEF After, RequestType, ETags
  <1>4. Response(r, cur) \in ResponseType
    BY <1>2, <1>3 DEF Response, ResponseType, ETags
  <1> QED BY <1>2, <1>3, <1>4

LEMMA InitTypeOK == Init => TypeOK
  BY ConstantTypes DEF TypeOK, Init, StoreInit, LeaseInit, ETags, NoRequest

\* A task sends one of the requests of this module.
LEMMA SendTypeOK ==
    ASSUME TypeOK, NEW t \in Tasks, NEW r \in RequestType,
           r.op # "none" => r.key = "lock", Send(t, r)
    PROVE  /\ req' \in [Tasks -> RequestType]
           /\ \A u \in Tasks : req'[u].op # "none" => req'[u].key = "lock"
           /\ resp' \in [Tasks -> ResponseType]
  BY ConstantTypes DEF TypeOK, Send

LEMMA StoreStepTypeOK ==
    ASSUME TypeOK, NEW t \in Tasks, StoreStep(t)
    PROVE  /\ store' \in [Keys -> ETags]
           /\ req' \in [Tasks -> RequestType]
           /\ \A u \in Tasks : req'[u].op # "none" => req'[u].key = "lock"
           /\ resp' \in [Tasks -> ResponseType]
           /\ faults' \in Nat
  <1> USE DEF TypeOK
  <1> DEFINE r == req[t]
  <1> DEFINE cur == store[r.key]
  <1>1. r \in RequestType /\ r.op # "none"
    BY DEF StoreStep, Serve, TransportError, ServeTwice, HeadCheck
  <1>2. r.key = "lock" /\ cur \in ETags
    BY <1>1, LeaseAssumption
  <1>3. After(r, cur) \in ETags /\ Response(r, cur) \in ResponseType
    BY <1>1, <1>2, ServedTypes
  <1>4. /\ After(r, After(r, cur)) \in ETags
        /\ Response(r, After(r, cur)) \in ResponseType
    BY <1>1, <1>3, ServedTypes
  <1>5. [status |-> "error", val |-> Absent] \in ResponseType
    BY DEF ResponseType, Statuses, ETags
  <1>6. ASSUME NEW obj \in ETags, NEW a \in ResponseType, Served(t, obj, a)
        PROVE  /\ store' \in [Keys -> ETags]
               /\ req' \in [Tasks -> RequestType]
               /\ \A u \in Tasks : req'[u].op # "none" => req'[u].key = "lock"
               /\ resp' \in [Tasks -> ResponseType]
    BY <1>6, ConstantTypes DEF Served, NoRequest
  <1>7. CASE Serve(t)
    BY <1>7, <1>3, <1>6 DEF Serve
  <1>8. CASE TransportError(t)
    <2>1. PICK obj \in {cur, IF Emulated(r) THEN cur ELSE After(r, cur)} :
             Served(t, obj, [status |-> "error", val |-> Absent])
      BY <1>8 DEF TransportError
    <2>2. obj \in ETags
      BY <1>2, <1>3
    <2>3. faults' \in Nat
      BY <1>8 DEF TransportError
    <2> QED BY <2>1, <2>2, <2>3, <1>5, <1>6
  <1>9. CASE ServeTwice(t)
    BY <1>9, <1>4, <1>6 DEF ServeTwice
  <1>10. CASE HeadCheck(t)
    <2>1. DeleteIf("lock", Absent) \in RequestType /\ DeleteIf("lock", Absent).key = "lock"
      BY DEF DeleteIf, RequestType, ETags
    <2>2. CASE cur = r.etag
      BY <1>10, <1>2, <2>1, <2>2 DEF HeadCheck
    <2>3. CASE cur # r.etag
      BY <1>10, <1>2, <1>3, <2>3, <1>6 DEF HeadCheck
    <2> QED BY <2>2, <2>3
  <1> QED BY <1>7, <1>8, <1>9, <1>10 DEF StoreStep

LEMMA LeaseStepTypeOK ==
    ASSUME TypeOK, NEW t \in Tasks, LeaseStep(t)
    PROVE  /\ UNCHANGED <<store, faults, now>>
           /\ req' \in [Tasks -> RequestType]
           /\ \A u \in Tasks : req'[u].op # "none" => req'[u].key = "lock"
           /\ resp' \in [Tasks -> ResponseType]
           /\ call' \in [Tasks -> CallType]
  <1> USE DEF TypeOK
  <1>1. /\ NoRequest \in RequestType /\ NoRequest.op = "none"
        /\ Get("lock") \in RequestType /\ Get("lock").key = "lock"
    BY ConstantTypes DEF NoRequest, Get, RequestType, ETags
  <1>2. ASSUME NEW pc \in AwaitPcs \union ResultPcs, Goto(t, pc)
        PROVE  /\ req' \in [Tasks -> RequestType]
               /\ \A u \in Tasks : req'[u].op # "none" => req'[u].key = "lock"
               /\ resp' \in [Tasks -> ResponseType]
               /\ call' \in [Tasks -> CallType]
    BY <1>1, <1>2, SendTypeOK DEF Goto, CallType
  <1>3. CASE AcquireGot(t)
    <2> DEFINE seen == resp[t].val
    <2>1. seen \in ETags
      BY DEF ResponseType
    <2>2. CASE PutRecord(t, seen)
      <3> DEFINE epoch == IF seen = Absent THEN 1 ELSE seen.epoch + 1
      <3>1. epoch \in Nat
        BY <2>1 DEF ETags, Records
      <3>2. FreshRecord(t, epoch) \in Records
        BY <3>1, FreshRecordType
      <3>3. /\ PutIf("lock", seen, FreshRecord(t, epoch)) \in RequestType
            /\ PutIf("lock", seen, FreshRecord(t, epoch)).key = "lock"
        BY <2>1, <3>2, RequestTypes DEF PutIf
      <3>4. /\ Send(t, PutIf("lock", seen, FreshRecord(t, epoch)))
            /\ call' = [call EXCEPT ![t].pc = "put", ![t].etag = seen,
                                    ![t].body = FreshRecord(t, epoch)]
        BY <2>2 DEF PutRecord
      <3>5. [call[t] EXCEPT !.pc = "put", !.etag = seen, !.body = FreshRecord(t, epoch)]
               \in CallType
        BY <2>1, <3>2 DEF CallType, AwaitPcs
      <3>6. call' \in [Tasks -> CallType]
        BY <3>4, <3>5
      <3> QED BY <1>3, <3>3, <3>4, <3>6, SendTypeOK DEF AcquireGot
    <2>3. CASE Goto(t, "failed") \/ RetryOrBusy(t)
      BY <1>3, <2>3, <1>2 DEF AcquireGot, RetryOrBusy, AwaitPcs, ResultPcs
    <2> QED BY <1>3, <2>2, <2>3 DEF AcquireGot
  <1>4. CASE AcquirePut(t)
    <2>1. call' \in [Tasks -> CallType]
      BY <1>4, SMTT(30) DEF AcquirePut, CallType, ResponseType, AwaitPcs, ResultPcs, Statuses
    <2> QED BY <1>1, <1>4, <2>1, SendTypeOK DEF AcquirePut
  <1>5. CASE AcquireVerified(t)
    <2>1. CASE LeaseLanded(t)
      <3>1. call' \in [Tasks -> CallType]
        BY <1>5, <2>1 DEF AcquireVerified, CallType, ResponseType, ResultPcs
      <3> QED BY <1>1, <1>5, <2>1, <3>1, SendTypeOK DEF AcquireVerified
    <2>2. CASE ~LeaseLanded(t)
      BY <1>5, <2>2, <1>2 DEF AcquireVerified, RetryOrBusy, AwaitPcs, ResultPcs
    <2> QED BY <2>1, <2>2
  <1>6. CASE AcquireWake(t)
    <2>1. call' \in [Tasks -> CallType]
      BY <1>6 DEF AcquireWake, CallType, AwaitPcs
    <2> QED BY <1>1, <1>6, <2>1, SendTypeOK DEF AcquireWake
  <1>7. CASE RenewDone(t)
    <2> DEFINE done(pc, etag) == [call[t] EXCEPT !.pc = pc, !.etag = etag]
    <2>0. /\ call[t] \in CallType /\ call[t].etag \in ETags /\ resp[t].val \in ETags
          /\ \A pc \in ResultPcs, etag \in ETags : done(pc, etag) \in CallType
      BY DEF CallType, ResponseType
    <2>a. \E pc \in ResultPcs, etag \in ETags : call' = [call EXCEPT ![t] = done(pc, etag)]
      <3>1. CASE resp[t].status = "ok"
        <4>1. call' = [call EXCEPT ![t] = done("renewed", resp[t].val)]
          BY <1>7, <3>1 DEF RenewDone
        <4> QED BY <2>0, <4>1 DEF ResultPcs
      <3>2. CASE resp[t].status = "error"
        <4>1. call' = [call EXCEPT ![t] = done("renewFailed", call[t].etag)]
          BY <1>7, <3>2 DEF RenewDone
        <4>2. "renewFailed" \in ResultPcs
          BY DEF ResultPcs
        <4> HIDE DEF done
        <4> QED BY <2>0, <4>1, <4>2
      <3>3. CASE resp[t].status \notin {"ok", "error"}
        <4>1. call' = [call EXCEPT ![t] = done("lost", call[t].etag)]
          BY <1>7, <3>3 DEF RenewDone
        <4>2. "lost" \in ResultPcs
          BY DEF ResultPcs
        <4> HIDE DEF done
        <4> QED BY <2>0, <4>1, <4>2
      <3> QED BY <3>1, <3>2, <3>3
    <2>1. call' \in [Tasks -> CallType]
      BY <2>0, <2>a, ZenonT(60)
    <2> QED BY <1>1, <1>7, <2>1, SendTypeOK DEF RenewDone
  <1>8. CASE ReleaseDone(t)
    BY <1>8, <1>2 DEF ReleaseDone, ResultPcs
  <1> QED BY <1>3, <1>4, <1>5, <1>6, <1>7, <1>8 DEF LeaseStep

\* Every step keeps the types.
LEMMA NextTypeOK == TypeOK /\ [Next]_vars => TypeOK'
  <1> SUFFICES ASSUME TypeOK, [Next]_vars PROVE TypeOK'
    OBVIOUS
  <1> USE DEF TypeOK
  <1>0. /\ NoRequest \in RequestType /\ NoCall \in CallType /\ NoLease \in EntryType
        /\ Get("lock") \in RequestType /\ Get("lock").key = "lock"
    BY ConstantTypes DEF Get, RequestType, ETags
  <1>1. CASE UNCHANGED vars
    BY <1>1 DEF vars, leaseVars, storeVars
  <1>2. CASE Tick
    BY <1>2 DEF Tick, storeVars
  <1>3. ASSUME NEW t \in Tasks, TaskStep(t) PROVE TypeOK'
    <2>1. CASE Open(t)
      <3>0. [NoCall EXCEPT !.pc = "get", !.deadline = now + LockTimeout] \in CallType
        <4>1. now + LockTimeout \in Nat
          BY LeaseAssumption
        <4> HIDE DEF TypeOK
        <4> QED BY <1>0, <4>1 DEF CallType, AwaitPcs
      <3>1. call' \in [Tasks -> CallType]
        BY <2>1, <3>0 DEF Open, CallAcquire
      <3> QED BY <2>1, <3>1, <1>0, SendTypeOK DEF Open, CallAcquire
    <2>2. CASE Opened(t)
      <3>1. call[t] \in CallType
        OBVIOUS
      <3>2. held' \in [Tasks -> EntryType]
        BY <2>2, <3>1, <1>0 DEF Opened, EntryType, CallType, Records
      <3> QED BY <2>2, <3>2, <1>0 DEF Opened, storeVars
    <2>3. CASE OpenFailed(t)
      BY <2>3, <1>0 DEF OpenFailed, storeVars
    <2>4. CASE Renew(t)
      <3>1. held[t].epoch \in Nat /\ held[t].etag \in ETags
        BY DEF EntryType
      <3>2. FreshRecord(t, held[t].epoch) \in Records
        BY <3>1, FreshRecordType
      <3>3. /\ PutIf("lock", held[t].etag, FreshRecord(t, held[t].epoch)) \in RequestType
            /\ PutIf("lock", held[t].etag, FreshRecord(t, held[t].epoch)).key = "lock"
        BY <3>1, <3>2, RequestTypes DEF PutIf
      <3>4. call' \in [Tasks -> CallType]
        BY <2>4, <3>1, <3>2, <1>0 DEF Renew, CallRenew, CallType, AwaitPcs
      <3> QED BY <2>4, <3>3, <3>4, SendTypeOK DEF Renew, CallRenew
    <2>5. CASE Renewed(t)
      <3>1. call[t] \in CallType
        OBVIOUS
      <3>a. /\ [held[t] EXCEPT !.etag = call[t].etag, !.expires = call[t].body.expires]
                  \in EntryType
            /\ [held[t] EXCEPT !.lost = TRUE] \in EntryType
        BY <3>1, ZenonT(60) DEF EntryType, CallType, Records
      <3>b. held' = [held EXCEPT ![t] = held'[t]] /\ held'[t] \in EntryType
        <4>1. CASE Pc(t) = "renewed"
          BY <2>5, <3>a, <4>1 DEF Renewed
        <4>2. CASE Pc(t) = "lost"
          BY <2>5, <3>a, <4>2 DEF Renewed
        <4>3. CASE Pc(t) = "renewFailed"
          BY <2>5, <4>3 DEF Renewed
        <4> QED BY <2>5, <4>1, <4>2, <4>3 DEF Renewed
      <3>2. held' \in [Tasks -> EntryType]
        BY <3>b
      <3> QED BY <2>5, <3>2, <1>0 DEF Renewed, storeVars
    <2>6. CASE Close(t)
      <3>1. held[t].etag \in ETags
        BY DEF EntryType
      <3>2. /\ DeleteIf("lock", held[t].etag) \in RequestType
            /\ DeleteIf("lock", held[t].etag).key = "lock"
        BY <3>1 DEF DeleteIf, RequestType, ETags
      <3>3. call' \in [Tasks -> CallType]
        BY <2>6, <3>1, <1>0 DEF Close, CallRelease, CallType, AwaitPcs
      <3>4. held' \in [Tasks -> EntryType]
        BY <2>6 DEF Close, EntryType
      <3> QED BY <2>6, <3>2, <3>3, <3>4, SendTypeOK DEF Close, CallRelease
    <2>7. CASE Closed(t)
      BY <2>7, <1>0 DEF Closed, storeVars
    <2>8. CASE Crash(t)
      BY <2>8, <1>0 DEF Crash, storeVars
    <2>9. CASE Background(t)
      <3>1. CASE StoreStep(t) /\ UNCHANGED <<now, call>>
        BY <2>9, <3>1, StoreStepTypeOK DEF Background
      <3>2. CASE Live(t) /\ LeaseStep(t)
        BY <2>9, <3>2, LeaseStepTypeOK DEF Background
      <3> QED BY <2>9, <3>1, <3>2 DEF Background
    <2> QED BY <1>3, <2>1, <2>2, <2>3, <2>4, <2>5, <2>6, <2>7, <2>8, <2>9 DEF TaskStep
  <1> QED BY <1>1, <1>2, <1>3 DEF Next

\* Every reachable state has the types of TypeOK, whatever the store supports:
\* the lock key only ever holds lease records, and every request, response and
\* lease entry is one that lease.rs can produce.
THEOREM TypeCorrect == Spec => []TypeOK
  BY InitTypeOK, NextTypeOK, PTL DEF Spec

-----------------------------------------------------------------------------
(***************************************************************************)
(* What the store does with a request.                                     *)
(***************************************************************************)

\* Serving r turns cur into obj: nothing changes, or a PUT whose condition
\* holds writes its body, or a DELETE removes the version it names.
Effect(r, cur, obj) ==
    \/ obj = cur
    \/ /\ r.op = "put" /\ obj = r.body
       /\ \/ r.cond = "ifNoneMatch" /\ cur = Absent
          \/ r.cond = "ifMatch" /\ cur = r.etag
    \/ r.op = "delete" /\ obj = Absent /\ cur = r.etag

\* The answer a to r tells the truth about the key, which then holds obj.
Truthful(r, cur, obj, a) ==
    /\ a.status # "none"
    /\ a.status = "ok" /\ r.op = "get" => obj = cur /\ a.val = cur
    /\ a.status = "ok" /\ r.op = "put" => obj = r.body /\ a.val = r.body

\* Every PUT and DELETE of lease.rs is conditional.
Conditional(r) ==
    /\ r.op = "put" => r.cond \in {"ifNoneMatch", "ifMatch"}
    /\ r.op = "delete" => r.cond = "ifMatch"

LEMMA ServedOnce ==
    ASSUME NEW r \in RequestType, NEW cur \in ETags, Conditional(r)
    PROVE  /\ Effect(r, cur, After(r, cur))
           /\ Truthful(r, cur, After(r, cur), Response(r, cur))
  <1>1. CheckCond(r, cur) # "none"
    BY DEF CheckCond, RequestType
  <1>2. Outcome(r, cur) # "none"
    BY <1>1 DEF Outcome
  <1>3. Effect(r, cur, After(r, cur))
    <2>1. CASE Outcome(r, cur) # "ok"
      BY <2>1 DEF Effect, After
    <2>2. CASE Outcome(r, cur) = "ok" /\ r.op = "put"
      BY <2>2 DEF Effect, After, Outcome, CheckCond, Conditional
    <2>3. CASE Outcome(r, cur) = "ok" /\ r.op = "delete"
      BY <2>3 DEF Effect, After, Outcome, CheckCond, Conditional
    <2>4. CASE Outcome(r, cur) = "ok" /\ r.op \notin {"put", "delete"}
      BY <2>4 DEF Effect, After
    <2> QED BY <2>1, <2>2, <2>3, <2>4
  <1>4. Truthful(r, cur, After(r, cur), Response(r, cur))
    BY <1>2 DEF Truthful, Response, After
  <1> QED BY <1>3, <1>4

LEMMA ServedAgain ==
    ASSUME NEW r \in RequestType, NEW cur \in ETags, Conditional(r), r.op # "get"
    PROVE  /\ Effect(r, cur, After(r, After(r, cur)))
           /\ Truthful(r, cur, After(r, After(r, cur)), Response(r, After(r, cur)))
  <1> DEFINE mid == After(r, cur)
  <1>1. mid \in ETags
    BY ServedTypes
  <1>2. Effect(r, cur, mid) /\ Effect(r, mid, After(r, mid))
    BY <1>1, ServedOnce
  <1>3. Truthful(r, mid, After(r, mid), Response(r, mid))
    BY <1>1, ServedOnce
  <1> HIDE DEF mid
  <1>4. Effect(r, cur, After(r, mid))
    BY <1>2 DEF Effect
  <1>5. Truthful(r, cur, After(r, mid), Response(r, mid))
    BY <1>3 DEF Truthful
  <1> QED BY <1>4, <1>5 DEF mid

\* A step of the store, when it supports conditional deletes.
LEMMA StoreStepEffect ==
    ASSUME TypeOK, NEW t \in Tasks, RequestOK(t), ConditionalDelete, StoreStep(t)
    PROVE  \E obj \in ETags, a \in ResponseType :
               /\ req[t].op # "none"
               /\ Effect(req[t], lock, obj)
               /\ Truthful(req[t], lock, obj, a)
               /\ store' = [store EXCEPT !["lock"] = obj]
               /\ req' = [req EXCEPT ![t] = NoRequest]
               /\ resp' = [resp EXCEPT ![t] = a]
  <1> DEFINE r == req[t]
  <1>1. /\ r \in RequestType /\ r.op # "none" /\ r.key = "lock"
    BY DEF TypeOK, StoreStep, Serve, TransportError, ServeTwice, HeadCheck
  <1>2. lock \in ETags /\ store[r.key] = lock
    BY <1>1, LeaseAssumption DEF TypeOK, lock
  <1>3. Conditional(r) /\ ~Emulated(r)
    BY DEF Conditional, RequestOK, Emulated
  <1>4. CASE Serve(t)
    <2>1. Served(t, After(r, lock), Response(r, lock))
      BY <1>2, <1>4 DEF Serve
    <2>2. After(r, lock) \in ETags /\ Response(r, lock) \in ResponseType
      BY <1>1, <1>2, ServedTypes
    <2> QED BY <1>1, <1>2, <1>3, <2>1, <2>2, ServedOnce DEF Served
  <1>5. CASE TransportError(t)
    <2> DEFINE a == [status |-> "error", val |-> Absent]
    <2>1. PICK obj \in {lock, After(r, lock)} : Served(t, obj, a)
      BY <1>2, <1>3, <1>5 DEF TransportError
    <2>2. obj \in ETags /\ a \in ResponseType
      BY <1>1, <1>2, ServedTypes DEF ResponseType, Statuses, ETags
    <2>3. Effect(r, lock, obj)
      BY <1>1, <1>2, <1>3, ServedOnce DEF Effect
    <2>4. Truthful(r, lock, obj, a)
      BY DEF Truthful
    <2> QED BY <1>1, <2>1, <2>2, <2>3, <2>4 DEF Served
  <1>6. CASE ServeTwice(t)
    <2> DEFINE mid == After(r, lock)
    <2>1. Served(t, After(r, mid), Response(r, mid)) /\ r.op # "get"
      BY <1>2, <1>6 DEF ServeTwice
    <2>2. mid \in ETags
      BY <1>1, <1>2, ServedTypes
    <2>3. After(r, mid) \in ETags /\ Response(r, mid) \in ResponseType
      BY <1>1, <2>2, ServedTypes
    <2> QED BY <1>1, <1>2, <1>3, <2>1, <2>3, ServedAgain DEF Served
  <1>7. CASE HeadCheck(t)
    BY <1>3, <1>7 DEF HeadCheck
  <1> QED BY <1>4, <1>5, <1>6, <1>7 DEF StoreStep

-----------------------------------------------------------------------------
(***************************************************************************)
(* The invariant of the tasks that do not move.                            *)
(***************************************************************************)

\* Nothing that a task's invariant mentions has changed.
LEMMA Untouched ==
    ASSUME NEW u \in Tasks, TaskOK(u), UNCHANGED <<store, now>>,
           req'[u] = req[u], resp'[u] = resp[u], call'[u] = call[u], held'[u] = held[u],
           Live(u)' <=> Live(u)
    PROVE  TaskOK(u)'
  <1>1. RequestOK(u)'
    BY DEF TaskOK, RequestOK, IsExpired
  <1>2. ASSUME Live(u) PROVE ControlOK(u)' /\ MemoryOK(u)'
    BY <1>2 DEF TaskOK, ControlOK, MemoryOK, Pc
  <1>3. ASSUME Live(u) PROVE BackedOK(u)'
    BY <1>3 DEF TaskOK, BackedOK, Granted, LeaseLanded, Owns, Pc, lock
  <1> QED BY <1>1, <1>2, <1>3 DEF TaskOK

\* A change of the lock object that is none of u's business: it was not u's,
\* or had expired, and is not u's now.
LEMMA LockChanged ==
    ASSUME TypeOK, NEW u \in Tasks, TaskOK(u), UNCHANGED now,
           req'[u] = req[u], resp'[u] = resp[u], call'[u] = call[u], held'[u] = held[u],
           Live(u)' <=> Live(u),
           \/ lock' = lock
           \/ /\ lock # Absent => lock.instance # InstanceOf[u] \/ IsExpired(lock)
              /\ lock' # Absent => lock'.instance # InstanceOf[u]
    PROVE  TaskOK(u)'
  <1>1. RequestOK(u)'
    BY DEF TaskOK, RequestOK, IsExpired
  <1>2. ASSUME Live(u) PROVE ControlOK(u)' /\ MemoryOK(u)'
    BY <1>2 DEF TaskOK, ControlOK, MemoryOK, Pc
  <1>3. ASSUME Live(u) PROVE BackedOK(u)'
    <2>0. BackedOK(u) /\ Pc(u)' = Pc(u) /\ (Granted(u)' <=> Granted(u))
          /\ (LeaseLanded(u)' <=> LeaseLanded(u))
      BY <1>3 DEF TaskOK, Granted, LeaseLanded, Pc
    <2>1. ASSUME NEW epoch \in Nat, NEW expires \in Nat, now < expires,
                 Owns(u, epoch, expires)
          PROVE  Owns(u, epoch, expires)'
      <3>1. lock \in Records
        BY <2>1, LeaseAssumption DEF TypeOK, Owns, lock, ETags
      <3>2. ~IsExpired(lock)
        BY <2>1, <3>1 DEF IsExpired, Owns, TypeOK, Records
      <3>3. lock' = lock
        BY <2>1, <3>2 DEF Owns
      <3> QED BY <2>1, <3>3 DEF Owns
    <2>2. /\ held[u].epoch \in Nat /\ held[u].expires \in Nat
          /\ call[u].body.epoch \in Nat /\ call[u].body.expires \in Nat
      BY DEF TypeOK, EntryType, CallType, Records
    <2>3. held'[u].live /\ ~held'[u].releasing /\ now' < held'[u].expires =>
             Owns(u, held[u].epoch, held[u].expires)'
      BY <2>0, <2>1, <2>2 DEF BackedOK
    <2>4. Granted(u)' /\ now' < call'[u].body.expires =>
             Owns(u, call[u].body.epoch, call[u].body.expires)'
      BY <2>0, <2>1, <2>2 DEF BackedOK
    <2>5. lock' # Absent /\ lock'.instance = InstanceOf[u] => lock' = lock
      OBVIOUS
    <2> QED BY <2>0, <2>3, <2>4, <2>5 DEF BackedOK, Owns
  <1> QED BY <1>1, <1>2, <1>3 DEF TaskOK

\* Time passes.
LEMMA TickKeeps ==
    ASSUME TypeOK, Tick, NEW u \in Tasks, TaskOK(u)
    PROVE  TaskOK(u)'
  <1>0. /\ now \in Nat /\ now' = now + 1 /\ UNCHANGED <<store, req, resp, call, held, dead>>
    BY DEF TypeOK, Tick, storeVars
  <1>1. RequestOK(u)'
    BY <1>0 DEF TaskOK, RequestOK, IsExpired, Records
  <1>2. ASSUME Live(u) PROVE ControlOK(u)'
    BY <1>0, <1>2 DEF TaskOK, ControlOK, Pc
  <1>3. ASSUME Live(u) PROVE MemoryOK(u)'
    BY <1>0, <1>3, LeaseAssumption
       DEF TypeOK, CallType, EntryType, Records, TaskOK, MemoryOK, Pc
  <1>4. ASSUME Live(u) PROVE BackedOK(u)'
    <2>1. /\ held[u].expires \in Nat /\ call[u].body.expires \in Nat
      BY DEF TypeOK, EntryType, CallType, Records
    <2>2. BackedOK(u)
      BY <1>4 DEF TaskOK
    <2> QED BY <1>0, <2>1, <2>2 DEF BackedOK, Granted, LeaseLanded, Owns, Pc, lock
  <1> QED BY <1>0, <1>1, <1>2, <1>3, <1>4 DEF TaskOK, Live

-----------------------------------------------------------------------------
(***************************************************************************)
(* The invariant of the task that moves.                                   *)
(***************************************************************************)

\* The store serves t's own request.
LEMMA OwnRequestServed ==
    ASSUME TypeOK, NEW t \in Tasks, TaskOK(t), ConditionalDelete,
           StoreStep(t), UNCHANGED <<now, call, held, dead>>
    PROVE  TaskOK(t)'
  <1>1. PICK obj \in ETags, a \in ResponseType :
               /\ req[t].op # "none"
               /\ Effect(req[t], lock, obj)
               /\ Truthful(req[t], lock, obj, a)
               /\ store' = [store EXCEPT !["lock"] = obj]
               /\ req' = [req EXCEPT ![t] = NoRequest]
               /\ resp' = [resp EXCEPT ![t] = a]
    BY StoreStepEffect DEF TaskOK
  <1>2. /\ lock' = obj /\ req'[t] = NoRequest /\ resp'[t] = a
        /\ req[t].op \in {"get", "put", "delete"}
    BY <1>1, LeaseAssumption DEF TypeOK, lock, RequestType
  <1>3. RequestOK(t)' /\ req'[t].op = "none"
    BY <1>2 DEF RequestOK, NoRequest
  <1>4. SUFFICES ASSUME Live(t) PROVE ControlOK(t)' /\ MemoryOK(t)' /\ BackedOK(t)'
    BY <1>3 DEF TaskOK, Live
  <1>5. ControlOK(t) /\ MemoryOK(t) /\ BackedOK(t) /\ RequestOK(t)
    BY <1>4 DEF TaskOK
  <1>6. Pc(t)' = Pc(t)
    BY DEF Pc
  <1>7. MemoryOK(t)'
    BY <1>5 DEF MemoryOK, Pc
  <1>8. ControlOK(t)'
    BY <1>1, <1>2, <1>3, <1>5, <1>6 DEF ControlOK, Truthful
  <1>9. BackedOK(t)'
    <2>0. /\ held[t] \in EntryType /\ call[t] \in CallType /\ call[t].body \in Records
          /\ now \in Nat /\ lock \in ETags /\ Absent \notin Records
      BY HolderAssumption, LeaseAssumption DEF TypeOK, CallType, lock
    <2>1. CASE req[t].op = "get"
      <3>1. Pc(t) \in {"get", "verify"} /\ obj = lock
        BY <1>1, <1>5, <2>1 DEF ControlOK, Effect
      <3>2. a.status = "ok" => a.val = lock
        BY <1>1, <2>1 DEF Truthful
      <3>3. lock' = lock
        BY <1>2, <3>1
      <3>4. ~(held[t].live /\ ~held[t].releasing)
        BY <1>5, <3>1 DEF ControlOK
      <3>5. Pc(t) = "verify" /\ a.status = "ok" /\ LeaseLanded(t)' =>
               lock = call[t].body /\ a.val = lock
        <4> SUFFICES ASSUME Pc(t) = "verify", a.status = "ok", LeaseLanded(t)'
                     PROVE  lock = call[t].body /\ a.val = lock
          OBVIOUS
        <4>1. /\ a.val = lock /\ lock # Absent /\ lock.instance = InstanceOf[t]
              /\ lock.epoch = call[t].body.epoch
          BY <1>2, <3>2 DEF LeaseLanded
        <4>2. lock.epoch \in Nat
          BY <2>0, <4>1 DEF ETags, Records
        <4>3. lock = call[t].body \/ call[t].body.epoch = lock.epoch + 1
          BY <1>5, <4>1 DEF BackedOK
        <4> QED BY <4>1, <4>2, <4>3
      <3>6. Granted(t)' => Owns(t, call[t].body.epoch, call[t].body.expires)'
        <4> SUFFICES ASSUME Granted(t)' PROVE Owns(t, call[t].body.epoch, call[t].body.expires)'
          OBVIOUS
        <4>1. Pc(t) = "verify" /\ a.status = "ok" /\ LeaseLanded(t)'
          BY <1>2, <1>6, <3>1 DEF Granted
        <4>2. lock' = call[t].body
          BY <3>3, <3>5, <4>1
        <4>3. call[t].body.instance = InstanceOf[t] /\ call[t].body.expires \in Nat
          BY <1>5, <2>0, <4>1 DEF MemoryOK, Records
        <4> QED BY <2>0, <4>2, <4>3 DEF Owns
      <3>7. lock # Absent /\ lock.instance = InstanceOf[t] /\ Pc(t) = "verify" =>
               \/ lock = call[t].body
               \/ lock = call[t].etag /\ call[t].body.epoch = lock.epoch + 1
        BY <1>5 DEF BackedOK
      <3>8. Pc(t) = "verify" /\ a.status = "ok" /\ LeaseLanded(t)' => a.val = call[t].body
        BY <3>5
      <3> QED BY <1>2, <1>6, <3>1, <3>2, <3>3, <3>4, <3>6, <3>7, <3>8 DEF BackedOK
    <2>2. CASE req[t].op = "put"
      <3>1. /\ Pc(t) \in {"put", "renew"} /\ req[t].body = call[t].body
            /\ obj = lock \/ obj = call[t].body
        BY <1>1, <1>5, <2>2 DEF ControlOK, Effect
      <3>2. a.status = "ok" => obj = call[t].body
        BY <1>1, <2>2, <3>1 DEF Truthful
      <3>3. call[t].body.instance = InstanceOf[t]
        BY <1>5, <3>1 DEF MemoryOK
      <3>4. held[t].live /\ ~held[t].releasing /\ now < held[t].expires =>
               Owns(t, held[t].epoch, held[t].expires)'
        <4>1. CASE held[t].live /\ ~held[t].releasing /\ now < held[t].expires
          <5>1. Owns(t, held[t].epoch, held[t].expires)
            BY <1>5, <4>1 DEF BackedOK
          <5>2. Pc(t) = "renew"
            BY <1>5, <3>1, <4>1 DEF ControlOK
          <5>3. /\ call[t].body.epoch = held[t].epoch
                /\ call[t].body.expires >= held[t].expires
            BY <1>5, <5>2 DEF MemoryOK
          <5> QED BY <1>2, <2>0, <3>1, <3>3, <5>1, <5>3 DEF Owns
        <4> QED BY <4>1
      <3>5. Granted(t)' => Owns(t, call[t].body.epoch, call[t].body.expires)'
        BY <1>2, <1>6, <2>0, <3>1, <3>2, <3>3 DEF Granted, Owns, Records
      <3>6. lock' # Absent /\ lock'.instance = InstanceOf[t] /\ Pc(t) = "put" =>
               \/ lock' = call[t].body
               \/ lock' = call[t].etag /\ call[t].body.epoch = lock'.epoch + 1
        BY <1>2, <1>5, <3>1 DEF BackedOK
      <3> QED BY <1>6, <3>1, <3>4, <3>5, <3>6 DEF BackedOK
    <2>3. CASE req[t].op = "delete"
      <3>1. Pc(t) = "release"
        BY <1>5, <2>3 DEF ControlOK
      <3>2. ~(held[t].live /\ ~held[t].releasing)
        BY <1>5, <3>1 DEF ControlOK
      <3> QED BY <1>6, <3>1, <3>2 DEF BackedOK, Granted
    <2> QED BY <1>2, <2>1, <2>2, <2>3
  <1> QED BY <1>7, <1>8, <1>9

\* What a task that sends a request knows afterwards.
LEMMA Sent ==
    ASSUME TypeOK, NEW t \in Tasks, NEW r, Send(t, r)
    PROVE  req'[t] = r /\ resp'[t].status = "none"
  BY DEF TypeOK, Send, NoResponse

LEMMA OpenKeeps ==
    ASSUME TypeOK, NEW t \in Tasks, TaskOK(t), Open(t)
    PROVE  TaskOK(t)'
  <1>1. /\ Live(t) /\ Live(t)' /\ ~held[t].live /\ held'[t] = held[t]
        /\ Pc(t)' = "get"
        /\ UNCHANGED <<store, now>>
    BY DEF TypeOK, Open, CallAcquire, Pc, Live
  <1>2. req'[t].op = "get" /\ resp'[t].status = "none"
    BY Sent DEF Open, CallAcquire, Get
  <1>3. RequestOK(t)'
    BY <1>2 DEF RequestOK
  <1>4. ControlOK(t)'
    BY <1>1, <1>2 DEF ControlOK
  <1>5. MemoryOK(t)'
    BY <1>1 DEF MemoryOK
  <1>6. BackedOK(t)'
    BY <1>1, <1>2 DEF BackedOK, Granted
  <1> QED BY <1>1, <1>3, <1>4, <1>5, <1>6 DEF TaskOK

LEMMA OpenedKeeps ==
    ASSUME TypeOK, NEW t \in Tasks, TaskOK(t), Opened(t)
    PROVE  TaskOK(t)'
  <1>1. /\ Live(t) /\ Live(t)' /\ Pc(t) = "acquired" /\ Pc(t)' = "none"
        /\ UNCHANGED <<store, now, req, resp>>
    BY DEF TypeOK, Opened, Pc, Live, storeVars, NoCall
  <1>2. /\ held'[t].live = TRUE /\ held'[t].releasing = FALSE
        /\ held'[t].etag = call[t].etag
        /\ held'[t].epoch = call[t].body.epoch
        /\ held'[t].expires = call[t].body.expires
    BY DEF TypeOK, Opened, NoLease
  <1>3. RequestOK(t) /\ ControlOK(t) /\ MemoryOK(t) /\ BackedOK(t)
    BY <1>1 DEF TaskOK
  <1>4. call[t].etag = call[t].body /\ call[t].body \in Records
    BY <1>1, <1>3 DEF MemoryOK, TypeOK, CallType
  <1>5. RequestOK(t)'
    BY <1>1, <1>3 DEF RequestOK, IsExpired
  <1>6. ControlOK(t)'
    BY <1>1, <1>2, <1>3 DEF ControlOK, TypeOK, RequestType
  <1>7. MemoryOK(t)'
    BY <1>1, <1>2, <1>3, <1>4 DEF MemoryOK
  <1>8. BackedOK(t)'
    BY <1>1, <1>2, <1>3 DEF BackedOK, Granted, Owns, lock
  <1> QED BY <1>1, <1>5, <1>6, <1>7, <1>8 DEF TaskOK

\* A task whose call returned goes on without a lease, or with the one it had.
LEMMA ReturnKeeps ==
    ASSUME TypeOK, NEW t \in Tasks, TaskOK(t), Live(t), Live(t)',
           Pc(t) \in ResultPcs, call'[t] = NoCall,
           UNCHANGED <<store, now, req, resp>>,
           \/ /\ held'[t].live <=> held[t].live
              /\ held[t].live => /\ ~held[t].releasing /\ ~held'[t].releasing
                                 /\ held'[t].etag = held[t].etag
                                 /\ held'[t].epoch = held[t].epoch
                                 /\ held'[t].expires = held[t].expires
           \/ ~held'[t].live
    PROVE  TaskOK(t)'
  <1>1. RequestOK(t) /\ ControlOK(t) /\ MemoryOK(t) /\ BackedOK(t)
    BY DEF TaskOK
  <1>2. Pc(t)' = "none"
    BY DEF Pc, NoCall
  <1>3. RequestOK(t)'
    BY <1>1 DEF RequestOK, IsExpired
  <1>4. req'[t].op = "none"
    BY <1>1 DEF ControlOK, TypeOK, RequestType, ResultPcs
  <1>5. ControlOK(t)'
    BY <1>2, <1>4 DEF ControlOK
  <1>6. MemoryOK(t)'
    BY <1>1, <1>2 DEF MemoryOK
  <1>7. BackedOK(t)'
    BY <1>1, <1>2 DEF BackedOK, Granted, Owns, lock
  <1> QED BY <1>3, <1>5, <1>6, <1>7 DEF TaskOK

LEMMA RenewedKeeps ==
    ASSUME TypeOK, NEW t \in Tasks, TaskOK(t), Renewed(t)
    PROVE  TaskOK(t)'
  <1>1. /\ Live(t) /\ Live(t)' /\ call'[t] = NoCall
        /\ UNCHANGED <<store, now, req, resp>>
    BY DEF TypeOK, Renewed, Pc, Live, storeVars
  <1>2. RequestOK(t) /\ ControlOK(t) /\ MemoryOK(t) /\ BackedOK(t)
    BY <1>1 DEF TaskOK
  <1>3. CASE Pc(t) = "renewed"
    <2>1. /\ held'[t].live = held[t].live /\ held'[t].releasing = held[t].releasing
          /\ held'[t].etag = call[t].etag
          /\ held'[t].epoch = held[t].epoch
          /\ held'[t].expires = call[t].body.expires
      BY <1>3 DEF TypeOK, Renewed, EntryType
    <2>2. held[t].live /\ ~held[t].releasing /\ Pc(t)' = "none"
      BY <1>1, <1>2, <1>3 DEF ControlOK, Pc, NoCall
    <2>3. /\ call[t].etag = call[t].body /\ call[t].body \in Records
          /\ call[t].body.epoch = held[t].epoch
          /\ Granted(t)
      BY <1>2, <1>3 DEF MemoryOK, TypeOK, CallType, Granted
    <2>4. RequestOK(t)'
      BY <1>1, <1>2 DEF RequestOK, IsExpired
    <2>5. ControlOK(t)'
      BY <1>1, <1>2, <1>3, <2>1, <2>2 DEF ControlOK, TypeOK, RequestType
    <2>6. MemoryOK(t)'
      BY <1>1, <1>2, <1>3, <2>1, <2>2, <2>3 DEF MemoryOK
    <2>7. BackedOK(t)'
      BY <1>1, <1>2, <2>1, <2>2, <2>3 DEF BackedOK, Granted, Owns, lock
    <2> QED BY <1>1, <2>4, <2>5, <2>6, <2>7 DEF TaskOK
  <1>4. CASE Pc(t) \in {"lost", "renewFailed"}
    <2>1. /\ held'[t].live = held[t].live /\ held'[t].releasing = held[t].releasing
          /\ held'[t].etag = held[t].etag
          /\ held'[t].epoch = held[t].epoch
          /\ held'[t].expires = held[t].expires
      <3>1. CASE Pc(t) = "lost"
        BY <3>1 DEF TypeOK, Renewed, EntryType
      <3>2. CASE Pc(t) = "renewFailed"
        BY <3>2 DEF TypeOK, Renewed, EntryType
      <3> QED BY <1>4, <3>1, <3>2
    <2>2. held[t].live /\ ~held[t].releasing
      BY <1>2, <1>4 DEF ControlOK
    <2> QED BY <1>1, <1>4, <2>1, <2>2, ReturnKeeps DEF ResultPcs
  <1> QED BY <1>3, <1>4 DEF Renewed

LEMMA RenewKeeps ==
    ASSUME TypeOK, NEW t \in Tasks, TaskOK(t), Renew(t)
    PROVE  TaskOK(t)'
  <1> DEFINE body == FreshRecord(t, held[t].epoch)
  <1>1. /\ Live(t) /\ Live(t)' /\ held[t].live /\ ~held[t].releasing /\ held'[t] = held[t]
        /\ Pc(t)' = "renew" /\ call'[t].body = body
        /\ UNCHANGED <<store, now>>
    BY DEF TypeOK, Renew, NeedsRenewal, CallRenew, Pc, Live, NoCall
  <1>2. req'[t] = PutIf("lock", held[t].etag, body) /\ resp'[t].status = "none"
    BY Sent DEF Renew, CallRenew
  <1>3. MemoryOK(t) /\ BackedOK(t)
    BY <1>1 DEF TaskOK
  <1>4. /\ held[t].epoch \in Nat /\ held[t].expires \in Nat /\ now \in Nat
        /\ LeaseTime \in Nat /\ Absent \notin Records
    BY LeaseAssumption, HolderAssumption DEF TypeOK, EntryType
  <1>5. /\ body \in Records /\ body.instance = InstanceOf[t] /\ body.epoch = held[t].epoch
        /\ body.expires = now + LeaseTime
    BY <1>4, FreshRecordType DEF FreshRecord, LockRecord
  <1>6. /\ held[t].etag \in Records /\ held[t].etag.instance = InstanceOf[t]
        /\ held[t].etag.epoch = held[t].epoch
        /\ held[t].etag.expires = held[t].expires
        /\ held[t].expires <= now + LeaseTime
    BY <1>1, <1>3 DEF MemoryOK
  <1> HIDE DEF body
  <1>7. /\ req'[t].op = "put" /\ req'[t].cond = "ifMatch"
        /\ req'[t].etag = held[t].etag /\ req'[t].body = body
    BY <1>2, <1>4, <1>6 DEF PutIf
  <1>8. RequestOK(t)'
    BY <1>4, <1>5, <1>6, <1>7 DEF RequestOK
  <1>9. ControlOK(t)'
    BY <1>1, <1>2, <1>7 DEF ControlOK
  <1>10. MemoryOK(t)'
    BY <1>1, <1>3, <1>4, <1>5, <1>6 DEF MemoryOK
  <1>11. BackedOK(t)'
    BY <1>1, <1>2, <1>3 DEF BackedOK, Granted, Owns, lock
  <1> QED BY <1>1, <1>8, <1>9, <1>10, <1>11 DEF TaskOK

LEMMA CloseKeeps ==
    ASSUME TypeOK, NEW t \in Tasks, TaskOK(t), Close(t)
    PROVE  TaskOK(t)'
  <1>1. /\ Live(t) /\ Live(t)' /\ held[t].live /\ ~held[t].releasing
        /\ Pc(t)' = "release"
        /\ UNCHANGED <<store, now>>
    BY DEF TypeOK, Close, CallRelease, Pc, Live, NoCall
  <1>2. /\ held'[t].live = held[t].live /\ held'[t].releasing = TRUE
        /\ held'[t].etag = held[t].etag
        /\ held'[t].epoch = held[t].epoch
        /\ held'[t].expires = held[t].expires
    BY DEF TypeOK, Close, EntryType
  <1>3. req'[t] = DeleteIf("lock", held[t].etag) /\ resp'[t].status = "none"
    BY Sent DEF Close, CallRelease
  <1>4. MemoryOK(t) /\ Absent \notin Records
    BY <1>1, HolderAssumption DEF TaskOK
  <1>5. /\ held[t].etag \in Records /\ held[t].etag.instance = InstanceOf[t]
    BY <1>1, <1>4 DEF MemoryOK
  <1>6. req'[t].op = "delete" /\ req'[t].cond = "ifMatch" /\ req'[t].etag = held[t].etag
    BY <1>3, <1>4, <1>5 DEF DeleteIf
  <1>7. RequestOK(t)'
    BY <1>5, <1>6 DEF RequestOK
  <1>8. ControlOK(t)'
    BY <1>1, <1>2, <1>3, <1>6 DEF ControlOK
  <1>9. MemoryOK(t)'
    BY <1>1, <1>2, <1>4 DEF MemoryOK
  <1>10. BackedOK(t)'
    BY <1>1, <1>2, <1>3 DEF BackedOK, Granted
  <1> QED BY <1>1, <1>7, <1>8, <1>9, <1>10 DEF TaskOK

LEMMA CrashKeeps ==
    ASSUME TypeOK, NEW t \in Tasks, TaskOK(t), Crash(t)
    PROVE  TaskOK(t)'
  <1>1. ~Live(t)' /\ ~held'[t].live /\ UNCHANGED <<now, req>>
    BY DEF TypeOK, Crash, Live, NoLease, storeVars
  <1>2. RequestOK(t)'
    BY <1>1 DEF TaskOK, RequestOK, IsExpired
  <1> QED BY <1>1, <1>2 DEF TaskOK

\* Between the requests of an acquire, nothing is promised to the task.
LEMMA AcquireWaits ==
    ASSUME TypeOK, NEW t \in Tasks, Live(t), ~held[t].live,
           UNCHANGED <<store, now, held, dead>>,
           resp'[t].status = "none",
           \/ Pc(t)' \in {"sleep", "busy", "failed"} /\ req'[t].op = "none"
           \/ Pc(t)' = "get" /\ req'[t].op = "get"
    PROVE  TaskOK(t)'
  <1>1. RequestOK(t)'
    BY DEF RequestOK
  <1>2. ControlOK(t)'
    BY DEF ControlOK
  <1>3. MemoryOK(t)'
    BY DEF MemoryOK
  <1>4. BackedOK(t)'
    BY DEF BackedOK, Granted
  <1> QED BY <1>1, <1>2, <1>3, <1>4 DEF TaskOK, Live

\* In an acquire the task has no lease yet.
LEMMA AcquireHasNone ==
    ASSUME NEW t \in Tasks, ControlOK(t),
           Pc(t) \in {"get", "put", "verify", "sleep"}
    PROVE  ~held[t].live
  BY DEF ControlOK

LEMMA GotoEffect ==
    ASSUME TypeOK, NEW t \in Tasks, NEW pc, Goto(t, pc)
    PROVE  Pc(t)' = pc /\ req'[t].op = "none" /\ resp'[t].status = "none"
  BY DEF TypeOK, Goto, Send, Pc, CallType, NoRequest, NoResponse

LEMMA AcquireGotKeeps ==
    ASSUME TypeOK, NEW t \in Tasks, TaskOK(t), Live(t), AcquireGot(t),
           UNCHANGED <<held, dead>>
    PROVE  TaskOK(t)'
  <1> DEFINE seen == resp[t].val
  <1>1. /\ RequestOK(t) /\ ControlOK(t) /\ MemoryOK(t) /\ BackedOK(t)
        /\ Pc(t) = "get" /\ UNCHANGED <<store, now>>
    BY DEF TaskOK, AcquireGot
  <1>2. ~held[t].live
    BY <1>1, AcquireHasNone
  <1>3. CASE Goto(t, "failed") \/ RetryOrBusy(t)
    BY <1>1, <1>2, <1>3, GotoEffect, AcquireWaits DEF RetryOrBusy
  <1>4. CASE /\ resp[t].status = "ok"
             /\ seen # Absent => IsExpired(seen)
             /\ PutRecord(t, seen)
    <2> DEFINE epoch == IF seen = Absent THEN 1 ELSE seen.epoch + 1
    <2> DEFINE body == FreshRecord(t, epoch)
    <2>1. seen \in ETags /\ now \in Nat /\ LeaseTime \in Nat /\ Absent \notin Records
      BY LeaseAssumption, HolderAssumption DEF TypeOK, ResponseType
    <2>2. epoch \in Nat
      BY <2>1 DEF ETags, Records
    <2>3. /\ body \in Records /\ body.instance = InstanceOf[t] /\ body.epoch = epoch
          /\ body.expires = now + LeaseTime
      BY <2>1, <2>2, FreshRecordType DEF FreshRecord, LockRecord
    <2>4. Send(t, PutIf("lock", seen, body))
      BY <1>4 DEF PutRecord
    <2>5. /\ Pc(t)' = "put" /\ call'[t].etag = seen /\ call'[t].body = body
      <3> HIDE DEF body, seen
      <3>1. call' = [call EXCEPT ![t].pc = "put", ![t].etag = seen, ![t].body = body]
        BY <1>4 DEF PutRecord, body, seen
      <3> QED BY <3>1 DEF TypeOK, CallType, Pc
    <2>6. /\ req'[t].op = "put" /\ req'[t].body = body /\ req'[t].etag = seen
          /\ req'[t].cond = (IF seen = Absent THEN "ifNoneMatch" ELSE "ifMatch")
          /\ resp'[t].status = "none"
      BY <2>4, Sent DEF PutIf
    <2>7. RequestOK(t)'
      <3>1. CASE seen = Absent
        BY <2>3, <2>6, <3>1 DEF RequestOK
      <3>2. CASE seen # Absent
        <4>1. seen \in Records /\ now' >= seen.expires /\ body.epoch = seen.epoch + 1
          BY <1>1, <1>4, <2>1, <2>3, <3>2 DEF ETags, IsExpired
        <4> HIDE DEF body, seen
        <4> QED BY <2>3, <2>6, <3>2, <4>1 DEF RequestOK, IsExpired
      <3> QED BY <3>1, <3>2
    <2>8. ControlOK(t)'
      BY <1>2, <2>5, <2>6 DEF ControlOK
    <2>9. MemoryOK(t)'
      BY <1>1, <1>2, <2>1, <2>3, <2>5 DEF MemoryOK
    <2>10. lock' # Absent /\ lock'.instance = InstanceOf[t] =>
              lock' = call'[t].etag /\ call'[t].body.epoch = lock'.epoch + 1
      <3>0. lock' = lock
        BY <1>1 DEF lock
      <3>1. lock # Absent /\ lock.instance = InstanceOf[t] => lock = seen
        BY <1>1, <1>4 DEF BackedOK
      <3>2. lock # Absent /\ lock.instance = InstanceOf[t] => body.epoch = lock.epoch + 1
        BY <2>3, <3>1
      <3> HIDE DEF body, seen
      <3> QED BY <2>5, <3>0, <3>1, <3>2
    <2> HIDE DEF body, epoch, seen
    <2>11. BackedOK(t)'
      BY <1>2, <2>5, <2>6, <2>10 DEF BackedOK, Granted
    <2> QED BY <2>7, <2>8, <2>9, <2>11 DEF TaskOK, Live
  <1> QED BY <1>3, <1>4 DEF AcquireGot

LEMMA AcquirePutKeeps ==
    ASSUME TypeOK, NEW t \in Tasks, TaskOK(t), Live(t), AcquirePut(t),
           UNCHANGED <<held, dead>>
    PROVE  TaskOK(t)'
  <1>1. /\ RequestOK(t) /\ ControlOK(t) /\ MemoryOK(t) /\ BackedOK(t)
        /\ Pc(t) = "put" /\ UNCHANGED <<store, now>> /\ resp[t].status # "none"
    BY DEF TaskOK, AcquirePut, Answered
  <1>2. ~held[t].live
    BY <1>1, AcquireHasNone
  <1>3. CASE resp[t].status = "ok"
    <2>1. /\ Pc(t)' = "acquired" /\ call'[t].body = call[t].body
          /\ call'[t].etag = resp[t].val
      BY <1>3 DEF AcquirePut, TypeOK, CallType, Pc
    <2>2. req'[t].op = "none" /\ resp'[t].status = "none"
      BY <1>3, Sent DEF AcquirePut, NoRequest
    <2>3. Granted(t) /\ resp[t].val = call[t].body
      BY <1>1, <1>3 DEF Granted, ControlOK
    <2>4. RequestOK(t)' /\ ControlOK(t)'
      BY <1>2, <2>1, <2>2 DEF RequestOK, ControlOK
    <2>5. MemoryOK(t)'
      BY <1>1, <1>2, <2>1, <2>3 DEF MemoryOK
    <2>6. BackedOK(t)'
      BY <1>1, <1>2, <2>1, <2>2, <2>3 DEF BackedOK, Owns, lock
    <2> QED BY <2>4, <2>5, <2>6 DEF TaskOK, Live
  <1>4. CASE resp[t].status # "ok"
    <2>1. /\ Pc(t)' = "verify" /\ call'[t].body = call[t].body
          /\ call'[t].etag = call[t].etag
      BY <1>4 DEF AcquirePut, TypeOK, CallType, Pc
    <2>2. req'[t].op = "get" /\ resp'[t].status = "none"
      BY <1>4, Sent DEF AcquirePut, Get
    <2>3. RequestOK(t)' /\ ControlOK(t)'
      BY <1>2, <2>1, <2>2 DEF RequestOK, ControlOK
    <2>4. MemoryOK(t)'
      BY <1>1, <1>2, <2>1 DEF MemoryOK
    <2>5. BackedOK(t)'
      BY <1>1, <1>2, <2>1, <2>2 DEF BackedOK, Granted, lock
    <2> QED BY <2>3, <2>4, <2>5 DEF TaskOK, Live
  <1> QED BY <1>3, <1>4

LEMMA AcquireVerifiedKeeps ==
    ASSUME TypeOK, NEW t \in Tasks, TaskOK(t), Live(t), AcquireVerified(t),
           UNCHANGED <<held, dead>>
    PROVE  TaskOK(t)'
  <1>1. /\ RequestOK(t) /\ ControlOK(t) /\ MemoryOK(t) /\ BackedOK(t)
        /\ Pc(t) = "verify" /\ UNCHANGED <<store, now>>
    BY DEF TaskOK, AcquireVerified
  <1>2. ~held[t].live
    BY <1>1, AcquireHasNone
  <1>3. CASE LeaseLanded(t)
    <2>1. /\ Pc(t)' = "acquired" /\ call'[t].body = call[t].body
          /\ call'[t].etag = resp[t].val
      BY <1>3 DEF AcquireVerified, TypeOK, CallType, Pc
    <2>2. req'[t].op = "none" /\ resp'[t].status = "none"
      BY <1>3, Sent DEF AcquireVerified, NoRequest
    <2>3. resp[t].status = "ok"
      BY <1>3 DEF LeaseLanded
    <2>4. Granted(t) /\ resp[t].val = call[t].body
      BY <1>1, <1>3, <2>3 DEF Granted, BackedOK
    <2>5. RequestOK(t)' /\ ControlOK(t)'
      BY <1>2, <2>1, <2>2 DEF RequestOK, ControlOK
    <2>6. MemoryOK(t)'
      BY <1>1, <1>2, <2>1, <2>4 DEF MemoryOK
    <2>7. BackedOK(t)'
      BY <1>1, <1>2, <2>1, <2>2, <2>4 DEF BackedOK, Owns, lock
    <2> QED BY <2>5, <2>6, <2>7 DEF TaskOK, Live
  <1>4. CASE ~LeaseLanded(t)
    BY <1>1, <1>2, <1>4, GotoEffect, AcquireWaits DEF AcquireVerified, RetryOrBusy
  <1> QED BY <1>3, <1>4

LEMMA AcquireWakeKeeps ==
    ASSUME TypeOK, NEW t \in Tasks, TaskOK(t), Live(t), AcquireWake(t),
           UNCHANGED <<held, dead>>
    PROVE  TaskOK(t)'
  <1>1. ControlOK(t) /\ Pc(t) = "sleep" /\ UNCHANGED <<store, now>>
    BY DEF TaskOK, AcquireWake
  <1>2. ~held[t].live
    BY <1>1, AcquireHasNone
  <1>3. Pc(t)' = "get"
    BY DEF AcquireWake, TypeOK, CallType, Pc
  <1>4. req'[t].op = "get" /\ resp'[t].status = "none"
    BY Sent DEF AcquireWake, Get
  <1> QED BY <1>1, <1>2, <1>3, <1>4, AcquireWaits

LEMMA RenewDoneKeeps ==
    ASSUME TypeOK, NEW t \in Tasks, TaskOK(t), Live(t), RenewDone(t),
           UNCHANGED <<held, dead>>
    PROVE  TaskOK(t)'
  <1>1. /\ RequestOK(t) /\ ControlOK(t) /\ MemoryOK(t) /\ BackedOK(t)
        /\ Pc(t) = "renew" /\ UNCHANGED <<store, now>>
    BY DEF TaskOK, RenewDone
  <1>2. held[t].live /\ ~held[t].releasing
    BY <1>1 DEF ControlOK
  <1>3. req'[t].op = "none" /\ resp'[t].status = "none"
    BY Sent DEF RenewDone, NoRequest
  <1>4. CASE resp[t].status = "ok"
    <2>1. /\ Pc(t)' = "renewed" /\ call'[t].body = call[t].body
          /\ call'[t].etag = resp[t].val
      BY <1>4 DEF RenewDone, TypeOK, CallType, Pc
    <2>2. Granted(t) /\ resp[t].val = call[t].body
      BY <1>1, <1>4 DEF Granted, ControlOK
    <2>3. RequestOK(t)' /\ ControlOK(t)'
      BY <1>2, <1>3, <2>1 DEF RequestOK, ControlOK
    <2>4. MemoryOK(t)'
      BY <1>1, <1>2, <2>1, <2>2 DEF MemoryOK
    <2>5. BackedOK(t)'
      BY <1>1, <1>2, <1>3, <2>1, <2>2 DEF BackedOK, Owns, lock
    <2> QED BY <2>3, <2>4, <2>5 DEF TaskOK, Live
  <1>5. CASE resp[t].status # "ok"
    <2>1. Pc(t)' \in {"lost", "renewFailed"}
      <3>1. CASE resp[t].status = "error"
        BY <3>1 DEF RenewDone, TypeOK, CallType, Pc
      <3>2. CASE resp[t].status # "error"
        BY <1>5, <3>2 DEF RenewDone, TypeOK, CallType, Pc
      <3> QED BY <3>1, <3>2
    <2>2. RequestOK(t)' /\ ControlOK(t)'
      BY <1>2, <1>3, <2>1 DEF RequestOK, ControlOK
    <2>3. MemoryOK(t)'
      BY <1>1, <1>2, <2>1 DEF MemoryOK
    <2>4. BackedOK(t)'
      BY <1>1, <1>2, <1>3, <2>1 DEF BackedOK, Granted, Owns, lock
    <2> QED BY <2>2, <2>3, <2>4 DEF TaskOK, Live
  <1> QED BY <1>4, <1>5

LEMMA ReleaseDoneKeeps ==
    ASSUME TypeOK, NEW t \in Tasks, TaskOK(t), Live(t), ReleaseDone(t),
           UNCHANGED <<held, dead>>
    PROVE  TaskOK(t)'
  <1>1. /\ ControlOK(t) /\ MemoryOK(t) /\ BackedOK(t)
        /\ Pc(t) = "release" /\ UNCHANGED <<store, now>>
    BY DEF TaskOK, ReleaseDone
  <1>2. held[t].live /\ held[t].releasing
    BY <1>1 DEF ControlOK
  <1>3. Pc(t)' = "released" /\ req'[t].op = "none" /\ resp'[t].status = "none"
    BY GotoEffect DEF ReleaseDone
  <1>4. RequestOK(t)' /\ ControlOK(t)'
    BY <1>2, <1>3 DEF RequestOK, ControlOK
  <1>5. MemoryOK(t)'
    BY <1>1, <1>3 DEF MemoryOK
  <1>6. BackedOK(t)'
    BY <1>2, <1>3 DEF BackedOK, Granted
  <1> QED BY <1>4, <1>5, <1>6 DEF TaskOK, Live

\* The task that moves keeps its invariant.
LEMMA MoverKeeps ==
    ASSUME TypeOK, NEW t \in Tasks, TaskOK(t), ConditionalDelete, TaskStep(t)
    PROVE  TaskOK(t)'
  <1>1. CASE OpenFailed(t)
    BY <1>1, ReturnKeeps DEF OpenFailed, TypeOK, storeVars, Live, ResultPcs, TaskOK, ControlOK
  <1>2. CASE Closed(t)
    BY <1>2, ReturnKeeps DEF Closed, TypeOK, storeVars, Live, ResultPcs, NoLease
  <1>3. CASE Background(t)
    BY <1>3, OwnRequestServed, AcquireGotKeeps, AcquirePutKeeps, AcquireVerifiedKeeps,
       AcquireWakeKeeps, RenewDoneKeeps, ReleaseDoneKeeps DEF Background, LeaseStep
  <1> QED BY <1>1, <1>2, <1>3, OpenKeeps, OpenedKeeps, RenewKeeps, RenewedKeeps,
             CloseKeeps, CrashKeeps DEF TaskStep

\* What the store can do to the lock object when it serves t's request: create
\* t's record, replace an expired record or one of t's, or remove one of t's.
LEMMA RequestEffect ==
    ASSUME TypeOK, NEW t \in Tasks, RequestOK(t), ConditionalDelete, StoreStep(t)
    PROVE  \/ lock' = lock
           \/ /\ lock' \in Records /\ lock'.instance = InstanceOf[t]
              /\ \/ lock = Absent
                 \/ IsExpired(lock) /\ lock'.epoch = lock.epoch + 1
                 \/ /\ lock.instance = InstanceOf[t] /\ lock'.epoch = lock.epoch
                    /\ lock'.expires >= lock.expires
           \/ lock.instance = InstanceOf[t] /\ lock' = Absent
  <1>1. PICK obj \in ETags : /\ Effect(req[t], lock, obj)
                             /\ store' = [store EXCEPT !["lock"] = obj]
    BY StoreStepEffect
  <1>2. lock' = obj
    BY <1>1, LeaseAssumption DEF TypeOK, lock
  <1> QED BY <1>1, <1>2 DEF Effect, RequestOK

\* A step of t leaves everything of every other task u alone.
LEMMA OtherFrame ==
    ASSUME TypeOK, NEW t \in Tasks, NEW u \in Tasks, u # t, TaskOK(t),
           ConditionalDelete, TaskStep(t)
    PROVE  /\ UNCHANGED now
           /\ req'[u] = req[u] /\ resp'[u] = resp[u]
           /\ call'[u] = call[u] /\ held'[u] = held[u]
           /\ Live(u)' <=> Live(u)
  <1>1. CASE Background(t)
    <2>1. CASE StoreStep(t) /\ UNCHANGED <<now, call>>
      BY <1>1, <2>1, StoreStepEffect DEF Background, TypeOK, TaskOK, Live
    <2>2. CASE LeaseStep(t)
      BY <1>1, <2>2 DEF Background, TypeOK, Live, LeaseStep, AcquireGot, AcquirePut,
         AcquireVerified, AcquireWake, RenewDone, ReleaseDone, PutRecord, RetryOrBusy,
         Goto, Send
    <2> QED BY <1>1, <2>1, <2>2 DEF Background
  <1>2. CASE Crash(t)
    BY <1>2 DEF Crash, TypeOK, Live, storeVars
  <1>3. CASE Open(t) \/ Opened(t) \/ OpenFailed(t) \/ Closed(t)
    BY <1>3 DEF Open, CallAcquire, Opened, OpenFailed, Closed, TypeOK, Live, storeVars, Send
  <1>4. CASE Renew(t) \/ Renewed(t) \/ Close(t)
    BY <1>4 DEF Renew, CallRenew, Renewed, Close, CallRelease, TypeOK, Live, storeVars, Send
  <1> QED BY <1>1, <1>2, <1>3, <1>4 DEF TaskStep

\* And the lock object, unless it was not u's or had expired.
LEMMA OtherLock ==
    ASSUME TypeOK, NEW t \in Tasks, NEW u \in Tasks, u # t, TaskOK(t),
           ConditionalDelete, TaskStep(t)
    PROVE  \/ lock' = lock
           \/ /\ lock # Absent => lock.instance # InstanceOf[u] \/ IsExpired(lock)
              /\ lock' # Absent => lock'.instance # InstanceOf[u]
  <1>1. CASE StoreStep(t)
    <2>1. InstanceOf[u] # InstanceOf[t]
      BY HolderAssumption
    <2> QED BY <1>1, <2>1, RequestEffect DEF TaskOK
  <1>2. CASE UNCHANGED store
    BY <1>2 DEF lock
  <1>3. StoreStep(t) \/ UNCHANGED store
    BY DEF TaskStep, Open, Opened, OpenFailed, Renew, Renewed, Close, Closed, Crash,
       Background, LeaseStep, AcquireGot, AcquirePut, AcquireVerified, AcquireWake,
       RenewDone, ReleaseDone, storeVars
  <1> QED BY <1>1, <1>2, <1>3

\* A step of t keeps the invariant of every other task u.
LEMMA OthersKeep ==
    ASSUME TypeOK, NEW t \in Tasks, NEW u \in Tasks, u # t, TaskOK(t), TaskOK(u),
           ConditionalDelete, TaskStep(t)
    PROVE  TaskOK(u)'
  BY OtherFrame, OtherLock, LockChanged

-----------------------------------------------------------------------------
(***************************************************************************)
(* The invariant, and what follows from it.                                *)
(***************************************************************************)

LEMMA InitLeaseInv == Init => LeaseInv
  <1> SUFFICES ASSUME Init, NEW t \in Tasks PROVE TaskOK(t)
    BY InitTypeOK DEF LeaseInv
  <1>1. /\ req[t].op = "none" /\ resp[t].status = "none" /\ Pc(t) = "none"
        /\ held[t].live = FALSE /\ Live(t)
    BY DEF Init, StoreInit, LeaseInit, NoRequest, NoResponse, NoCall, NoLease, Pc, Live
  <1>2. RequestOK(t) /\ ControlOK(t) /\ MemoryOK(t) /\ BackedOK(t)
    BY <1>1 DEF RequestOK, ControlOK, MemoryOK, BackedOK, Granted
  <1> QED BY <1>1, <1>2 DEF TaskOK

LEMMA NextLeaseInv ==
    ASSUME ConditionalDelete, LeaseInv, [Next]_vars
    PROVE  LeaseInv'
  <1>1. TypeOK /\ TypeOK'
    BY NextTypeOK DEF LeaseInv
  <1>2. ASSUME NEW u \in Tasks PROVE TaskOK(u)'
    <2>1. TaskOK(u)
      BY DEF LeaseInv
    <2>2. CASE UNCHANGED vars
      BY <2>1, <2>2, Untouched DEF vars, leaseVars, storeVars, Live
    <2>3. CASE Tick
      BY <1>1, <2>1, <2>3, TickKeeps
    <2>4. ASSUME NEW t \in Tasks, TaskStep(t) PROVE TaskOK(u)'
      BY <1>1, <2>1, <2>4, MoverKeeps, OthersKeep DEF LeaseInv
    <2> QED BY <2>2, <2>3, <2>4 DEF Next
  <1> QED BY <1>1, <1>2 DEF LeaseInv

LEMMA LeaseInvHolds ==
    ASSUME ConditionalDelete
    PROVE  Spec => []LeaseInv
  <1>1. LeaseInv /\ [Next]_vars => LeaseInv'
    BY NextLeaseInv
  <1> QED BY InitLeaseInv, <1>1, PTL DEF Spec

LEMMA InvOwns == LeaseInv => HolderOwnsLock
  BY DEF LeaseInv, TaskOK, BackedOK, HolderOwnsLock, Holds

\* Two instances cannot both own the one lock object.
LEMMA OwnsExcludes == HolderOwnsLock => MutualExclusion
  BY HolderAssumption DEF HolderOwnsLock, MutualExclusion, Owns

\* With a store that evaluates conditional deletes, an instance whose lease has
\* not run out by its own record owns the lock object, whatever the other
\* instances do, which requests are lost, served twice or served late, and
\* which instances crash.
THEOREM HolderOwns ==
    ASSUME ConditionalDelete
    PROVE  Spec => []HolderOwnsLock
  BY LeaseInvHolds, InvOwns, PTL

\* So at most one instance at a time believes that it may write the file.
THEOREM OneHolder ==
    ASSUME ConditionalDelete
    PROVE  Spec => []MutualExclusion
  BY HolderOwns, OwnsExcludes, PTL

\* No step replaces an unexpired record of another instance, or a record by one
\* of a lower epoch.
LEMMA NextRaisesEpoch ==
    ASSUME ConditionalDelete, LeaseInv, [Next]_vars,
           lock # Absent, lock' # Absent, lock' # lock
    PROVE  \/ lock'.epoch = lock.epoch + 1 /\ IsExpired(lock)
           \/ /\ lock'.epoch = lock.epoch
              /\ lock'.instance = lock.instance
              /\ lock'.expires >= lock.expires
  <1>1. PICK t \in Tasks : StoreStep(t)
    BY DEF vars, leaseVars, storeVars, Next, Tick, TaskStep, Open, Opened, OpenFailed,
       Renew, Renewed, Close, Closed, Crash, Background, LeaseStep, AcquireGot, AcquirePut,
       AcquireVerified, AcquireWake, RenewDone, ReleaseDone, lock
  <1> QED BY <1>1, RequestEffect, SMTT(30) DEF LeaseInv, TaskOK

\* The epochs of successive lock objects tell takeovers apart: a takeover
\* raises the epoch by one and only ever replaces a record that has expired.
THEOREM EpochsRise ==
    ASSUME ConditionalDelete
    PROVE  Spec => TakeoverRaisesEpoch
  <1>1. LeaseInv /\ [Next]_vars =>
           [ lock # Absent /\ lock' # Absent /\ lock' # lock =>
               \/ lock'.epoch = lock.epoch + 1 /\ IsExpired(lock)
               \/ /\ lock'.epoch = lock.epoch
                  /\ lock'.instance = lock.instance
                  /\ lock'.expires >= lock.expires ]_vars
    BY NextRaisesEpoch
  <1> QED BY <1>1, LeaseInvHolds, PTL DEF Spec, TakeoverRaisesEpoch

-----------------------------------------------------------------------------
(***************************************************************************)
(* The protocol implements LeaseSpec.                                      *)
(***************************************************************************)

\* A step of t that changes no other entry changes no other term.
LEMMA TermsChange ==
    ASSUME TypeOK, NEW t \in Tasks, NEW e, held' = [held EXCEPT ![t] = e]
    PROVE  Terms' = [Terms EXCEPT ![t] = IF e.live /\ ~e.releasing THEN e.expires ELSE 0]
  BY DEF TypeOK, Terms

\* An entry that says t has the lease until end is a grant of the abstract
\* specification: the lock object says that nobody else has it.
LEMMA GrantStep ==
    ASSUME LeaseInv, LeaseInv', MutualExclusion', NEW t \in Tasks, UNCHANGED now,
           NEW e, held' = [held EXCEPT ![t] = e], e.live, ~e.releasing
    PROVE  Abstract!Grant(t)
  <1>1. TypeOK /\ now \in Nat /\ LeaseTime \in Nat
    BY LeaseAssumption DEF LeaseInv, TypeOK
  <1>2. held'[t] = e /\ e.expires \in Nat
    BY <1>1 DEF LeaseInv, TypeOK, EntryType
  <1>3. e.expires <= now + LeaseTime
    BY <1>2 DEF LeaseInv, TaskOK, MemoryOK
  <1>4. ASSUME e.expires > now, NEW u \in Tasks \ {t} PROVE Terms[u] <= now
    <2>1. Holds(t)'
      BY <1>2, <1>4 DEF Holds
    <2>2. ~Holds(u)'
      BY <2>1 DEF MutualExclusion
    <2>3. held'[u] = held[u] /\ held[u].expires \in Nat
      BY <1>1 DEF TypeOK, EntryType
    <2> QED BY <1>1, <2>2, <2>3 DEF Terms, Holds
  <1>5. Terms' = [Terms EXCEPT ![t] = e.expires]
    BY <1>1, TermsChange
  <1>6. e.expires \in 0 .. now + LeaseTime
    BY <1>1, <1>2, <1>3
  <1> QED BY <1>4, <1>5, <1>6 DEF Abstract!Grant

LEMMA InitAbstract == Init => Abstract!Init
  BY DEF Init, LeaseInit, NoLease, Terms, Abstract!Init

LEMMA NextAbstract ==
    ASSUME LeaseInv, LeaseInv', MutualExclusion', [Next]_vars
    PROVE  [Abstract!Next]_Abstract!specVars
  <1>0. TypeOK
    BY DEF LeaseInv
  <1> USE DEF Abstract!specVars
  <1>1. CASE UNCHANGED <<now, held>>
    BY <1>1 DEF Terms
  <1>2. CASE Tick
    BY <1>2 DEF Tick, Terms, Abstract!Next, Abstract!Tick
  <1>3. ASSUME NEW t \in Tasks, Opened(t) PROVE Abstract!Next
    <2> DEFINE e == [NoLease EXCEPT !.live = TRUE, !.etag = call[t].etag,
                                    !.epoch = call[t].body.epoch,
                                    !.expires = call[t].body.expires]
    <2>1. UNCHANGED now /\ held' = [held EXCEPT ![t] = e] /\ e.live /\ ~e.releasing
      BY <1>3 DEF Opened, NoLease
    <2> HIDE DEF e
    <2> QED BY <2>1, GrantStep DEF Abstract!Next
  <1>4. ASSUME NEW t \in Tasks, Renewed(t) PROVE [Abstract!Next]_Abstract!specVars
    <2>1. held[t].live /\ ~held[t].releasing
      BY <1>4 DEF LeaseInv, TaskOK, Renewed, ControlOK
    <2>2. CASE Pc(t) = "renewed"
      <3> DEFINE e == [held[t] EXCEPT !.etag = call[t].etag,
                                      !.expires = call[t].body.expires]
      <3>1. UNCHANGED now /\ held' = [held EXCEPT ![t] = e]
        BY <1>4, <2>2 DEF Renewed
      <3>2. e.live /\ ~e.releasing
        BY <1>0, <2>1 DEF TypeOK, EntryType
      <3> HIDE DEF e
      <3> QED BY <3>1, <3>2, GrantStep DEF Abstract!Next
    <2>3. CASE Pc(t) = "lost"
      <3> DEFINE e == [held[t] EXCEPT !.lost = TRUE]
      <3>1. UNCHANGED now /\ held' = [held EXCEPT ![t] = e]
        BY <1>4, <2>3 DEF Renewed
      <3>2. e.live /\ ~e.releasing
        BY <1>0, <2>1 DEF TypeOK, EntryType
      <3> HIDE DEF e
      <3> QED BY <3>1, <3>2, GrantStep DEF Abstract!Next
    <2>4. CASE Pc(t) = "renewFailed"
      <3>1. UNCHANGED now /\ held' = [held EXCEPT ![t] = held[t]]
        BY <1>4, <2>4 DEF Renewed
      <3> QED BY <1>0, <3>1 DEF TypeOK, Terms
    <2> QED BY <1>4, <2>2, <2>3, <2>4 DEF Renewed
  <1>5. ASSUME NEW t \in Tasks, Close(t) PROVE Abstract!Next
    <2> DEFINE e == [held[t] EXCEPT !.releasing = TRUE]
    <2>1. UNCHANGED now /\ held' = [held EXCEPT ![t] = e]
      BY <1>5 DEF Close
    <2>2. e.releasing
      BY <1>0 DEF TypeOK, EntryType
    <2> HIDE DEF e
    <2>3. Terms' = [Terms EXCEPT ![t] = 0]
      BY <1>0, <2>1, <2>2, TermsChange
    <2> QED BY <2>1, <2>3 DEF Abstract!Next, Abstract!Drop
  <1>6. ASSUME NEW t \in Tasks, Closed(t) \/ Crash(t) PROVE Abstract!Next
    <2>1. UNCHANGED now /\ held' = [held EXCEPT ![t] = NoLease]
      BY <1>6 DEF Closed, Crash
    <2>2. ~NoLease.live
      BY DEF NoLease
    <2>3. Terms' = [Terms EXCEPT ![t] = 0]
      BY <1>0, <2>1, <2>2, TermsChange
    <2> QED BY <2>1, <2>3 DEF Abstract!Next, Abstract!Drop
  <1>7. ASSUME NEW t \in Tasks, Open(t) \/ OpenFailed(t) \/ Renew(t) \/ Background(t)
        PROVE  UNCHANGED <<now, held>>
    BY <1>7 DEF Open, OpenFailed, Renew, Background, LeaseStep, AcquireGot, AcquirePut,
       AcquireVerified, AcquireWake, RenewDone, ReleaseDone
  <1>8. CASE UNCHANGED vars
    BY <1>1, <1>8 DEF vars, leaseVars
  <1> QED BY <1>1, <1>2, <1>3, <1>4, <1>5, <1>6, <1>7, <1>8 DEF Next, TaskStep

\* Lock objects, ETags, epochs, retries and verification implement terms that
\* never overlap: an instance gets, or prolongs, the right to write only while
\* no other instance has it.
THEOREM Refinement ==
    ASSUME ConditionalDelete
    PROVE  Spec => ImplementsLeaseSpec
  <1>1. LeaseInv /\ LeaseInv' /\ MutualExclusion' /\ [Next]_vars =>
           [Abstract!Next]_Abstract!specVars
    BY NextAbstract
  <1> QED BY <1>1, InitAbstract, LeaseInvHolds, OneHolder, PTL
          DEF Spec, ImplementsLeaseSpec, Abstract!Spec

-----------------------------------------------------------------------------
(***************************************************************************)
(* A live holder keeps its lease, when renewals are answered in time and   *)
(* requests do not fail in transport.                                      *)
(***************************************************************************)

\* What is granted has not run out, and the lock object is exactly the record
\* that the next renewal is conditional on, so that no renewal is rejected.
KeptOK(t) ==
    /\ Pc(t) \in {"put", "verify", "acquired"} => now < call[t].body.expires
    /\ held[t].live /\ ~held[t].releasing =>
          /\ ~held[t].lost /\ now < held[t].expires
          /\ Pc(t) = "none" => lock = held[t].etag
    /\ Pc(t) \in {"acquired", "renewed"} => lock = call[t].body
    /\ Pc(t) = "renew" =>
          /\ req[t].op = "put" => req[t].cond = "ifMatch" /\ req[t].etag = held[t].etag
          /\ resp[t].status = "none" => lock = held[t].etag
          /\ resp[t].status # "none" => resp[t].status = "ok" /\ lock = call[t].body
    /\ Pc(t) \notin {"lost", "renewFailed"}

KeptInv == \A t \in Tasks : Live(t) => KeptOK(t)

\* Renewals are answered before half of the lease is over.
Prompt == MaxLag < LeaseTime \div 2

\* A lease that the clock may pass over has not run out afterwards.
LEMMA NotDue ==
    ASSUME Prompt, NEW expires \in Nat, now \in Nat, ~RenewalDue(expires, now - MaxLag)
    PROVE  now + 1 < expires
  <1>1. MaxLag \in Nat /\ LeaseTime \div 2 \in Nat
    BY HolderAssumption, LeaseAssumption
  <1> QED BY <1>1 DEF Prompt, RenewalDue

LEMMA TickKept ==
    ASSUME Prompt, LeaseInv, KeptInv, Tick, NEW t \in Tasks, Live(t)'
    PROVE  KeptOK(t)'
  <1>1. /\ now \in Nat /\ now' = now + 1 /\ UNCHANGED <<store, req, resp, call, held, dead>>
        /\ Live(t) /\ KeptOK(t) /\ ControlOK(t)
    BY DEF LeaseInv, TypeOK, TaskOK, Tick, storeVars, Live, KeptInv
  <1>2. call[t].body.expires \in Nat /\ held[t].expires \in Nat
    BY DEF LeaseInv, TypeOK, EntryType, CallType, Records
  <1>3. KeepsLease(t) => ~RenewalDue(Term(t), now - MaxLag)
    BY <1>1 DEF Tick, Live
  <1>4. Pc(t) \in {"put", "verify", "acquired"} => now + 1 < call[t].body.expires
    BY <1>1, <1>2, <1>3, NotDue DEF KeepsLease, Term
  <1>5. held[t].live /\ ~held[t].releasing => now + 1 < held[t].expires
    <2> SUFFICES ASSUME held[t].live, ~held[t].releasing PROVE now + 1 < held[t].expires
      OBVIOUS
    <2>1. Pc(t) \notin {"put", "verify", "acquired"} /\ ~held[t].lost
      BY <1>1 DEF ControlOK, KeptOK
    <2> QED BY <1>1, <1>2, <1>3, <2>1, NotDue DEF KeepsLease, Term
  <1> QED BY <1>1, <1>4, <1>5 DEF KeptOK, Pc, lock

\* A change of the lock object by another instance's request.
LEMMA OtherKept ==
    ASSUME LeaseInv, ConditionalDelete, NEW t \in Tasks, NEW u \in Tasks, u # t,
           Live(u)', KeptInv, TaskStep(t)
    PROVE  KeptOK(u)'
  <1>1. /\ UNCHANGED now
        /\ req'[u] = req[u] /\ resp'[u] = resp[u]
        /\ call'[u] = call[u] /\ held'[u] = held[u]
        /\ Live(u)' <=> Live(u)
    BY OtherFrame DEF LeaseInv
  <1>2. KeptOK(u) /\ MemoryOK(u) /\ ControlOK(u) /\ TypeOK
    BY <1>1 DEF KeptInv, LeaseInv, TaskOK
  <1>3. /\ held[u].expires \in Nat /\ call[u].body \in Records /\ now \in Nat /\ lock \in ETags
    BY <1>2, LeaseAssumption DEF TypeOK, EntryType, CallType, lock
  <1>4. \/ lock' = lock
        \/ lock = Absent \/ lock.instance # InstanceOf[u] \/ IsExpired(lock)
    BY OtherLock DEF LeaseInv
  <1>5. ASSUME lock \in Records, lock.instance = InstanceOf[u], now < lock.expires
        PROVE  lock' = lock
    BY <1>3, <1>4, <1>5, HolderAssumption DEF IsExpired, Records
  <1>6. held[u].live /\ ~held[u].releasing /\ lock = held[u].etag => lock' = lock
    BY <1>2, <1>5 DEF KeptOK, MemoryOK
  <1>7. Pc(u) = "acquired" /\ lock = call[u].body => lock' = lock
    BY <1>2, <1>3, <1>5 DEF KeptOK, MemoryOK
  <1>8. Pc(u) \in {"renew", "renewed"} =>
           held[u].live /\ ~held[u].releasing /\ (lock = call[u].body => lock' = lock)
    <2> SUFFICES ASSUME Pc(u) \in {"renew", "renewed"}
                 PROVE  held[u].live /\ ~held[u].releasing /\ (lock = call[u].body => lock' = lock)
      OBVIOUS
    <2>1. held[u].live /\ ~held[u].releasing
      BY <1>2 DEF ControlOK
    <2>2. now < held[u].expires /\ call[u].body.expires >= held[u].expires
          /\ call[u].body.expires \in Nat /\ call[u].body.instance = InstanceOf[u]
      BY <1>2, <1>3, <2>1 DEF KeptOK, MemoryOK, Records
    <2> QED BY <1>3, <1>5, <2>1, <2>2
  <1> QED BY <1>1, <1>2, <1>6, <1>7, <1>8 DEF KeptOK, Pc

\* Without faults the store answers the request as it stands.
LEMMA ServedKept ==
    ASSUME LeaseInv, ConditionalDelete, MaxFaults = 0, NEW t \in Tasks, Live(t), KeptOK(t),
           StoreStep(t), UNCHANGED <<now, call, held, dead>>
    PROVE  KeptOK(t)'
  <1> DEFINE r == req[t]
  <1>1. TypeOK /\ ControlOK(t) /\ MemoryOK(t) /\ RequestOK(t)
    BY DEF LeaseInv, TaskOK
  <1>2. r \in RequestType /\ r.op # "none" /\ r.key = "lock" /\ r.op \in {"get", "put", "delete"}
    BY <1>1 DEF TypeOK, RequestType, StoreStep, Serve, TransportError, ServeTwice, HeadCheck
  <1>3. Serve(t)
    BY <1>1 DEF StoreStep, TransportError, ServeTwice, HeadCheck, Emulated, TypeOK
  <1>4. /\ resp'[t] = Response(r, lock) /\ lock' = After(r, lock) /\ req'[t] = NoRequest
    BY <1>1, <1>2, <1>3, LeaseAssumption DEF Serve, Served, TypeOK, lock
  <1>5. CASE Pc(t) = "renew"
    <2>1. /\ r.op = "put" /\ r.body = call[t].body
          /\ r.cond = "ifMatch" /\ lock = held[t].etag /\ r.etag = lock
      BY <1>1, <1>2, <1>5 DEF ControlOK, KeptOK
    <2>2. held[t].live /\ ~held[t].releasing
      BY <1>1, <1>5 DEF ControlOK
    <2>3. lock # Absent
      BY <1>1, <2>1, <2>2, HolderAssumption DEF MemoryOK
    <2>4. Outcome(r, lock) = "ok"
      BY <2>1, <2>3 DEF Outcome, CheckCond
    <2>5. resp'[t].status = "ok" /\ lock' = call[t].body
      BY <1>4, <2>1, <2>4 DEF Response, After
    <2>6. req'[t].op = "none"
      BY <1>4 DEF NoRequest
    <2> QED BY <1>5, <2>2, <2>5, <2>6 DEF KeptOK, Pc
  <1>6. CASE Pc(t) # "renew"
    <2>1. Pc(t) \in {"get", "put", "verify", "release"}
      BY <1>1, <1>2, <1>6 DEF ControlOK
    <2>2. ~(held[t].live /\ ~held[t].releasing)
      BY <1>1, <2>1 DEF ControlOK
    <2> QED BY <2>1, <2>2 DEF KeptOK, Pc
  <1> QED BY <1>5, <1>6

\* The record of an acquire that was granted is the lock object.
LEMMA GrantIsLock ==
    ASSUME TypeOK, NEW t \in Tasks, BackedOK(t), Pc(t) \in {"put", "verify"}, Granted(t),
           now < call[t].body.expires
    PROVE  lock = call[t].body
  <1>1. Owns(t, call[t].body.epoch, call[t].body.expires)
    BY DEF BackedOK
  <1>2. lock \in Records
    BY <1>1, LeaseAssumption DEF TypeOK, Owns, lock, ETags
  <1>3. lock = call[t].body \/ call[t].body.epoch = lock.epoch + 1
    BY <1>1 DEF BackedOK, Owns
  <1> QED BY <1>1, <1>2, <1>3 DEF Owns, Records

LEMMA AcquireKept ==
    ASSUME LeaseInv, NEW t \in Tasks, Live(t), KeptOK(t), UNCHANGED held,
           AcquireGot(t) \/ AcquirePut(t) \/ AcquireVerified(t) \/ AcquireWake(t)
    PROVE  KeptOK(t)'
  <1>1. TypeOK /\ ControlOK(t) /\ MemoryOK(t) /\ BackedOK(t) /\ UNCHANGED <<now, store>>
    BY DEF LeaseInv, TaskOK, AcquireGot, AcquirePut, AcquireVerified, AcquireWake
  <1>2. /\ Pc(t) \in {"get", "put", "verify", "sleep"} /\ ~(held[t].live /\ ~held[t].releasing)
    BY <1>1 DEF ControlOK, AcquireGot, AcquirePut, AcquireVerified, AcquireWake
  <1>3. ASSUME Pc(t)' \in {"get", "sleep", "busy", "failed"} PROVE KeptOK(t)'
    BY <1>2, <1>3 DEF KeptOK
  <1>4. ASSUME NEW pc \in {"sleep", "busy", "failed"}, Goto(t, pc) PROVE KeptOK(t)'
    BY <1>1, <1>3, <1>4 DEF Goto, TypeOK, CallType, Pc
  <1>5. CASE AcquireGot(t)
    <2>1. CASE PutRecord(t, resp[t].val)
      <3>1. Pc(t)' = "put" /\ call'[t].body.expires = now + LeaseTime
        BY <1>1, <2>1 DEF PutRecord, TypeOK, CallType, Pc, FreshRecord, LockRecord
      <3>2. now \in Nat /\ LeaseTime \in Nat \ {0}
        BY <1>1, LeaseAssumption DEF TypeOK
      <3> QED BY <1>1, <1>2, <3>1, <3>2 DEF KeptOK
    <2> QED BY <1>4, <1>5, <2>1 DEF AcquireGot, RetryOrBusy
  <1>6. CASE AcquirePut(t)
    <2>1. CASE resp[t].status = "ok"
      <3>1. Pc(t)' = "acquired" /\ call'[t].body = call[t].body /\ Pc(t) = "put" /\ Granted(t)
        BY <1>1, <1>6, <2>1 DEF AcquirePut, TypeOK, CallType, Pc, Granted
      <3>2. lock = call[t].body
        BY <1>1, <3>1, GrantIsLock DEF KeptOK
      <3> QED BY <1>1, <1>2, <3>1, <3>2 DEF KeptOK, lock
    <2>2. CASE resp[t].status # "ok"
      <3>1. Pc(t)' = "verify" /\ call'[t].body = call[t].body /\ Pc(t) = "put"
        BY <1>1, <1>6, <2>2 DEF AcquirePut, TypeOK, CallType, Pc
      <3> QED BY <1>1, <1>2, <3>1 DEF KeptOK
    <2> QED BY <2>1, <2>2
  <1>7. CASE AcquireVerified(t)
    <2>1. CASE LeaseLanded(t)
      <3>1. Pc(t)' = "acquired" /\ call'[t].body = call[t].body /\ Pc(t) = "verify" /\ Granted(t)
        BY <1>1, <1>7, <2>1 DEF AcquireVerified, TypeOK, CallType, Pc, Granted, LeaseLanded
      <3>2. lock = call[t].body
        BY <1>1, <3>1, GrantIsLock DEF KeptOK
      <3> QED BY <1>1, <1>2, <3>1, <3>2 DEF KeptOK, lock
    <2> QED BY <1>4, <1>7, <2>1 DEF AcquireVerified, RetryOrBusy
  <1>8. CASE AcquireWake(t)
    BY <1>1, <1>3, <1>8 DEF AcquireWake, TypeOK, CallType, Pc
  <1> QED BY <1>5, <1>6, <1>7, <1>8

\* The task that moves.
LEMMA MoverKept ==
    ASSUME LeaseInv, ConditionalDelete, MaxFaults = 0, NEW t \in Tasks, KeptInv, Live(t)',
           TaskStep(t)
    PROVE  KeptOK(t)'
  <1>1. TypeOK /\ TaskOK(t)
    BY DEF LeaseInv
  <1>2. Live(t)
    BY DEF TaskStep, Open, Opened, OpenFailed, Renew, Renewed, Close, Closed, Crash, Background, Live
  <1>3. ControlOK(t) /\ MemoryOK(t) /\ KeptOK(t)
    BY <1>1, <1>2 DEF TaskOK, KeptInv
  <1>4. call[t] \in CallType /\ held[t] \in EntryType /\ now \in Nat
    BY <1>1 DEF TypeOK
  <1>5. CASE Open(t)
    <2>1. Pc(t)' = "get" /\ ~held'[t].live
      BY <1>1, <1>5 DEF Open, CallAcquire, TypeOK, Pc
    <2> QED BY <2>1 DEF KeptOK
  <1>6. CASE Opened(t)
    <2>1. /\ Pc(t)' = "none" /\ Pc(t) = "acquired" /\ UNCHANGED <<store, now>>
          /\ held'[t].etag = call[t].etag /\ held'[t].expires = call[t].body.expires
          /\ held'[t].lost = FALSE
      BY <1>1, <1>6 DEF Opened, storeVars, TypeOK, NoCall, NoLease, Pc
    <2> QED BY <1>3, <2>1 DEF KeptOK, MemoryOK, lock
  <1>7. CASE OpenFailed(t) \/ Closed(t)
    <2>1. Pc(t)' = "none" /\ UNCHANGED <<store, now>> /\ ~(held'[t].live /\ ~held'[t].releasing)
      BY <1>1, <1>3, <1>7 DEF OpenFailed, Closed, storeVars, TypeOK, NoCall, NoLease, Pc, ControlOK
    <2> QED BY <2>1 DEF KeptOK
  <1>8. CASE Renew(t)
    <2>1. /\ Pc(t) = "none" /\ held[t].live /\ ~held[t].releasing
          /\ held[t].etag # Absent /\ lock = held[t].etag
      BY <1>3, <1>8, HolderAssumption DEF Renew, NeedsRenewal, MemoryOK, KeptOK
    <2>2. /\ Pc(t)' = "renew" /\ UNCHANGED <<store, now, held>>
          /\ req'[t] = PutIf("lock", held[t].etag, FreshRecord(t, held[t].epoch))
          /\ resp'[t].status = "none"
      BY <1>1, <1>8, Sent DEF Renew, CallRenew, TypeOK, Pc
    <2>3. req'[t].cond = "ifMatch" /\ req'[t].etag = held[t].etag
      BY <2>1, <2>2 DEF PutIf
    <2> QED BY <1>3, <2>1, <2>2, <2>3 DEF KeptOK, lock
  <1>9. CASE Renewed(t)
    <2>1. Pc(t) = "renewed"
      BY <1>3, <1>9 DEF Renewed, KeptOK
    <2>2. /\ Pc(t)' = "none" /\ UNCHANGED <<store, now>>
          /\ held' = [held EXCEPT ![t] = [held[t] EXCEPT !.etag = call[t].etag,
                                                         !.expires = call[t].body.expires]]
      BY <1>1, <1>9, <2>1 DEF Renewed, storeVars, TypeOK, NoCall, Pc
    <2>3. /\ held'[t].etag = call[t].etag /\ held'[t].expires = call[t].body.expires
          /\ held'[t].lost = held[t].lost
      BY <1>1, <1>4, <2>2 DEF TypeOK, EntryType
    <2>4. held[t].live /\ ~held[t].releasing
      BY <1>3, <2>1 DEF ControlOK
    <2>5. now < held[t].expires /\ call[t].body.expires >= held[t].expires
          /\ held[t].expires \in Nat /\ call[t].body.expires \in Nat
      BY <1>3, <1>4, <2>1, <2>4 DEF KeptOK, MemoryOK, EntryType, CallType, Records
    <2> QED BY <1>3, <1>4, <2>1, <2>2, <2>3, <2>4, <2>5 DEF KeptOK, MemoryOK, lock
  <1>10. CASE Close(t)
    <2>1. Pc(t)' = "release" /\ held'[t].releasing
      BY <1>1, <1>4, <1>10 DEF Close, CallRelease, TypeOK, EntryType, Pc
    <2> QED BY <2>1 DEF KeptOK
  <1>11. CASE Crash(t)
    BY <1>11 DEF Crash, Live
  <1>12. CASE Background(t)
    <2>1. UNCHANGED <<held, dead>>
      BY <1>12 DEF Background
    <2>2. CASE StoreStep(t) /\ UNCHANGED <<now, call>>
      BY <1>2, <1>3, <2>1, <2>2, ServedKept
    <2>3. CASE AcquireGot(t) \/ AcquirePut(t) \/ AcquireVerified(t) \/ AcquireWake(t)
      BY <1>2, <1>3, <2>1, <2>3, AcquireKept
    <2>4. CASE RenewDone(t)
      <3>1. Pc(t) = "renew" /\ resp[t].status # "none" /\ UNCHANGED <<store, now>>
        BY <2>4 DEF RenewDone, Answered
      <3>2. resp[t].status = "ok" /\ lock = call[t].body
        BY <1>3, <3>1 DEF KeptOK
      <3>3. Pc(t)' = "renewed" /\ call'[t].body = call[t].body
        BY <1>1, <1>4, <2>4, <3>2 DEF RenewDone, TypeOK, CallType, Pc
      <3> QED BY <1>3, <2>1, <3>1, <3>2, <3>3 DEF KeptOK, lock
    <2>5. CASE ReleaseDone(t)
      <3>1. Pc(t) = "release" /\ Pc(t)' = "released"
        BY <1>1, <2>5 DEF ReleaseDone, Goto, TypeOK, CallType, Pc
      <3> QED BY <1>3, <2>1, <3>1 DEF KeptOK, ControlOK
    <2> QED BY <1>12, <2>2, <2>3, <2>4, <2>5 DEF Background, LeaseStep
  <1> QED BY <1>5, <1>6, <1>7, <1>8, <1>9, <1>10, <1>11, <1>12 DEF TaskStep

LEMMA KeptNext ==
    ASSUME ConditionalDelete, MaxFaults = 0, Prompt, LeaseInv, KeptInv, [Next]_vars
    PROVE  KeptInv'
  <1> SUFFICES ASSUME NEW u \in Tasks, Live(u)' PROVE KeptOK(u)'
    BY DEF KeptInv
  <1>1. CASE UNCHANGED vars
    BY <1>1 DEF vars, leaseVars, storeVars, KeptInv, KeptOK, Live, Pc, lock
  <1>2. CASE Tick
    BY <1>2, TickKept
  <1>3. ASSUME NEW t \in Tasks, TaskStep(t) PROVE KeptOK(u)'
    BY <1>3, MoverKept, OtherKept
  <1> QED BY <1>1, <1>2, <1>3 DEF Next

\* "A live holder never loses its lease to expiry" (docs/sync-semantics.md): a
\* renewal that is due with half of the lease left, and answered before the
\* rest is over, comes in time, whatever other instances do and whoever
\* crashes, as long as no request fails in transport.  A holder never finds
\* its lease taken, because the lock object is always the version that its
\* renewal names.
THEOREM LiveHolderKeeps ==
    ASSUME ConditionalDelete, MaxFaults = 0, Prompt
    PROVE  Spec => []LiveHolderKeepsLease
  <1>1. Init => KeptInv
    BY DEF Init, LeaseInit, KeptInv, KeptOK, NoLease, NoCall, Pc
  <1>2. LeaseInv /\ KeptInv /\ [Next]_vars => KeptInv'
    BY KeptNext
  <1>3. LeaseInv /\ KeptInv => LiveHolderKeepsLease
    BY DEF LeaseInv, TaskOK, KeptInv, KeptOK, LiveHolderKeepsLease, Holds
  <1> QED BY <1>1, <1>2, <1>3, LeaseInvHolds, PTL DEF Spec

=============================================================================
