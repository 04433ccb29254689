------------------------------- MODULE Lease -------------------------------
(***************************************************************************)
(* The lease protocol of vfs-sync-core/src/lease.rs on the lock object of  *)
(* one file: acquire (with takeover of an expired record and the check     *)
(* whether a failed PUT landed after all), renew and release.              *)
(*                                                                         *)
(* Each of the three is an async function.  call[t] is the activation of   *)
(* task t: pc says which await it is suspended at, or which result it      *)
(* returned.  Every step between two awaits is one action.                 *)
(*                                                                         *)
(* Time: record expiry is wall-clock milliseconds and Acquired::expires_at *)
(* the local monotonic mirror of it; both are read off the one clock now   *)
(* (clock skew is left out).                                               *)
(***************************************************************************)
EXTENDS ObjectStore

CONSTANTS
    Instances,   \* instance ids (generate_instance_id; fresh in every process)
    InstanceOf,  \* task -> the instance it runs in
    NoInstance,  \* stands for the instance of an unparsable record
    LeaseTime,   \* lock_lease: how long an acquisition or renewal lasts
    LockTimeout, \* lock_timeout: how long an open waits for a live holder
    MaxTime      \* bound on the clock

ASSUME LeaseAssumption ==
    /\ "lock" \in Keys
    /\ InstanceOf \in [Tasks -> Instances]
    /\ NoInstance \notin Instances
    /\ LeaseTime \in Nat \ {0}
    /\ LockTimeout \in Nat
    /\ MaxTime \in Nat

VARIABLES
    now,   \* the clock
    call   \* task -> its activation of acquire, renew or release

leaseVars == <<storeVars, now, call>>

lock == store["lock"]

(***************************************************************************)
(* Lease records.  An unparsable body is treated as an expired record and  *)
(* its takeover starts again at epoch 1: it behaves like Unparsable.       *)
(***************************************************************************)
LockRecord(instance, epoch, expires) ==
    [instance |-> instance, epoch |-> epoch, expires |-> expires]

Unparsable == LockRecord(NoInstance, 0, 0)

\* Mutant: a record counts as expired one time unit early.
ExpiredEarly(record) == now + 1 >= record.expires

IsExpired(record) == now >= record.expires

\* The record t would write now: a fresh lease of the given epoch.
FreshRecord(t, epoch) == LockRecord(InstanceOf[t], epoch, now + LeaseTime)

\* Suspended at an await, or returned with a result.
AwaitPcs == {"get", "put", "verify", "sleep", "renew", "release"}
ResultPcs == {"acquired", "busy", "failed", "renewed", "lost", "renewFailed", "released"}

\* pc; the ETag a PUT or DELETE is conditional on; the record it writes (for a
\* result: the ETag and record obtained); the error awaiting verification; the
\* deadline of acquire.
NoCall == [pc |-> "none", etag |-> Absent, body |-> Unparsable, err |-> "none", deadline |-> 0]

LeaseInit ==
    /\ now = 0
    /\ call = [t \in Tasks |-> NoCall]

Pc(t) == call[t].pc

\* t moves to pc without sending a request.
Goto(t, pc) ==
    /\ call' = [call EXCEPT ![t].pc = pc]
    /\ Send(t, NoRequest)

-----------------------------------------------------------------------------
(***************************************************************************)
(* acquire                                                                 *)
(***************************************************************************)

\* Mutant: the deadline is not looked at.
RetryForever(t) == Goto(t, "sleep")

\* One round of the loop failed: give up at the deadline, else back off.
RetryOrBusy(t) == Goto(t, IF now >= call[t].deadline THEN "busy" ELSE "sleep")

\* Entry: the first GET of the lock object.
CallAcquire(t) ==
    /\ call' = [call EXCEPT ![t] = [NoCall EXCEPT !.pc = "get",
                                                  !.deadline = now + LockTimeout]]
    /\ Send(t, Get("lock"))

\* Mutant: every acquisition starts at epoch 1.
PutRecordEpochOne(t, seen) ==
    /\ call' = [call EXCEPT ![t].pc = "put", ![t].etag = seen, ![t].body = FreshRecord(t, 1)]
    /\ Send(t, PutIf("lock", seen, FreshRecord(t, 1)))

\* Try to write our record over what the GET returned (seen, or Absent).
PutRecord(t, seen) ==
    LET epoch == IF seen = Absent THEN 1 ELSE seen.epoch + 1 IN
    /\ call' = [call EXCEPT ![t].pc = "put", ![t].etag = seen,
                            ![t].body = FreshRecord(t, epoch)]
    /\ Send(t, PutIf("lock", seen, FreshRecord(t, epoch)))

\* The GET was answered: create, take over, or wait for the live holder.
AcquireGot(t) ==
    LET seen == resp[t].val IN
    /\ Pc(t) = "get" /\ Answered(t)
    /\ \/ resp[t].status = "error" /\ Goto(t, "failed")
       \/ /\ resp[t].status = "ok"
          /\ seen # Absent => IsExpired(seen)
          /\ PutRecord(t, seen)
       \/ /\ resp[t].status = "ok"
          /\ seen # Absent /\ ~IsExpired(seen)
          /\ RetryOrBusy(t)
    /\ UNCHANGED <<store, faults, now>>

\* The PUT was answered.  Any error may hide a write that landed.
AcquirePut(t) ==
    /\ Pc(t) = "put" /\ Answered(t)
    /\ \/ /\ resp[t].status = "ok"
          /\ call' = [call EXCEPT ![t].pc = "acquired", ![t].etag = resp[t].val]
          /\ Send(t, NoRequest)
       \/ /\ resp[t].status # "ok"
          /\ call' = [call EXCEPT ![t].pc = "verify", ![t].err = resp[t].status]
          /\ Send(t, Get("lock"))
    /\ UNCHANGED <<store, faults, now>>

\* Mutant: whatever record is stored counts as ours.
AnyRecordLanded(t) == resp[t].status = "ok" /\ resp[t].val # Absent

\* verify_lease_landed: the stored record has our instance and our epoch.
LeaseLanded(t) ==
    /\ resp[t].status = "ok" /\ resp[t].val # Absent
    /\ resp[t].val.instance = InstanceOf[t]
    /\ resp[t].val.epoch = call[t].body.epoch

\* The verifying GET was answered.  A takeover also retries after a 404; a
\* create never sees one.
AcquireVerified(t) ==
    /\ Pc(t) = "verify" /\ Answered(t)
    /\ \/ /\ LeaseLanded(t)
          /\ call' = [call EXCEPT ![t].pc = "acquired", ![t].etag = resp[t].val]
          /\ Send(t, NoRequest)
       \/ /\ ~LeaseLanded(t)
          /\ IF call[t].err \in {"precondition", "notFound"}
             THEN RetryOrBusy(t)
             ELSE Goto(t, "failed")
    /\ UNCHANGED <<store, faults, now>>

\* The backoff ends (it never outlasts the deadline by more than a round).
AcquireWake(t) ==
    /\ Pc(t) = "sleep"
    /\ call' = [call EXCEPT ![t].pc = "get"]
    /\ Send(t, Get("lock"))
    /\ UNCHANGED <<store, faults, now>>

-----------------------------------------------------------------------------
(***************************************************************************)
(* renew and release                                                       *)
(***************************************************************************)

\* PUT a fresh record of the same epoch with If-Match on the one we know.
CallRenew(t, epoch, etag) ==
    /\ call' = [call EXCEPT ![t] = [NoCall EXCEPT !.pc = "renew", !.etag = etag,
                                                  !.body = FreshRecord(t, epoch)]]
    /\ Send(t, PutIf("lock", etag, FreshRecord(t, epoch)))

\* Renewed; or no longer ours (412, 404); or an error that is only logged.
RenewDone(t) ==
    LET result == CASE resp[t].status = "ok"    -> "renewed"
                    [] resp[t].status = "error" -> "renewFailed"
                    [] OTHER                    -> "lost" IN
    /\ Pc(t) = "renew" /\ Answered(t)
    /\ call' = [call EXCEPT ![t].pc = result,
                            ![t].etag = IF result = "renewed" THEN resp[t].val ELSE @]
    /\ Send(t, NoRequest)
    /\ UNCHANGED <<store, faults, now>>

\* Mutant: the lock object is deleted whoever wrote it.
CallReleaseBlind(t, etag) ==
    /\ call' = [call EXCEPT ![t] = [NoCall EXCEPT !.pc = "release", !.etag = etag]]
    /\ Send(t, DeleteIf("lock", Absent))

\* DELETE the record with If-Match on our ETag.
CallRelease(t, etag) ==
    /\ call' = [call EXCEPT ![t] = [NoCall EXCEPT !.pc = "release", !.etag = etag]]
    /\ Send(t, DeleteIf("lock", etag))

\* Whatever the answer, release returns normally.
ReleaseDone(t) ==
    /\ Pc(t) = "release" /\ Answered(t)
    /\ Goto(t, "released")
    /\ UNCHANGED <<store, faults, now>>

\* The steps of a running activation, without the store's.
LeaseStep(t) ==
    \/ AcquireGot(t) \/ AcquirePut(t) \/ AcquireVerified(t) \/ AcquireWake(t)
    \/ RenewDone(t) \/ ReleaseDone(t)

=============================================================================
