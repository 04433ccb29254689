---------------------------- MODULE LeaseHolder ----------------------------
(***************************************************************************)
(* Instances that contend for the lease of one file: what sync_manager.rs  *)
(* does with lease.rs (on_open_write, renew_leases, on_close), reduced to  *)
(* the lock object.  Every task is an instance of its own, as in the WASI  *)
(* deployments, whose sync layer runs on a single thread.                  *)
(*                                                                         *)
(* A crashed instance stops for good: a restarted process has a fresh      *)
(* instance id, so it is another task.  Its last request may still reach   *)
(* the store.                                                              *)
(***************************************************************************)
EXTENDS Lease, Integers

CONSTANT
    MaxLag   \* within this time of being due, a renewal of a live instance
             \* has been answered (the background tick runs every 100 ms);
             \* a value above LeaseTime promises nothing

Records == [instance : Instances \union {NoInstance}, epoch : Nat, expires : Nat]
ETags == Records \union {Absent}

ASSUME HolderAssumption ==
    /\ MaxLag \in Nat
    /\ Absent \notin Records
    /\ \A s, t \in Tasks : InstanceOf[s] = InstanceOf[t] => s = t

VARIABLES
    held,   \* task -> its WriteLease entry, or NoLease
    dead    \* the crashed tasks

vars == <<leaseVars, held, dead>>

\* The entry of the lease table: lock_etag, epoch, expires_at, lost, releasing.
NoLease == [live |-> FALSE, etag |-> Absent, epoch |-> 0, expires |-> 0,
            lost |-> FALSE, releasing |-> FALSE]

RequestType ==
    [op : {"none", "get", "put", "delete"}, key : {"lock", Absent},
     cond : {"none", "ifNoneMatch", "ifMatch"}, etag : ETags, body : ETags]
ResponseType == [status : Statuses, val : ETags]
CallType ==
    [pc : AwaitPcs \union ResultPcs \union {"none"}, etag : ETags, body : Records,
     err : Statuses, deadline : Nat]
EntryType ==
    [live : BOOLEAN, etag : ETags, epoch : Nat, expires : Nat,
     lost : BOOLEAN, releasing : BOOLEAN]

\* The type invariant: the lock key holds lease records only, requests are
\* about the lock key, and every variable holds a value of its kind.
TypeOK ==
    /\ store \in [Keys -> ETags]
    /\ req \in [Tasks -> RequestType]
    /\ \A t \in Tasks : req[t].op # "none" => req[t].key = "lock"
    /\ resp \in [Tasks -> ResponseType]
    /\ faults \in Nat
    /\ now \in Nat
    /\ call \in [Tasks -> CallType]
    /\ held \in [Tasks -> EntryType]
    /\ dead \subseteq Tasks

Init ==
    /\ \E object \in {Absent, Unparsable} : StoreInit([k \in Keys |-> object])
    /\ LeaseInit
    /\ held = [t \in Tasks |-> NoLease]
    /\ dead = {}

Live(t) == t \notin dead

-----------------------------------------------------------------------------
\* on_open_write without a lease.  Opens stop in time to be decided within
\* the bounded clock.
Open(t) ==
    /\ Live(t) /\ Pc(t) = "none" /\ ~held[t].live
    /\ now + LockTimeout <= MaxTime
    /\ CallAcquire(t)
    /\ UNCHANGED <<store, faults, now, held, dead>>

\* Mutant: the entry keeps the time that is left instead of the expiry.
OpenedRemaining(t) ==
    /\ Live(t) /\ Pc(t) = "acquired"
    /\ held' = [held EXCEPT ![t] = [NoLease EXCEPT !.live = TRUE,
                                       !.etag = call[t].etag,
                                       !.epoch = call[t].body.epoch,
                                       !.expires = call[t].body.expires - now]]
    /\ call' = [call EXCEPT ![t] = NoCall]
    /\ UNCHANGED <<storeVars, now, dead>>

\* acquire returned the lease; the entry is inserted.
Opened(t) ==
    /\ Live(t) /\ Pc(t) = "acquired"
    /\ held' = [held EXCEPT ![t] = [NoLease EXCEPT !.live = TRUE,
                                       !.etag = call[t].etag,
                                       !.epoch = call[t].body.epoch,
                                       !.expires = call[t].body.expires]]
    /\ call' = [call EXCEPT ![t] = NoCall]
    /\ UNCHANGED <<storeVars, now, dead>>

\* acquire returned Busy or an error; the open fails.
OpenFailed(t) ==
    /\ Live(t) /\ Pc(t) \in {"busy", "failed"}
    /\ call' = [call EXCEPT ![t] = NoCall]
    /\ UNCHANGED <<storeVars, now, held, dead>>

\* Mutant: a lease is renewed once it has run out.
RenewalDueLate(expires, time) == expires <= time

\* paths_needing_renewal: at most half of the lease is left.
RenewalDue(expires, time) == expires <= time + LeaseTime \div 2

NeedsRenewal(t) ==
    /\ held[t].live /\ ~held[t].releasing /\ ~held[t].lost
    /\ RenewalDue(held[t].expires, now)

Renew(t) ==
    /\ Live(t) /\ Pc(t) = "none" /\ NeedsRenewal(t)
    /\ CallRenew(t, held[t].epoch, held[t].etag)
    /\ UNCHANGED <<store, faults, now, held, dead>>

\* renew returned: adopt the new ETag and expiry, or note the lease is lost,
\* or (transport error) keep the entry as it is.
Renewed(t) ==
    /\ Live(t) /\ Pc(t) \in {"renewed", "lost", "renewFailed"}
    /\ held' = [held EXCEPT ![t] =
          CASE Pc(t) = "renewed" -> [@ EXCEPT !.etag = call[t].etag,
                                              !.expires = call[t].body.expires]
            [] Pc(t) = "lost"    -> [@ EXCEPT !.lost = TRUE]
            [] OTHER             -> @]
    /\ call' = [call EXCEPT ![t] = NoCall]
    /\ UNCHANGED <<storeVars, now, dead>>

\* on_close of the last descriptor, once the data is pushed.
Close(t) ==
    /\ Live(t) /\ Pc(t) = "none" /\ held[t].live /\ ~held[t].releasing
    /\ held' = [held EXCEPT ![t].releasing = TRUE]
    /\ CallRelease(t, held[t].etag)
    /\ UNCHANGED <<store, faults, now, dead>>

Closed(t) ==
    /\ Live(t) /\ Pc(t) = "released"
    /\ held' = [held EXCEPT ![t] = NoLease]
    /\ call' = [call EXCEPT ![t] = NoCall]
    /\ UNCHANGED <<storeVars, now, dead>>

Crash(t) ==
    /\ Live(t)
    /\ dead' = dead \union {t}
    /\ held' = [held EXCEPT ![t] = NoLease]
    /\ call' = [call EXCEPT ![t] = NoCall]
    /\ UNCHANGED <<storeVars, now>>

-----------------------------------------------------------------------------
\* t has a lease to keep, or is about to get one that ends at Term(t).
KeepsLease(t) ==
    \/ Pc(t) \in {"put", "verify", "acquired"}
    \/ held[t].live /\ ~held[t].releasing /\ ~held[t].lost

Term(t) ==
    IF Pc(t) \in {"put", "verify", "acquired"}
    THEN call[t].body.expires ELSE held[t].expires

\* Time passes, but a live instance is never late by more than MaxLag.
Tick ==
    /\ now < MaxTime
    /\ \A t \in Tasks \ dead :
          KeepsLease(t) => ~RenewalDue(Term(t), now - MaxLag)
    /\ now' = now + 1
    /\ UNCHANGED <<storeVars, call, held, dead>>

\* The store and the running activation of a task; a crashed task only has
\* its last request served.
Background(t) ==
    /\ \/ StoreStep(t) /\ UNCHANGED <<now, call>>
       \/ Live(t) /\ LeaseStep(t)
    /\ UNCHANGED <<held, dead>>

TaskStep(t) ==
    \/ Open(t) \/ Opened(t) \/ OpenFailed(t)
    \/ Renew(t) \/ Renewed(t) \/ Close(t) \/ Closed(t)
    \/ Crash(t) \/ Background(t)

Next == Tick \/ \E t \in Tasks : TaskStep(t)

Spec == Init /\ [][Next]_vars

\* The clock advances; requests are served, responses and results handled.
\* Opening, closing and crashing are nobody's obligation, nor is a fault.
Fairness ==
    /\ WF_vars(Tick)
    /\ \A t \in Tasks :
          /\ WF_vars((Serve(t) \/ HeadCheck(t)) /\ UNCHANGED <<now, call, held, dead>>)
          /\ WF_vars(Live(t) /\ LeaseStep(t) /\ UNCHANGED <<held, dead>>)
          /\ WF_vars(Opened(t) \/ OpenFailed(t) \/ Renewed(t) \/ Closed(t))
          /\ WF_vars(Renew(t))

FairSpec == Spec /\ Fairness

-----------------------------------------------------------------------------
(***************************************************************************)
(* Properties                                                              *)
(***************************************************************************)

\* t may write the file: it has a lease, is not giving it back, and its own
\* record of the expiry says that it has not run out.
Holds(t) == held[t].live /\ ~held[t].releasing /\ now < held[t].expires

\* The lock object in the store is t's record of the given epoch and lasts at
\* least until expires.
Owns(t, epoch, expires) ==
    /\ lock # Absent
    /\ lock.instance = InstanceOf[t]
    /\ lock.epoch = epoch
    /\ lock.expires >= expires

\* As long as its lease has not run out, a holder owns the lock object: no
\* acquire, takeover, renew, release or late request of another instance
\* replaces or removes it ("we never remove a lease that was taken over from
\* us", lease.rs; takeover only of expired records).
HolderOwnsLock ==
    \A t \in Tasks : Holds(t) => Owns(t, held[t].epoch, held[t].expires)

\* At most one instance holds an unexpired lease (docs/sync-semantics.md, "At
\* most one instance writes a given file at a time").
MutualExclusion ==
    \A s, t \in Tasks : Holds(s) /\ Holds(t) => s = t

\* A record that replaces another instance's record has the next epoch, and
\* the record it replaces had expired; the same instance never goes back.
TakeoverRaisesEpoch ==
    [][ lock # Absent /\ lock' # Absent /\ lock' # lock =>
          \/ lock'.epoch = lock.epoch + 1 /\ IsExpired(lock)
          \/ /\ lock'.epoch = lock.epoch
             /\ lock'.instance = lock.instance
             /\ lock'.expires >= lock.expires ]_vars

\* "A live holder never loses its lease to expiry" (docs/sync-semantics.md):
\* with renewals answered in time, no lease in use runs out.
LiveHolderKeepsLease ==
    \A t \in Tasks : held[t].live /\ ~held[t].releasing => Holds(t)

\* Every open is decided: acquire returns the lease, Busy or an error, and the
\* caller goes on, unless its process crashes first.
OpenDecided ==
    \A t \in Tasks : Pc(t) \in {"get", "put", "verify", "sleep"} ~>
                       (Pc(t) \in {"none", "renew", "release"})

\* The protocol implements LeaseSpec: the term of a task is the expiry it has
\* on record for a lease that it is not giving back.
Terms == [t \in Tasks |-> IF held[t].live /\ ~held[t].releasing
                         THEN held[t].expires ELSE 0]

Abstract == INSTANCE LeaseSpec WITH term <- Terms

ImplementsLeaseSpec == Abstract!Spec

=============================================================================
