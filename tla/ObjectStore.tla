---------------------------- MODULE ObjectStore ----------------------------
(***************************************************************************)
(* The object store as vfs-sync-core uses it (object_store.rs, types.rs,   *)
(* s3_client.rs): keys that hold at most one object, and requests whose    *)
(* precondition the store evaluates atomically with their effect.          *)
(*                                                                         *)
(* A task sends one request at a time and awaits its response.  Between    *)
(* the two the store serves the request in one step; everything else may   *)
(* happen before it (a slow request) and after it (a slow response).  A    *)
(* request can also fail in transport: it is then served or not, and the   *)
(* task sees an error; or the SDK, having lost the response, retries a     *)
(* request that was already served, and the task sees the answer to the    *)
(* second attempt.  MaxFaults bounds how often that happens.               *)
(*                                                                         *)
(* The ETag of an object is a digest of its content (S3 uses MD5,          *)
(* MemoryObjectStore::etag_for a hash), taken to be collision free: in     *)
(* this model the ETag of an object IS its content.                        *)
(***************************************************************************)
EXTENDS Naturals

CONSTANTS
    Tasks,             \* the threads of control that talk to the store
    Keys,              \* the object keys of one file: its content, its lock
    Absent,            \* what a key without an object holds; no ETag
    ConditionalDelete, \* FALSE: the backend answers 501 to a conditional
                       \* delete and S3Storage falls back to HEAD + DELETE
    MaxFaults          \* bound on requests that fail in transport

ASSUME StoreAssumption == ConditionalDelete \in BOOLEAN /\ MaxFaults \in Nat

VARIABLES
    store,   \* key -> the object it holds, or Absent
    req,     \* task -> the request in flight, or NoRequest
    resp,    \* task -> the response not yet consumed, or NoResponse
    faults   \* number of transport faults so far

storeVars == <<store, req, resp, faults>>

Statuses == {"none", "ok", "precondition", "notFound", "error"}

NoRequest ==
    [op |-> "none", key |-> Absent, cond |-> "none", etag |-> Absent, body |-> Absent]

NoResponse == [status |-> "none", val |-> Absent]

-----------------------------------------------------------------------------
(***************************************************************************)
(* Requests.                                                               *)
(***************************************************************************)

\* GET, HEAD, and the LIST entry of a single key: all return the object (its
\* content, its ETag) or "no such key", which is not an error.
Get(key) ==
    [op |-> "get", key |-> key, cond |-> "none", etag |-> Absent, body |-> Absent]

\* PUT with base_cond(etag): If-Match on an ETag, If-None-Match: * without one.
PutIf(key, etag, body) ==
    [op |-> "put", key |-> key,
     cond |-> IF etag = Absent THEN "ifNoneMatch" ELSE "ifMatch",
     etag |-> etag, body |-> body]

\* PUT with Precondition::None.
PutAlways(key, body) ==
    [op |-> "put", key |-> key, cond |-> "none", etag |-> Absent, body |-> body]

\* DELETE, with If-Match when an ETag is known.
DeleteIf(key, etag) ==
    [op |-> "delete", key |-> key,
     cond |-> IF etag = Absent THEN "none" ELSE "ifMatch",
     etag |-> etag, body |-> Absent]

-----------------------------------------------------------------------------
(***************************************************************************)
(* What the store answers, and what it holds afterwards, when it serves    *)
(* request r on a key that holds cur.                                      *)
(***************************************************************************)

\* The precondition: 412 is "precondition"; a missing If-Match target is 404.
CheckCond(r, cur) ==
    CASE r.cond = "none"        -> "ok"
      [] r.cond = "ifNoneMatch" -> IF cur = Absent THEN "ok" ELSE "precondition"
      [] r.cond = "ifMatch"     -> IF cur = Absent THEN "notFound"
                                   ELSE IF cur = r.etag THEN "ok"
                                   ELSE "precondition"

\* Deleting a missing key is not an error, whatever the condition.
Outcome(r, cur) ==
    IF r.op = "delete" /\ cur = Absent THEN "ok" ELSE CheckCond(r, cur)

\* The object the key holds once r is served.
After(r, cur) ==
    IF Outcome(r, cur) # "ok" THEN cur
    ELSE CASE r.op = "put"    -> r.body
           [] r.op = "delete" -> Absent
           [] OTHER           -> cur

\* The response to r: GET carries the object, PUT the new ETag.
Response(r, cur) ==
    [status |-> Outcome(r, cur),
     val    |-> IF r.op = "delete" \/ Outcome(r, cur) # "ok" THEN Absent
                ELSE After(r, cur)]

-----------------------------------------------------------------------------
StoreInit(objects) ==
    /\ store = objects
    /\ req = [t \in Tasks |-> NoRequest]
    /\ resp = [t \in Tasks |-> NoResponse]
    /\ faults = 0

\* Task t, which has consumed the response it was waiting for, sends r.
Send(t, r) ==
    /\ req' = [req EXCEPT ![t] = r]
    /\ resp' = [resp EXCEPT ![t] = NoResponse]

\* Task t has its response.
Answered(t) == resp[t].status # "none"

\* A conditional delete that the backend does not implement.
Emulated(r) == ~ConditionalDelete /\ r.op = "delete" /\ r.cond = "ifMatch"

\* The key of t's request now holds obj, and t's response is a.
Served(t, obj, a) ==
    /\ store' = [store EXCEPT ![req[t].key] = obj]
    /\ req' = [req EXCEPT ![t] = NoRequest]
    /\ resp' = [resp EXCEPT ![t] = a]

\* The store serves t's request and the response arrives.
Serve(t) ==
    LET r == req[t]
        cur == store[r.key] IN
    /\ r.op # "none"
    /\ ~Emulated(r)
    /\ Served(t, After(r, cur), Response(r, cur))
    /\ UNCHANGED faults

\* The request, or its response, is lost: the task sees a transport error.
TransportError(t) ==
    LET r == req[t]
        cur == store[r.key] IN
    /\ r.op # "none"
    /\ faults < MaxFaults
    /\ faults' = faults + 1
    /\ \E obj \in {cur, IF Emulated(r) THEN cur ELSE After(r, cur)} :
          Served(t, obj, [status |-> "error", val |-> Absent])

\* The response is lost and the SDK's retry of the same request is answered.
ServeTwice(t) ==
    LET r == req[t]
        cur == store[r.key]
        mid == After(r, cur) IN
    /\ r.op \in {"put", "delete"}
    /\ ~Emulated(r)
    /\ faults < MaxFaults
    /\ faults' = faults + 1
    /\ Served(t, After(r, mid), Response(r, mid))

\* S3Storage::delete_with_head_check: compare the ETag of a HEAD, and only
\* then send a delete without a condition.
HeadCheck(t) ==
    LET r == req[t]
        cur == store[r.key] IN
    /\ r.op # "none"
    /\ Emulated(r)
    /\ IF cur = r.etag
       THEN /\ req' = [req EXCEPT ![t] = DeleteIf(r.key, Absent)]
            /\ UNCHANGED <<store, resp>>
       ELSE Served(t, cur, Response(r, cur))
    /\ UNCHANGED faults

StoreStep(t) == Serve(t) \/ TransportError(t) \/ ServeTwice(t) \/ HeadCheck(t)

=============================================================================
