------------------------------ MODULE OpenFiles ------------------------------
(***************************************************************************)
(* Descriptors and the data of one file in fs-core (fs.rs, handle.rs), in  *)
(* the thread-safe build: several threads share one Fs.  A call looks its  *)
(* descriptor up, works on the file under the inode's lock, and stores the *)
(* new position when it has given the lock back; other threads run between *)
(* these steps.                                                            *)
(***************************************************************************)
EXTENDS BlockStorage, Integers, FiniteSets

CONSTANTS
    Threads,
    Calls,     \* the calls threads make: records of Call
    OpenFlags, \* the flags files are opened with: records of Flags
    Shared,    \* threads use each other's descriptors
    MaxSize,   \* bound on the size of the file
    MaxOpens,  \* bounds on the number of opens and of calls
    MaxCalls

\* Access mode, O_APPEND and O_TRUNC.
Flags == [access : {"r", "w", "rw"}, append : BOOLEAN, trunc : BOOLEAN]

\* kind: the operation; at: its offset, size or seek distance; len: of a read;
\* data: of a write; whence: of a seek.
Call == [kind : {"write", "write_at", "append_write", "read", "read_at", "ftruncate", "seek"},
         at : Int, len : Nat, data : Seq(Nat), whence : {"set", "cur", "end"}]

ASSUME OpenFilesAssumption ==
    /\ \A c \in Calls : c \in Call /\ (c.kind # "seek" => c.at \in Nat)
    /\ OpenFlags \subseteq Flags
    /\ Shared \in BOOLEAN /\ {MaxSize, MaxOpens, MaxCalls} \subseteq Nat

VARIABLES
    file,    \* BlockStorage of the inode
    size,    \* metadata.size of the inode
    handles, \* fd_table: a function from the open descriptors to file handles
    nextFd,  \* next_fd
    task,    \* thread -> the call it is executing
    calls,   \* how many calls there have been
    bytes    \* reference: the content as a sequence of bytes

vars == <<file, size, handles, nextFd, task, calls, bytes>>

NoCall == [kind |-> "none", at |-> 0, len |-> 0, data |-> <<>>, whence |-> "set"]

\* pc: the step it is at; flags, pos: as read from the handle; birth: which
\* open created that handle; got, want: what a read returned, and what it
\* should have.
Idle == [pc |-> "idle", call |-> NoCall, fd |-> 0, flags |-> [access |-> "r"], pos |-> 0,
         birth |-> 0, got |-> <<>>, want |-> <<>>]

Init ==
    /\ file = NewStorage /\ size = 0 /\ bytes = <<>>
    /\ handles = <<>>
    /\ nextFd = 3
    /\ task = [t \in Threads |-> Idle]
    /\ calls = 0

-----------------------------------------------------------------------------
(***************************************************************************)
(* Open and close.                                                         *)
(***************************************************************************)

opened == nextFd - 3

\* open_path_with_flags and open_at from the file's inode on: O_TRUNC needs
\* write access, and truncates under the inode's lock ...
OpenFile(t) ==
    /\ task[t].pc = "idle"
    /\ opened + Cardinality({u \in Threads : task[u].pc = "insert"}) < MaxOpens
    /\ \E flags \in OpenFlags :
          /\ ~(flags.trunc /\ flags.access = "r")
          /\ IF flags.trunc
             THEN /\ file' = StorageTruncate(file, 0)
                  /\ size' = 0
                  /\ bytes' = <<>>
             ELSE UNCHANGED <<file, size, bytes>>
          /\ task' = [task EXCEPT ![t] = [Idle EXCEPT !.pc = "insert", !.flags = flags]]
    /\ UNCHANGED <<handles, nextFd, calls>>

\* Mutant: the lowest free descriptor number is used again.
InsertLowest(t) ==
    /\ task[t].pc = "insert"
    /\ nextFd' = nextFd + 1
    /\ LET fd == CHOOSE n \in 3 .. nextFd :
                    n \notin DOMAIN handles /\ \A m \in 3 .. n - 1 : m \in DOMAIN handles IN
       handles' = [f \in DOMAIN handles \union {fd} |->
          IF f = fd THEN [flags |-> task[t].flags, pos |-> 0, owner |-> t, birth |-> nextFd]
          ELSE handles[f]]
    /\ task' = [task EXCEPT ![t] = Idle]
    /\ UNCHANGED <<file, size, bytes, calls>>

\* ... and the handle is inserted under a new number (allocate_fd, fd_insert).
InsertHandle(t) ==
    /\ task[t].pc = "insert"
    /\ nextFd' = nextFd + 1
    /\ handles' = [f \in DOMAIN handles \union {nextFd} |->
          IF f = nextFd
          THEN [flags |-> task[t].flags, pos |-> 0, owner |-> t, birth |-> nextFd]
          ELSE handles[f]]
    /\ task' = [task EXCEPT ![t] = Idle]
    /\ UNCHANGED <<file, size, bytes, calls>>

May(t, fd) == Shared \/ handles[fd].owner = t

\* close
CloseFd(t) ==
    /\ task[t].pc = "idle"
    /\ \E fd \in DOMAIN handles :
          May(t, fd) /\ handles' = [f \in DOMAIN handles \ {fd} |-> handles[f]]
    /\ UNCHANGED <<file, size, nextFd, task, bytes, calls>>

-----------------------------------------------------------------------------
(***************************************************************************)
(* Calls on a descriptor.                                                  *)
(***************************************************************************)

Writes == {"write", "write_at", "append_write", "ftruncate"}
Reads == {"read", "read_at"}

\* fd_with: the handle is copied.  A call that the access mode forbids, or on
\* a descriptor that is not open, returns an error here and does nothing.
Begin(t) ==
    /\ task[t].pc = "idle" /\ calls < MaxCalls
    /\ calls' = calls + 1
    /\ \E fd \in DOMAIN handles, c \in Calls :
          LET h == handles[fd] IN
          /\ May(t, fd)
          /\ c.kind \in Writes => h.flags.access # "r"
          /\ c.kind \in Reads => h.flags.access # "w"
          /\ task' = [task EXCEPT ![t] =
                [Idle EXCEPT !.pc = "inode", !.call = c, !.fd = fd, !.flags = h.flags,
                             !.pos = h.pos, !.birth = h.birth]]
    /\ UNCHANGED <<file, size, handles, nextFd, bytes>>

\* Under the inode's lock: the file changes to s and the reference to b.
Locked(t, s, b, pos) ==
    /\ file' = s /\ size' = s.size /\ bytes' = b
    /\ task' = [task EXCEPT ![t].pc = "store", ![t].pos = pos]
    /\ UNCHANGED <<handles, nextFd, calls>>

\* Mutant: an append uses the position that was read with the handle.
WriteOffsetStale(t) ==
    LET c == task[t].call IN
    IF c.kind = "write_at" THEN c.at ELSE task[t].pos

\* Where a write goes: write_at at its offset, append_write and O_APPEND at the
\* end, the others at the handle's position.
WriteOffset(t) ==
    LET c == task[t].call IN
    CASE c.kind = "write_at" -> c.at
      [] c.kind = "append_write" \/ (c.kind = "write" /\ task[t].flags.append) -> file.size
      [] OTHER -> task[t].pos

\* write, write_at, append_write
WriteLocked(t) ==
    LET c == task[t].call
        at == WriteOffset(t) IN
    /\ task[t].pc = "inode" /\ c.kind \in {"write", "write_at", "append_write"}
    /\ at + Len(c.data) <= MaxSize
    /\ Locked(t, StorageWrite(file, at, c.data), BytesWrite(bytes, at, c.data), at + Len(c.data))

\* read, read_at
ReadLocked(t) ==
    LET c == task[t].call
        at == IF c.kind = "read" THEN task[t].pos ELSE c.at
        got == StorageRead(file, at, c.len) IN
    /\ task[t].pc = "inode" /\ c.kind \in Reads
    /\ task' = [task EXCEPT ![t].pc = "store", ![t].pos = at + Len(got),
                            ![t].got = got, ![t].want = BytesRead(bytes, at, c.len)]
    /\ UNCHANGED <<file, size, handles, nextFd, bytes, calls>>

\* ftruncate: leaves the position alone.
FtruncateLocked(t) ==
    LET c == task[t].call IN
    /\ task[t].pc = "inode" /\ c.kind = "ftruncate"
    /\ file' = StorageTruncate(file, c.at)
    /\ size' = c.at
    /\ bytes' = BytesTruncate(bytes, c.at)
    /\ task' = [task EXCEPT ![t] = Idle]
    /\ UNCHANGED <<handles, nextFd, calls>>

\* seek: a negative position is refused.
SeekLocked(t) ==
    LET c == task[t].call
        pos == CASE c.whence = "set" -> c.at
                 [] c.whence = "cur" -> task[t].pos + c.at
                 [] c.whence = "end" -> file.size + c.at IN
    /\ task[t].pc = "inode" /\ c.kind = "seek"
    /\ \/ pos < 0 /\ task' = [task EXCEPT ![t] = Idle]
       \/ pos >= 0 /\ task' = [task EXCEPT ![t].pc = "store", ![t].pos = pos]
    /\ UNCHANGED <<file, size, handles, nextFd, bytes, calls>>

\* fd_try_with: the position is stored, if the descriptor is still open.
StorePosition(t) ==
    /\ task[t].pc = "store"
    /\ handles' = [f \in DOMAIN handles |->
          IF f = task[t].fd THEN [handles[f] EXCEPT !.pos = task[t].pos] ELSE handles[f]]
    /\ task' = [task EXCEPT ![t] = Idle]
    /\ UNCHANGED <<file, size, nextFd, bytes, calls>>

\* to_snapshot and from_snapshot: a process starts again from a snapshot of
\* the file, without descriptors.
Restore ==
    /\ \A t \in Threads : task[t].pc = "idle"
    /\ file' = RestoreFile(SaveFile(file))
    /\ handles' = <<>>
    /\ nextFd' = 3
    /\ UNCHANGED <<size, task, bytes, calls>>

Next ==
    \/ Restore
    \/ \E t \in Threads :
          \/ OpenFile(t) \/ InsertHandle(t) \/ CloseFd(t)
          \/ Begin(t) \/ WriteLocked(t) \/ ReadLocked(t) \/ FtruncateLocked(t) \/ SeekLocked(t)
          \/ StorePosition(t)

Spec == Init /\ [][Next]_vars

-----------------------------------------------------------------------------
(***************************************************************************)
(* Properties                                                              *)
(***************************************************************************)

\* Blocks, sizes and snapshots agree with the plain sequence of bytes: bytes cut
\* off by a truncate never come back when the file grows again, holes are
\* zeros, metadata.size is the size of the storage (storage.rs, snapshot.rs).
ContentIsBytes == Contents(file) = bytes /\ size = Len(bytes)

\* A read returns what the file holds; where it stops before the end of the
\* file (storage.rs:31), nothing but zeros is missing.
ReadsHoldNoSurprise ==
    \A t \in Threads :
        LET got == task[t].got
            want == task[t].want IN
        /\ Len(got) <= Len(want)
        /\ \A k \in 1 .. Len(want) : want[k] = IF k <= Len(got) THEN got[k] ELSE 0

\* "Sparse block: fill with zeros" (storage.rs:48): a read returns all the bytes up to
\* the end of the file.  The code violates this after an extending truncate.
ReadsReachTheEnd == \A t \in Threads : task[t].got = task[t].want

\* "O_APPEND: write at end of file" (fs.rs:611), "Append data to file atomically
\* (always writes at end of file)" (fs.rs:676): an append never overwrites
\* what another thread appended meanwhile.
AppendsKeepTheFile ==
    [][ \A t \in Threads :
          /\ task[t].pc = "inode" /\ task'[t].pc = "store"
          /\ \/ task[t].call.kind = "append_write"
             \/ task[t].call.kind = "write" /\ task[t].flags.append
          => SubSeq(Contents(file'), 1, file.size) = Contents(file) ]_vars

\* The position that is stored after the lock was given back ("best effort",
\* fs.rs:241) goes to the open it belongs to or nowhere, never to a later open
\* that got the same number.
LateStoreIsHarmless ==
    \A t \in Threads :
        task[t].pc \in {"inode", "store"} /\ task[t].fd \in DOMAIN handles =>
            handles[task[t].fd].birth = task[t].birth
=============================================================================
