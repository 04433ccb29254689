------------------------------ MODULE InodeTree ------------------------------
(***************************************************************************)
(* The directory tree of fs-core (fs.rs, inode.rs) in the thread-safe      *)
(* build: threads that share one Fs open, create, remove and rename.  A    *)
(* call walks its path one lookup at a time, each under the read lock of   *)
(* one directory, and changes a directory under its write lock; other      *)
(* threads run in between.  Only rename ever waits for a lock while it     *)
(* holds another.                                                          *)
(***************************************************************************)
EXTENDS Naturals, Sequences, FiniteSets

CONSTANTS
    Threads,
    NoThread,
    Names,     \* file names
    Trees,     \* the trees the filesystem starts with (new, or from a snapshot)
    Calls,     \* the calls threads make: records with op, path and, for an
               \* open, creat, excl, trunc, access and at, for a rename, to
    MaxCalls   \* bound on the number of calls

Root == 0

\* Files and directories of a tree with the inodes ids.
Node(ids) == [dir : BOOLEAN, entries : UNION {[S -> ids] : S \in SUBSET Names}]

\* A tree that the filesystem built, whose inodes are never removed (a
\* snapshot keeps them all, and next_inode): they are numbered from the root
\* on, and none is entered twice.
WellFormed(tree) ==
    LET ids == DOMAIN tree IN
    /\ IsFiniteSet(ids) /\ Root \in ids /\ ids = 0 .. Cardinality(ids) - 1
    /\ tree \in [ids -> Node(ids)]
    /\ \A d, e \in ids : \A m \in DOMAIN tree[d].entries, n \in DOMAIN tree[e].entries :
          tree[d].entries[m] = tree[e].entries[n] => d = e /\ m = n

\* Paths have at least one component.
Paths == Seq(Names) \ {<<>>}

ASSUME TreeAssumption ==
    /\ NoThread \notin Threads /\ MaxCalls \in Nat
    /\ \A tree \in Trees : WellFormed(tree)
    /\ \A c \in Calls : c.path \in Paths /\ (c.op = "rename" => c.to \in Paths)

VARIABLES
    inodes,    \* inode_table: id -> [dir, entries]
    locked,    \* id -> the thread that holds its write lock across steps
    fds,       \* the open descriptors, as the sequence of their inodes
    task,      \* thread -> the call it is executing
    calls,     \* how many calls there have been
    changes    \* how often a directory has changed (to tell races apart)

vars == <<inodes, locked, fds, task, calls, changes>>

File == [dir |-> FALSE, entries |-> <<>>]
EmptyDir == [dir |-> TRUE, entries |-> <<>>]
NoInode == 99

\* pc: the step it is at; cur: the directory it has walked to; rest: what is
\* left of the path; from, name: directory and name of the source of a
\* rename; target: the inode that was looked up; dest: the one a rename would
\* replace; seen: `changes` at the checks.
Idle == [pc |-> "idle", call |-> [op |-> "none"], cur |-> Root, rest |-> <<>>, from |-> Root,
         name |-> "", target |-> NoInode, dest |-> NoInode, seen |-> 0, res |-> "none"]

\* Fs::with_time_provider: a root directory, inode 0.  from_snapshot: the
\* inodes of a snapshot.
NewTree == [i \in {Root} |-> EmptyDir]

Init ==
    /\ inodes \in Trees
    /\ locked = [i \in DOMAIN inodes |-> NoThread]
    /\ fds = <<>>
    /\ task = [t \in Threads |-> Idle]
    /\ calls = 0 /\ changes = 0

-----------------------------------------------------------------------------
(***************************************************************************)
(* Helpers                                                                 *)
(***************************************************************************)

Free(i) == locked[i] = NoThread
Has(dir, name) == name \in DOMAIN inodes[dir].entries
IsEmpty(dir) == DOMAIN inodes[dir].entries = {}

\* Directory entries with one more, or one less.
Plus(entries, name, i) ==
    [n \in DOMAIN entries \union {name} |-> IF n = name THEN i ELSE entries[n]]
Minus(entries, name) == [n \in DOMAIN entries \ {name} |-> entries[n]]

\* The call of t returns.
Return(t, res) ==
    task' = [task EXCEPT ![t] = [Idle EXCEPT !.res = res]]
Goto(t, pc) == task' = [task EXCEPT ![t].pc = pc]
Op(t) == task[t].call.op
Last(t) == Head(task[t].rest)

\* create_inode: a new inode, entered under the directory's write lock.
CreateInode(dir, name, node) ==
    LET id == Cardinality(DOMAIN inodes) IN
    /\ inodes' = [i \in DOMAIN inodes \union {id} |->
          IF i = id THEN node
          ELSE IF i = dir THEN [inodes[i] EXCEPT !.entries = Plus(@, name, id)]
          ELSE inodes[i]]
    /\ locked' = [i \in DOMAIN locked \union {id} |-> IF i = id THEN NoThread ELSE locked[i]]
    /\ changes' = changes + 1

-----------------------------------------------------------------------------
(***************************************************************************)
(* Walking.                                                                *)
(***************************************************************************)

\* A call starts at the root, an open_at at an open directory; a rename of a path
\* to itself does nothing.
Begin(t) ==
    /\ task[t].pc = "idle" /\ calls < MaxCalls
    /\ \E c \in Calls :
          \E start \in IF c.op = "open" /\ c.at
                       THEN {fds[f] : f \in {g \in 1 .. Len(fds) : inodes[fds[g]].dir}}
                       ELSE {Root} :
             /\ c.op = "rename" => c.to # c.path
             /\ task' = [task EXCEPT ![t] =
                   [Idle EXCEPT !.pc = "walk", !.call = c, !.cur = start, !.rest = c.path]]
    /\ calls' = calls + 1
    /\ UNCHANGED <<inodes, locked, fds, changes>>

\* find_inode on the way to the parent of the last component (mkdir_p makes
\* what is missing, see MkdirP).
Walk(t) ==
    LET cur == task[t].cur IN
    /\ task[t].pc \in {"walk", "walkTo"} /\ Len(task[t].rest) > 1 /\ Op(t) # "mkdir_p"
    /\ Free(cur)
    /\ IF Has(cur, Last(t)) /\ inodes[inodes[cur].entries[Last(t)]].dir
       THEN task' = [task EXCEPT ![t].cur = inodes[cur].entries[Last(t)], ![t].rest = Tail(@)]
       ELSE Return(t, "error")
    /\ UNCHANGED <<inodes, locked, fds, calls, changes>>

AtLast(t, pc) == task[t].pc = pc /\ Len(task[t].rest) = 1

-----------------------------------------------------------------------------
(***************************************************************************)
(* open_path_with_flags, open_at, stat                                     *)
(***************************************************************************)

\* find_inode of the last component.
OpenFind(t) ==
    LET cur == task[t].cur
        c == task[t].call IN
    /\ AtLast(t, "walk") /\ Op(t) = "open" /\ Free(cur)
    /\ \/ /\ Has(cur, Last(t))
          /\ task' = [task EXCEPT ![t].pc = "opened", ![t].target = inodes[cur].entries[Last(t)]]
       \/ ~Has(cur, Last(t)) /\ c.creat /\ Goto(t, "create")
       \/ ~Has(cur, Last(t)) /\ ~c.creat /\ Return(t, "error")
    /\ UNCHANGED <<inodes, locked, fds, calls, changes>>

\* create_inode; if another thread was faster the file is looked up again,
\* but for O_EXCL.
OpenCreate(t) ==
    LET cur == task[t].cur
        c == task[t].call IN
    /\ AtLast(t, "create") /\ Op(t) = "open" /\ Free(cur)
    /\ \/ /\ ~Has(cur, Last(t))
          /\ CreateInode(cur, Last(t), File)
          /\ task' = [task EXCEPT ![t].pc = "opened", ![t].target = Cardinality(DOMAIN inodes)]
       \/ /\ Has(cur, Last(t)) /\ c.excl
          /\ Return(t, "error")
          /\ UNCHANGED <<inodes, locked, changes>>
       \/ /\ Has(cur, Last(t)) /\ ~c.excl
          /\ Goto(t, "refind")
          /\ UNCHANGED <<inodes, locked, changes>>
    /\ UNCHANGED <<fds, calls>>

OpenRefind(t) ==
    LET cur == task[t].cur IN
    /\ AtLast(t, "refind") /\ Op(t) = "open" /\ Free(cur)
    /\ \/ /\ Has(cur, Last(t))
          /\ task' = [task EXCEPT ![t].pc = "opened", ![t].target = inodes[cur].entries[Last(t)]]
       \/ ~Has(cur, Last(t)) /\ Return(t, "error")
    /\ UNCHANGED <<inodes, locked, fds, calls, changes>>

\* A directory cannot be opened for writing or truncated, and truncating needs
\* write access; otherwise the descriptor is made.
Opened(t) ==
    LET c == task[t].call
        refused == \/ inodes[task[t].target].dir /\ (c.access # "r" \/ c.trunc)
                   \/ c.trunc /\ c.access = "r" IN
    /\ task[t].pc = "opened" /\ Free(task[t].target)
    /\ \/ refused /\ Return(t, "error") /\ UNCHANGED fds
       \/ ~refused /\ Return(t, "ok") /\ fds' = Append(fds, task[t].target)
    /\ UNCHANGED <<inodes, locked, calls, changes>>

\* stat and readdir look up the whole path and change nothing.
Lookup(t) ==
    LET cur == task[t].cur IN
    /\ AtLast(t, "walk") /\ Op(t) = "stat" /\ Free(cur)
    /\ Return(t, IF Has(cur, Last(t)) THEN "ok" ELSE "error")
    /\ UNCHANGED <<inodes, locked, fds, calls, changes>>

-----------------------------------------------------------------------------
(***************************************************************************)
(* mkdir, mkdir_p                                                          *)
(***************************************************************************)

Mkdir(t) ==
    LET cur == task[t].cur IN
    /\ AtLast(t, "walk") /\ Op(t) = "mkdir" /\ Free(cur)
    /\ \/ ~Has(cur, Last(t)) /\ CreateInode(cur, Last(t), EmptyDir) /\ Return(t, "ok")
       \/ Has(cur, Last(t)) /\ Return(t, "error") /\ UNCHANGED <<inodes, locked, changes>>
    /\ UNCHANGED <<fds, calls>>

\* mkdir_p goes on with directory i.
Descend(t, i) ==
    IF Len(task[t].rest) = 1
    THEN Return(t, "ok")
    ELSE task' = [task EXCEPT ![t].pc = "walk", ![t].cur = i, ![t].rest = Tail(@)]

\* mkdir_p: one component is looked up, then made if it is missing, then looked
\* up again if another thread made something of that name; what that is, is
\* not checked.
MkdirP(t) ==
    LET cur == task[t].cur
        child == inodes[cur].entries[Last(t)] IN
    /\ task[t].pc \in {"walk", "create", "refind"} /\ Op(t) = "mkdir_p" /\ Free(cur)
    /\ \/ /\ ~inodes[cur].dir
          /\ Return(t, "error") /\ UNCHANGED <<inodes, locked, changes>>
       \/ /\ inodes[cur].dir /\ task[t].pc = "walk"
          /\ IF ~Has(cur, Last(t)) THEN Goto(t, "create")
             ELSE IF inodes[child].dir THEN Descend(t, child)
             ELSE Return(t, "error")
          /\ UNCHANGED <<inodes, locked, changes>>
       \/ /\ inodes[cur].dir /\ task[t].pc = "create" /\ ~Has(cur, Last(t))
          /\ CreateInode(cur, Last(t), EmptyDir)
          /\ Descend(t, Cardinality(DOMAIN inodes))
       \/ /\ inodes[cur].dir /\ task[t].pc = "create" /\ Has(cur, Last(t))
          /\ Goto(t, "refind") /\ UNCHANGED <<inodes, locked, changes>>
       \/ /\ inodes[cur].dir /\ task[t].pc = "refind"
          /\ IF Has(cur, Last(t)) THEN Descend(t, child) ELSE Return(t, "error")
          /\ UNCHANGED <<inodes, locked, changes>>
    /\ UNCHANGED <<fds, calls>>

-----------------------------------------------------------------------------
(***************************************************************************)
(* unlink and rmdir: look the target up, check it, remove whatever has the *)
(* name.                                                                   *)
(***************************************************************************)

RemoveFind(t) ==
    LET cur == task[t].cur IN
    /\ AtLast(t, "walk") /\ Op(t) \in {"unlink", "rmdir"} /\ Free(cur)
    /\ \/ /\ Has(cur, Last(t))
          /\ task' = [task EXCEPT ![t].pc = "check", ![t].target = inodes[cur].entries[Last(t)],
                                  ![t].seen = changes]
       \/ ~Has(cur, Last(t)) /\ Return(t, "error")
    /\ UNCHANGED <<inodes, locked, fds, calls, changes>>

\* Mutant: rmdir does not look whether the directory is empty.
RemoveCheckTypeOnly(t) ==
    LET target == task[t].target
        allowed == (Op(t) = "rmdir") = inodes[target].dir IN
    /\ task[t].pc = "check" /\ Free(target)
    /\ \/ allowed /\ Goto(t, "remove")
       \/ ~allowed /\ Return(t, "error")
    /\ UNCHANGED <<inodes, locked, fds, calls, changes>>

\* unlink wants a file, rmdir an empty directory.
RemoveCheck(t) ==
    LET target == task[t].target
        allowed == IF Op(t) = "unlink" THEN ~inodes[target].dir
                   ELSE inodes[target].dir /\ IsEmpty(target) IN
    /\ task[t].pc = "check" /\ Free(target)
    /\ \/ allowed /\ Goto(t, "remove")
       \/ ~allowed /\ Return(t, "error")
    /\ UNCHANGED <<inodes, locked, fds, calls, changes>>

Remove(t) ==
    LET cur == task[t].cur IN
    /\ task[t].pc = "remove" /\ Free(cur)
    /\ inodes' = [inodes EXCEPT ![cur].entries = Minus(@, Last(t))]
    /\ changes' = changes + 1
    /\ Return(t, "ok")
    /\ UNCHANGED <<locked, fds, calls>>

-----------------------------------------------------------------------------
(***************************************************************************)
(* rename                                                                  *)
(***************************************************************************)

\* The source is looked up; then the walk to the new parent starts.
RenameFind(t) ==
    LET cur == task[t].cur IN
    /\ AtLast(t, "walk") /\ Op(t) = "rename" /\ Free(cur)
    /\ \/ /\ Has(cur, Last(t))
          /\ task' = [task EXCEPT ![t].pc = "walkTo", ![t].cur = Root, ![t].rest = task[t].call.to,
                                  ![t].from = cur, ![t].name = Last(t), ![t].seen = changes,
                                  ![t].target = inodes[cur].entries[Last(t)]]
       \/ ~Has(cur, Last(t)) /\ Return(t, "error")
    /\ UNCHANGED <<inodes, locked, fds, calls, changes>>

\* The destination is looked up, if there is one ...
RenameFindTo(t) ==
    LET cur == task[t].cur IN
    /\ AtLast(t, "walkTo") /\ Free(cur)
    /\ \/ /\ Has(cur, Last(t))
          /\ task' = [task EXCEPT ![t].pc = "checkTo", ![t].dest = inodes[cur].entries[Last(t)]]
       \/ ~Has(cur, Last(t)) /\ Goto(t, "lock")
    /\ UNCHANGED <<inodes, locked, fds, calls, changes>>

\* ... and must be of the source's kind, and empty.
RenameCheck(t) ==
    LET dest == task[t].dest
        refused == \/ inodes[dest].dir # inodes[task[t].target].dir
                   \/ inodes[dest].dir /\ ~IsEmpty(dest) IN
    /\ task[t].pc = "checkTo" /\ Free(dest)
    /\ \/ refused /\ Return(t, "error")
       \/ ~refused /\ Goto(t, "lock")
    /\ UNCHANGED <<inodes, locked, fds, calls, changes>>

\* Mutant: the old parent is locked first, whatever its number.
RenameLockOldFirst(t) ==
    /\ task[t].pc = "lock" /\ task[t].from # task[t].cur
    /\ Free(task[t].from)
    /\ locked' = [locked EXCEPT ![task[t].from] = t]
    /\ Goto(t, "locked")
    /\ UNCHANGED <<inodes, fds, calls, changes>>

\* Two parents are locked in the order of their numbers: the first one ...
RenameLock(t) ==
    LET first == IF task[t].from < task[t].cur THEN task[t].from ELSE task[t].cur IN
    /\ task[t].pc = "lock" /\ task[t].from # task[t].cur
    /\ Free(first)
    /\ locked' = [locked EXCEPT ![first] = t]
    /\ Goto(t, "locked")
    /\ UNCHANGED <<inodes, fds, calls, changes>>

\* Mutant: the source keeps its old name.
RenameLinks(t) ==
    LET from == task[t].from
        to == task[t].cur IN
    /\ \/ task[t].pc = "lock" /\ from = to
       \/ task[t].pc = "locked"
    /\ \A i \in {from, to} : locked[i] \in {NoThread, t}
    /\ locked' = [i \in DOMAIN locked |-> IF i \in {from, to} THEN NoThread ELSE locked[i]]
    /\ Has(from, task[t].name)
    /\ inodes' = [inodes EXCEPT ![to].entries = Plus(@, Last(t), inodes[from].entries[task[t].name])]
    /\ changes' = changes + 1
    /\ Return(t, "ok")
    /\ UNCHANGED <<fds, calls>>

\* ... and, once the second (or the only one) is free, the entry is moved:
\* whatever now has the old name, over whatever now has the new one.
RenameMove(t) ==
    LET from == task[t].from
        to == task[t].cur
        name == task[t].name IN
    /\ \/ task[t].pc = "lock" /\ from = to
       \/ task[t].pc = "locked"
    /\ \A i \in {from, to} : locked[i] \in {NoThread, t}
    /\ locked' = [i \in DOMAIN locked |-> IF i \in {from, to} THEN NoThread ELSE locked[i]]
    /\ \/ /\ Has(from, name)
          /\ inodes' = [i \in DOMAIN inodes |->
                LET kept == IF i = from THEN Minus(inodes[i].entries, name) ELSE inodes[i].entries IN
                [inodes[i] EXCEPT !.entries =
                    IF i = to THEN Plus(kept, Last(t), inodes[from].entries[name]) ELSE kept]]
          /\ changes' = changes + 1
          /\ Return(t, "ok")
       \/ /\ ~Has(from, name)
          /\ Return(t, "error")
          /\ UNCHANGED <<inodes, changes>>
    /\ UNCHANGED <<fds, calls>>

-----------------------------------------------------------------------------

\* The call of t goes on.
Step(t) ==
    \/ Walk(t) \/ Lookup(t) \/ OpenFind(t) \/ OpenCreate(t) \/ OpenRefind(t) \/ Opened(t)
    \/ Mkdir(t) \/ MkdirP(t) \/ RemoveFind(t) \/ RemoveCheck(t) \/ Remove(t)
    \/ RenameFind(t) \/ RenameFindTo(t) \/ RenameCheck(t) \/ RenameLock(t) \/ RenameMove(t)

Next == \E t \in Threads : Begin(t) \/ Step(t)

Spec == Init /\ [][Next]_vars

\* A thread that can go on does.
FairSpec == Spec /\ \A t \in Threads : WF_vars(Step(t))

-----------------------------------------------------------------------------
(***************************************************************************)
(* Properties                                                              *)
(***************************************************************************)

Ids == DOMAIN inodes

\* The entries that lead to inode i.
Links(i) == {l \in Ids \X Names : Has(l[1], l[2]) /\ inodes[l[1]].entries[l[2]] = i}

\* Whatever threads rename and remove at the same time, an inode is entered in at
\* most one place (rename's "remove + insert" under its locks, fs.rs:1237-1285).
OneLink == \A i \in Ids : Cardinality(Links(i)) <= 1

\* What a call takes out of the tree is what it checked, unless some directory changed
\* since it looked its target up: unlink takes a file, rmdir an empty
\* directory, a rename replaces a file or an empty directory (fs.rs:1013,
\* 1130, 1228).
RemovesWhatItChecked ==
    [][ \A t \in Threads, i \in Ids :
          /\ task[t].pc # "idle" /\ task'[t].pc = "idle" /\ task[t].seen = changes
          /\ Links(i) # {} /\ Links(i)' = {}
          => IF Op(t) = "rmdir" THEN inodes[i].dir /\ IsEmpty(i)
             ELSE inodes[i].dir => Op(t) = "rename" /\ IsEmpty(i) ]_vars

\* "lock both parents in inode id order to avoid deadlock" (fs.rs:1251): every
\* call returns.
EveryCallReturns == \A t \in Threads : task[t].pc # "idle" ~> task[t].pc = "idle"

\* "Fail if file already exists (with O_CREAT)" (types.rs:12): an exclusive create never opens a
\* file that was there before.  The code violates this.
ExclusiveCreates ==
    [][ \A t \in Threads : task[t].pc = "walk" /\ task'[t].pc = "opened" =>
            ~(task[t].call.creat /\ task[t].call.excl) ]_vars

\* "Remove an empty directory" (fs.rs:1096): what hangs below a removed or replaced directory is
\* nothing.  Violated in the thread-safe build.
NothingLost ==
    \A i \in Ids \ {Root} : Links(i) = {} => IsEmpty(i)

\* The inodes that lie n or fewer levels above i.
Above[n \in Nat] ==
    [i \in Ids |-> IF n = 0 THEN {}
                   ELSE UNION {{l[1]} \union Above[n - 1][l[1]] : l \in Links(i)}]

\* No directory lies below itself.  Violated by a rename to a descendant
\* (fs.rs:1266), and by two renames that cross.
NoCycle == \A i \in Ids : i \notin Above[Cardinality(Ids)][i]
=============================================================================
