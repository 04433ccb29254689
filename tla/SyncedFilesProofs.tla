------------------------- MODULE SyncedFilesProofs -------------------------
(***************************************************************************)
(* What the operations of SyncedFiles keep, whoever calls them: the tree   *)
(* leads to inodes that exist, the files and the objects hold writes of    *)
(* one set only, and leases are counted up by one open and down by the     *)
(* writers that are closed.                                                *)
(***************************************************************************)
EXTENDS SyncedFiles, FiniteSetTheorems, TLAPS

\* The files f hold writes of the set W, and the tree leads to inodes.
Inodes(W) == [dir : BOOLEAN, writes : SUBSET W]
FilesIn(f, W) ==
    /\ f.nodes \in Seq(Inodes(W))
    /\ f.tree \in [DOMAIN f.tree -> 1 .. Len(f.nodes)]

\* The objects in S3 do, too.
StoreIn(W) == store \in [Paths -> SUBSET Object(W)]

\* Descriptors lead to inodes, too, and are numbered below nextFd.
FdRecords(n) == [inode : 1 .. n, path : Paths, write : BOOLEAN, pos : Nat]
FdsOK ==
    /\ nextFd \in Nat /\ nextFd >= 3
    /\ DOMAIN fds \subseteq 3 .. nextFd - 1
    /\ fds \in [DOMAIN fds -> FdRecords(Len(nodes))]

LeaseRecords == [refs : Nat, dirty : BOOLEAN, delete : BOOLEAN]
LeasesOK == leases \in [Paths -> LeaseRecords]

\* The references of no lease change.
SameRefs == \A p \in Paths : leases'[p].refs = leases[p].refs

\* The descriptors keep path and mode.
SameWriters ==
    /\ DOMAIN fds' = DOMAIN fds
    /\ \A x \in DOMAIN fds : fds'[x].path = fds[x].path /\ fds'[x].write = fds[x].write

-----------------------------------------------------------------------------
\* A set of numbers with a bound has a maximum.
LEMMA MaxOfBounded ==
    ASSUME NEW S \in SUBSET Nat, S # {}, NEW b \in Nat, \A x \in S : x <= b
    PROVE  Max(S) \in S /\ \A x \in S : x <= Max(S)
<1> DEFINE Above(y) == {x \in S : x > y}
           T == {Above(y) : y \in S}
<1>1. IsFiniteSet(S)
    BY FS_BoundedSetOfNaturals
<1>2. T \subseteq FiniteSubsetsOf(S) /\ T # {}
    <2>1. PICK y \in S : TRUE
        OBVIOUS
    <2>2. Above(y) \in T
        OBVIOUS
    <2>3. FiniteSubsetsOf(S) = SUBSET S
        BY <1>1, FS_FiniteSubsetsOfFinite
    <2>4. ASSUME NEW U \in T PROVE U \in SUBSET S
        OBVIOUS
    <2> QED BY <2>2, <2>3, <2>4
<1>3. PICK U \in T : \A V \in T : ~(<<V, U>> \in StrictSubsetOrdering(S))
    <2> HIDE DEF T
    <2> QED BY <1>2, WFMin, FS_StrictSubsetOrderingWellFounded
<1>5. PICK y \in S : U = Above(y)
    OBVIOUS
<1>6. ASSUME NEW z \in S, z > y PROVE FALSE
    <2>0. z \in U /\ z \notin Above(z) /\ \A x \in Above(z) : x > y
        BY <1>5, <1>6
    <2>1. Above(z) \in T /\ Above(z) \subseteq U /\ Above(z) # U
        BY <1>5, <2>0
    <2>2. <<Above(z), U>> \in StrictSubsetOrdering(S)
        BY <2>1 DEF StrictSubsetOrdering
    <2> QED BY <1>3, <2>1, <2>2
<1>4. \E x \in S : \A z \in S : x >= z
    BY <1>6
<1> QED BY <1>4 DEF Max

\* More writes are allowed in the files, and more inodes for the descriptors.
LEMMA FilesInMore ==
    ASSUME NEW f, NEW W, NEW V, W \subseteq V, FilesIn(f, W)
    PROVE  FilesIn(f, V)
<1>1. Inodes(W) \subseteq Inodes(V)
    BY DEF Inodes
<1>2. f.nodes \in Seq(Inodes(V))
    BY <1>1 DEF FilesIn
<1> QED BY <1>2 DEF FilesIn

\* A path of the tree leads to an inode with writes of W.
LEMMA FileAt ==
    ASSUME NEW f, NEW W, FilesIn(f, W), NEW p \in DOMAIN f.tree
    PROVE  f.tree[p] \in 1 .. Len(f.nodes) /\ f.nodes[f.tree[p]] \in Inodes(W)
BY DEF FilesIn

\* Replacing the writes of an inode.
LEMMA ReplacedIn ==
    ASSUME NEW f, NEW W, FilesIn(f, W), NEW i \in 1 .. Len(f.nodes), NEW V \in SUBSET W
    PROVE  LET g == Replaced(f, i, V) IN FilesIn(g, W) /\ Len(g.nodes) = Len(f.nodes) /\ g.tree = f.tree
<1> DEFINE ns == [f.nodes EXCEPT ![i].writes = V]
<1>1. f.nodes \in Seq(Inodes(W))
    BY DEF FilesIn
<1>2. f.nodes[i] \in Inodes(W)
    BY <1>1
<1>3. [f.nodes[i] EXCEPT !.writes = V] \in Inodes(W)
    BY <1>2 DEF Inodes
<1>4. ns = [f.nodes EXCEPT ![i] = [f.nodes[i] EXCEPT !.writes = V]]
    OBVIOUS
<1>5. ns \in Seq(Inodes(W)) /\ Len(ns) = Len(f.nodes)
    BY <1>1, <1>3, <1>4
<1>6. Replaced(f, i, V).nodes = ns /\ Replaced(f, i, V).tree = f.tree
    BY DEF Replaced
<1> HIDE DEF ns
<1> QED BY <1>5, <1>6 DEF FilesIn

\* A new file, and new directories: the tree leads to inodes still, and there are
\* no fewer of them.
LEMMA NewFileIn ==
    ASSUME NEW f, NEW W, FilesIn(f, W), NEW p, NEW V \in SUBSET W
    PROVE  LET g == NewFile(f, p, V) IN
           FilesIn(g, W) /\ Len(g.nodes) = Len(f.nodes) + 1 /\ p \in DOMAIN g.tree
<1> DEFINE n == [dir |-> FALSE, writes |-> V]
           ns == Append(f.nodes, n)
           t == With(f.tree, p, Len(f.nodes) + 1)
<1>1. f.nodes \in Seq(Inodes(W)) /\ n \in Inodes(W) /\ Len(f.nodes) \in Nat
    BY DEF FilesIn, Inodes
<1>2. ns \in Seq(Inodes(W)) /\ Len(ns) = Len(f.nodes) + 1
    <2> HIDE DEF n
    <2> QED BY <1>1
<1>3. t \in [DOMAIN t -> 1 .. Len(f.nodes) + 1] /\ p \in DOMAIN t
    BY <1>1 DEF FilesIn, With
<1>4. NewFile(f, p, V).nodes = ns /\ NewFile(f, p, V).tree = t
    BY DEF NewFile
<1> HIDE DEF ns, t
<1> QED BY <1>2, <1>3, <1>4 DEF FilesIn

LEMMA NewDirsIn ==
    ASSUME NEW f, NEW W, FilesIn(f, W), NEW new, IsFiniteSet(new), \A q \in new : Len(q) \in Nat
    PROVE  LET g == NewDirs(f, new) IN
           FilesIn(g, W) /\ Len(g.nodes) >= Len(f.nodes) /\ DOMAIN g.tree = DOMAIN f.tree \union new
<1> DEFINE n == Cardinality(new)
           dirs == [k \in 1 .. n |-> [dir |-> TRUE, writes |-> {}]]
           ns == f.nodes \o dirs
           Place(q) == Cardinality({r \in new : Len(r) <= Len(q)})
           t == [q \in DOMAIN f.tree \union new |-> IF q \in new THEN Len(f.nodes) + Place(q) ELSE f.tree[q]]
<1>1. f.nodes \in Seq(Inodes(W)) /\ Len(f.nodes) \in Nat
    BY DEF FilesIn
<1>2. n \in Nat
    BY FS_CardinalityType
<1>3. dirs \in Seq(Inodes(W)) /\ Len(dirs) = n
    <2>1. [dir |-> TRUE, writes |-> {}] \in Inodes(W)
        BY DEF Inodes
    <2> DEFINE d == [dir |-> TRUE, writes |-> {}]
    <2> HIDE DEF n, d
    <2> QED BY <1>2, <2>1 DEF d
<1>4. ns \in Seq(Inodes(W)) /\ Len(ns) = Len(f.nodes) + n
    <2> HIDE DEF n, dirs
    <2> QED BY <1>1, <1>2, <1>3
<1>5. ASSUME NEW q \in new PROVE Place(q) \in 1 .. n
    <2> DEFINE before == {r \in new : Len(r) <= Len(q)}
    <2>1. before \in SUBSET new
        OBVIOUS
    <2>2. IsFiniteSet(before) /\ Cardinality(before) <= n
        BY <2>1, FS_Subset
    <2>3. Cardinality(before) \in Nat
        BY <2>2, FS_CardinalityType
    <2>4. q \in before
        OBVIOUS
    <2>5. Cardinality(before) # 0
        BY <2>4, <2>2, FS_EmptySet
    <2> HIDE DEF before, n
    <2>6. Cardinality(before) \in 1 .. n
        BY <2>2, <2>3, <2>5, <1>2
    <2> QED BY <2>6 DEF before
<1>6. t \in [DOMAIN t -> 1 .. Len(f.nodes) + n]
    <2> HIDE DEF n, Place
    <2> QED BY <1>1, <1>2, <1>5 DEF FilesIn
<1>7. NewDirs(f, new).nodes = ns /\ NewDirs(f, new).tree = t
    BY DEF NewDirs
<1> HIDE DEF ns, t, n
<1>8. DOMAIN t = DOMAIN f.tree \union new
    BY DEF t
<1> QED BY <1>1, <1>2, <1>4, <1>6, <1>7, <1>8 DEF FilesIn

\* mkdir and mkdir_p
LEMMA MissingFinite ==
    ASSUME NEW p \in Seq(STRING)
    PROVE  IsFiniteSet(Missing(p)) /\ \A q \in Missing(p) : Len(q) \in Nat
<1> DEFINE all == {SubSeq(p, 1, k) : k \in 1 .. Len(p)}
           F == [k \in 1 .. Len(p) |-> SubSeq(p, 1, k)]
<1>1. F \in Surjection(1 .. Len(p), all)
    BY DEF Surjection
<1>2. IsFiniteSet(1 .. Len(p))
    BY FS_Interval
<1>3. IsFiniteSet(all)
    <2> HIDE DEF all, F
    <2> QED BY <1>1, <1>2, FS_Surjection
<1>4. Missing(p) \in SUBSET all
    BY DEF Missing
<1>5. IsFiniteSet(Missing(p))
    BY <1>3, <1>4, FS_Subset
<1>6. \A k \in 1 .. Len(p) : Len(SubSeq(p, 1, k)) = k
    OBVIOUS
<1> QED BY <1>4, <1>5, <1>6

LEMMA MakeDirIn ==
    ASSUME NEW W, FilesIn(Files, W), NEW p \in Seq(STRING), NEW all, MakeDir(p, all)
    PROVE  FilesIn(Files', W) /\ Len(nodes') >= Len(nodes)
<1> DEFINE new == IF all THEN Missing(p) ELSE {p}
<1>1. IsFiniteSet(new) /\ \A q \in new : Len(q) \in Nat
    <2>1. CASE all
        <3>1. new = Missing(p)
            BY <2>1
        <3> QED BY <3>1, MissingFinite
    <2>2. CASE ~all
        <3>1. new = {p} /\ Len(p) \in Nat
            BY <2>2
        <3> HIDE DEF new
        <3>2. IsFiniteSet(new)
            BY <3>1, FS_Singleton
        <3> QED BY <3>1, <3>2
    <2> QED BY <2>1, <2>2
<1> HIDE DEF new
<1>2. FilesIn(NewDirs(Files, new), W) /\ Len(NewDirs(Files, new).nodes) >= Len(Files.nodes)
    BY <1>1, NewDirsIn
<1>3. nodes' = NewDirs(Files, new).nodes /\ tree' = NewDirs(Files, new).tree
    BY DEF MakeDir, new
<1> QED BY <1>2, <1>3 DEF FilesIn, Files

\* write_file_content: the file gets the writes of an object.
LEMMA DownloadedIn ==
    ASSUME NEW W, FilesIn(Files, W), StoreIn(W), NEW p \in Paths
    PROVE  FilesIn(Downloaded(p), W) /\ Len(Downloaded(p).nodes) >= Len(nodes)
<1>1. Content(p) \in SUBSET W
    BY DEF StoreIn, Object, Content
<1>2. CASE Exists(p)
    <2>1. tree[p] \in 1 .. Len(nodes)
        BY <1>2 DEF Exists, ExistsIn, FilesIn, Files
    <2> DEFINE g == Replaced(Files, tree[p], Content(p))
    <2>2. FilesIn(g, W) /\ Len(g.nodes) = Len(nodes)
        BY <1>1, <2>1, ReplacedIn DEF Files
    <2>3. Downloaded(p) = g /\ Len(nodes) \in Nat
        BY <1>2 DEF Downloaded, FilesIn, Files
    <2> HIDE DEF g
    <2> QED BY <2>2, <2>3
<1>3. CASE ~Exists(p)
    <2>1. Parent(p) \in Seq(STRING)
        BY FilesAssumption DEF Parent
    <2> DEFINE f == NewDirs(Files, Missing(Parent(p)))
    <2>2. FilesIn(f, W) /\ Len(f.nodes) >= Len(nodes)
        BY <2>1, MissingFinite, NewDirsIn DEF Files
    <2> HIDE DEF f
    <2>3. FilesIn(NewFile(f, p, Content(p)), W) /\ Len(NewFile(f, p, Content(p)).nodes) = Len(f.nodes) + 1
        BY <1>1, <2>2, NewFileIn
    <2>4. Downloaded(p) = NewFile(f, p, Content(p))
        BY <1>3 DEF Downloaded, f
    <2>5. Len(f.nodes) \in Nat /\ Len(nodes) \in Nat
        BY <2>2 DEF FilesIn, Files
    <2> QED BY <2>2, <2>3, <2>4, <2>5
<1> QED BY <1>2, <1>3

\* rename
LEMMA RenamedIn ==
    ASSUME NEW W, FilesIn(Files, W), NEW old, NEW new, tree' = Renamed(old, new), UNCHANGED nodes
    PROVE  FilesIn(Files', W)
<1> DEFINE moved == {p \in DOMAIN tree : p = old \/ Under(p, old)}
           Origin(q) == old \o SubSeq(q, Len(new) + 1, Len(q))
           target == IF Under(new, old) THEN {}
                     ELSE {q \in Paths : (q = new \/ Under(q, new)) /\ Origin(q) \in moved}
<1>1. CASE old = new
    BY <1>1 DEF Renamed, FilesIn, Files
<1>2. CASE old # new
    <2>1. tree' = [q \in (DOMAIN tree \ moved) \union target |-> IF q \in target THEN tree[Origin(q)] ELSE tree[q]]
        BY <1>2 DEF Renamed
    <2>2. \A q \in target : Origin(q) \in DOMAIN tree
        OBVIOUS
    <2>3. \A q \in DOMAIN tree : tree[q] \in 1 .. Len(nodes)
        BY DEF FilesIn, Files
    <2> HIDE DEF target, Origin
    <2>4. tree' \in [DOMAIN tree' -> 1 .. Len(nodes)]
        BY <2>1, <2>2, <2>3
    <2> QED BY <2>4 DEF FilesIn, Files
<1> QED BY <1>1, <1>2

-----------------------------------------------------------------------------
(***************************************************************************)
(* Descriptors                                                             *)
(***************************************************************************)

\* Descriptors stay what they are when inodes are added.
LEMMA FdsGrow ==
    ASSUME FdsOK, UNCHANGED <<fds, nextFd>>, Len(nodes) \in Nat, Len(nodes') \in Nat, Len(nodes') >= Len(nodes)
    PROVE  FdsOK'
<1>1. FdRecords(Len(nodes)) \subseteq FdRecords(Len(nodes'))
    BY DEF FdRecords
<1>2. fds \in [DOMAIN fds -> FdRecords(Len(nodes'))]
    BY <1>1 DEF FdsOK
<1> QED BY <1>2 DEF FdsOK

\* open_path_with_flags adds one descriptor, with the next number.
LEMMA OpenFileIn ==
    ASSUME NEW W, NEW f, FilesIn(f, W), Len(nodes) \in Nat, Len(f.nodes) >= Len(nodes), FdsOK,
           NEW p, NEW path \in Paths, NEW write \in BOOLEAN, NEW trunc \in BOOLEAN,
           OpenFile(f, p, path, write, trunc)
    PROVE  /\ FilesIn(Files', W) /\ Len(nodes') >= Len(nodes) /\ FdsOK'
           /\ DOMAIN fds' = DOMAIN fds \union {nextFd} /\ nextFd' = nextFd + 1
           /\ fds'[nextFd].path = path /\ fds'[nextFd].write = write
           /\ \A x \in DOMAIN fds : fds'[x] = fds[x]
<1> DEFINE g == CASE ~ExistsIn(f, p) -> NewFile(f, p, {})
                  [] ExistsIn(f, p) /\ trunc -> Replaced(f, f.tree[p], {})
                  [] OTHER -> f
           r == [inode |-> g.tree[p], path |-> path, write |-> write, pos |-> 0]
<1>1. FilesIn(g, W) /\ Len(g.nodes) >= Len(f.nodes) /\ p \in DOMAIN g.tree /\ Len(f.nodes) \in Nat
    <2>0. Len(f.nodes) \in Nat
        BY DEF FilesIn
    <2>1. CASE ~ExistsIn(f, p)
        <3>1. g = NewFile(f, p, {})
            BY <2>1
        <3> HIDE DEF g
        <3> QED BY <2>0, <3>1, NewFileIn
    <2>2. CASE ExistsIn(f, p) /\ trunc
        <3>1. g = Replaced(f, f.tree[p], {}) /\ p \in DOMAIN f.tree
            BY <2>2 DEF ExistsIn
        <3>2. f.tree[p] \in 1 .. Len(f.nodes)
            BY <3>1 DEF FilesIn
        <3> HIDE DEF g
        <3> QED BY <2>0, <3>1, <3>2, ReplacedIn
    <2>3. CASE ExistsIn(f, p) /\ ~trunc
        BY <2>0, <2>3 DEF ExistsIn
    <2> QED BY <2>1, <2>2, <2>3
<1>2. nodes' = g.nodes /\ tree' = g.tree /\ fds' = With(fds, nextFd, r) /\ nextFd' = nextFd + 1
    BY DEF OpenFile
<1> HIDE DEF g
<1>3. FilesIn(Files', W) /\ Len(nodes') \in Nat /\ Len(nodes') >= Len(nodes)
    BY <1>1, <1>2 DEF FilesIn, Files
<1>4. r \in FdRecords(Len(nodes'))
    BY <1>1, <1>2 DEF FdRecords, FilesIn
<1>5. r.path = path /\ r.write = write
    OBVIOUS
<1> HIDE DEF r
<1>6. DOMAIN fds' = DOMAIN fds \union {nextFd} /\ fds'[nextFd] = r
    BY <1>2 DEF With
<1>7. nextFd \notin DOMAIN fds
    BY DEF FdsOK
<1>8. \A x \in DOMAIN fds : fds'[x] = fds[x]
    BY <1>2, <1>7 DEF With
<1>9. \A x \in DOMAIN fds : fds[x] \in FdRecords(Len(nodes'))
    <2>1. FdRecords(Len(nodes)) \subseteq FdRecords(Len(nodes'))
        BY <1>3 DEF FdRecords
    <2> QED BY <2>1 DEF FdsOK
<1>10. fds' \in [DOMAIN fds' -> FdRecords(Len(nodes'))]
    <2>1. fds' = [x \in DOMAIN fds' |-> fds'[x]]
        BY <1>2 DEF With
    <2> QED BY <2>1, <1>4, <1>6, <1>8, <1>9
<1>11. nextFd' \in Nat /\ nextFd' >= 3 /\ DOMAIN fds' \subseteq 3 .. nextFd' - 1
    BY <1>2, <1>6 DEF FdsOK
<1>12. FdsOK'
    BY <1>10, <1>11 DEF FdsOK
<1> QED BY <1>2, <1>3, <1>5, <1>6, <1>8, <1>12

\* Closing descriptors, and moving the position of one.
LEMMA FdsClose ==
    ASSUME FdsOK, NEW closed, fds' = Without(fds, closed), UNCHANGED <<nodes, nextFd>>
    PROVE  /\ FdsOK'
           /\ DOMAIN fds' = DOMAIN fds \ closed
           /\ \A x \in DOMAIN fds' : fds'[x] = fds[x]
BY DEF FdsOK, Without

\* The position of fd moves.
Moved(fd, n) == fds' = [fds EXCEPT ![fd].pos = n]
LEMMA FdsMove ==
    ASSUME FdsOK, NEW fd, fd \in DOMAIN fds, NEW n \in Nat, Moved(fd, n), UNCHANGED nextFd,
           Len(nodes') = Len(nodes)
    PROVE  /\ FdsOK' /\ SameWriters
           /\ fds'[fd].pos = n
           /\ \A x \in DOMAIN fds : x # fd => fds'[x] = fds[x]
<1>1. fds[fd] \in FdRecords(Len(nodes))
    BY DEF FdsOK
<1> DEFINE r == [fds[fd] EXCEPT !.pos = n]
<1>2. /\ r \in FdRecords(Len(nodes)) /\ r.pos = n
      /\ r.path = fds[fd].path /\ r.write = fds[fd].write /\ r.inode = fds[fd].inode
    BY <1>1 DEF FdRecords
<1>3. fds' = [fds EXCEPT ![fd] = r]
    BY DEF Moved
<1> HIDE DEF r
<1>4. fds' \in [DOMAIN fds -> FdRecords(Len(nodes))] /\ DOMAIN fds' = DOMAIN fds
    BY <1>2, <1>3 DEF FdsOK
<1>5. fds'[fd] = r /\ \A x \in DOMAIN fds : x # fd => fds'[x] = fds[x]
    BY <1>3
<1>6. FdsOK'
    BY <1>4 DEF FdsOK
<1> QED BY <1>2, <1>4, <1>5, <1>6 DEF SameWriters

\* An inode holds writes of W.
LEMMA WritesOf ==
    ASSUME NEW W, FilesIn(Files, W), NEW i \in 1 .. Len(nodes)
    PROVE  nodes[i] \in Inodes(W) /\ nodes[i].writes \in SUBSET W
<1>1. nodes \in Seq(Inodes(W))
    BY DEF FilesIn, Files
<1>2. nodes[i] \in Inodes(W)
    BY <1>1
<1> QED BY <1>2 DEF Inodes

\* write, write_at, append_write
LEMMA WriteFileIn ==
    ASSUME NEW W, FilesIn(Files, W), NEW i \in 1 .. Len(nodes), NEW c, NEW at, NEW data,
           \A k \in DOMAIN data : [c |-> c, n |-> data[k], at |-> at + k - 1] \in W,
           WriteFile(i, c, at, data), UNCHANGED tree
    PROVE  FilesIn(Files', W) /\ Len(nodes') = Len(nodes)
<1> DEFINE new == {[c |-> c, n |-> data[k], at |-> at + k - 1] : k \in DOMAIN data}
<1>1. nodes[i].writes \in SUBSET W
    BY WritesOf
<1>2. new \in SUBSET W
    OBVIOUS
<1>3. nodes' = [nodes EXCEPT ![i].writes = nodes[i].writes \union new]
    BY DEF WriteFile
<1> HIDE DEF new
<1>4. nodes[i].writes \union new \in SUBSET W
    BY <1>1, <1>2
<1> DEFINE g == Replaced(Files, i, nodes[i].writes \union new)
<1>5. FilesIn(g, W) /\ Len(g.nodes) = Len(nodes)
    BY <1>4, ReplacedIn DEF Files
<1>6. g.nodes = nodes' /\ g.tree = tree
    BY <1>3 DEF Replaced, Files
<1> HIDE DEF g
<1> QED BY <1>5, <1>6 DEF FilesIn, Files

\* A file has a size when the offsets of the writes have a bound.
LEMMA SizeIsNat ==
    ASSUME NEW W, NEW b \in Nat, \A w \in W : w.at \in 0 .. b, FilesIn(Files, W), NEW i \in 1 .. Len(nodes)
    PROVE  Size(i) \in 0 .. b + 1 /\ \A w \in nodes[i].writes : w.at < Size(i)
<1> DEFINE S == {0} \union {w.at + 1 : w \in nodes[i].writes}
<1>1. nodes[i].writes \subseteq W
    BY WritesOf
<1>2. S \in SUBSET Nat /\ \A x \in S : x <= b + 1
    BY <1>1
<1>3. 0 \in S /\ \A w \in nodes[i].writes : w.at + 1 \in S
    OBVIOUS
<1>4. Size(i) = Max(S)
    BY DEF Size
<1> HIDE DEF S
<1>5. Max(S) \in S /\ \A x \in S : x <= Max(S)
    <2>1. S # {} /\ b + 1 \in Nat
        BY <1>3
    <2> QED BY <1>2, <2>1, MaxOfBounded
<1>6. Max(S) \in 0 .. b + 1
    <2>1. Max(S) \in Nat /\ Max(S) <= b + 1
        BY <1>2, <1>5
    <2> QED BY <2>1
<1>7. ASSUME NEW w \in nodes[i].writes PROVE w.at < Max(S)
    <2>1. w.at \in Nat /\ w.at + 1 <= Max(S)
        BY <1>1, <1>3, <1>5
    <2> QED BY <2>1, <1>6
<1> QED BY <1>4, <1>6, <1>7

-----------------------------------------------------------------------------
(***************************************************************************)
(* The sync manager                                                        *)
(***************************************************************************)

\* The file that a path leads to holds writes of W.
LEMMA FileWrites ==
    ASSUME NEW W, FilesIn(Files, W), NEW p, IsFile(p)
    PROVE  nodes[tree[p]].writes \in SUBSET W
<1>1. tree[p] \in 1 .. Len(nodes)
    BY DEF IsFile, Exists, ExistsIn, FilesIn, Files
<1> QED BY <1>1, WritesOf

\* dirty is set or cleared: SameRefs.
LEMMA LeaseMarked ==
    ASSUME LeasesOK, NEW p, NEW d \in BOOLEAN, leases' = [leases EXCEPT ![p].dirty = d]
    PROVE  LeasesOK' /\ SameRefs
<1> DEFINE l == [leases[p] EXCEPT !.dirty = d]
<1>1. p \in Paths => l \in LeaseRecords /\ l.refs = leases[p].refs
    BY DEF LeasesOK, LeaseRecords
<1>2. leases' = [leases EXCEPT ![p] = l]
    BY Zenon
<1> HIDE DEF l
<1>3. LeasesOK' /\ \A q \in Paths : leases'[q] = IF q = p THEN l ELSE leases[q]
    BY <1>1, <1>2 DEF LeasesOK
<1> QED BY <1>1, <1>3 DEF SameRefs

LEMMA LeaseMarkedTwice ==
    ASSUME LeasesOK, NEW p, NEW d \in BOOLEAN, NEW e \in BOOLEAN,
           leases' = [leases EXCEPT ![p].dirty = d, ![p].delete = e]
    PROVE  LeasesOK' /\ SameRefs
<1> DEFINE l == [leases[p] EXCEPT !.dirty = d, !.delete = e]
<1>1. p \in Paths => l \in LeaseRecords /\ l.refs = leases[p].refs
    BY DEF LeasesOK, LeaseRecords
<1>2. leases' = [leases EXCEPT ![p] = l]
    <2>1. CASE p \in Paths
        BY <2>1 DEF LeasesOK
    <2>2. CASE p \notin Paths
        BY <2>2 DEF LeasesOK
    <2> QED BY <2>1, <2>2
<1> HIDE DEF l
<1>3. LeasesOK' /\ \A q \in Paths : leases'[q] = IF q = p THEN l ELSE leases[q]
    BY <1>1, <1>2 DEF LeasesOK
<1> QED BY <1>1, <1>3 DEF SameRefs

\* enqueue_upload and enqueue_delete
LEMMA EnqueueKeeps ==
    ASSUME LeasesOK, NEW p, EnqueueUpload(p) \/ EnqueueDelete(p)
    PROVE  LeasesOK' /\ SameRefs
<1>1. CASE UNCHANGED leases
    BY <1>1 DEF LeasesOK, SameRefs
<1>2. CASE leases' = [leases EXCEPT ![p].dirty = TRUE, ![p].delete = FALSE]
    BY <1>2, LeaseMarkedTwice
<1>3. CASE leases' = [leases EXCEPT ![p].dirty = FALSE, ![p].delete = TRUE]
    BY <1>3, LeaseMarkedTwice
<1> QED BY <1>1, <1>2, <1>3 DEF EnqueueUpload, EnqueueDelete

\* refresh_file_from_s3
LEMMA RefreshIn ==
    ASSUME NEW W, FilesIn(Files, W), StoreIn(W), NEW p \in Paths, RefreshFile(p)
    PROVE  FilesIn(Files', W) /\ Len(nodes') >= Len(nodes)
<1>0. Len(nodes) \in Nat
    BY DEF FilesIn, Files
<1>1. CASE Fetches(p)
    <2>1. nodes' = Downloaded(p).nodes /\ tree' = Downloaded(p).tree
        BY <1>1 DEF RefreshFile
    <2>2. FilesIn(Downloaded(p), W) /\ Len(Downloaded(p).nodes) >= Len(nodes)
        BY DownloadedIn
    <2> QED BY <2>1, <2>2 DEF FilesIn, Files
<1>2. CASE ~Fetches(p)
    BY <1>0, <1>2 DEF RefreshFile, FilesIn, Files
<1> QED BY <1>1, <1>2

\* on_open_write: a reference more, or nothing; and what it downloads.
LEMMA OnOpenWriteKeeps ==
    ASSUME NEW W, FilesIn(Files, W), StoreIn(W), LeasesOK, NEW p \in Paths, NEW ok, OnOpenWrite(p, ok)
    PROVE  /\ StoreIn(W)' /\ LeasesOK'
           /\ \A q \in Paths : leases'[q].refs =
                  IF q = p /\ OpenAnswer(p, ok) = "Ok" THEN leases[q].refs + 1 ELSE leases[q].refs
<1>1. StoreIn(W)'
    <2>1. CASE OpenAnswer(p, ok) = "Ok" /\ OpenSends(p)
        <3>1. IsFile(p)
            <4>1. ~Leased(p)
                BY <2>1 DEF OpenSends
            <4>2. CASE p \in foreign
                <5>1. OpenAnswer(p, ok) = "Busy"
                    BY <4>1, <4>2 DEF OpenAnswer
                <5> QED BY <2>1, <5>1
            <4>3. CASE p \notin foreign
                BY <2>1, <4>1, <4>3 DEF OpenAnswer
            <4> QED BY <4>2, <4>3
        <3>2. store' = [store EXCEPT ![p] = Object(nodes[tree[p]].writes)]
            BY <2>1 DEF OnOpenWrite
        <3>3. nodes[tree[p]].writes \in SUBSET W
            BY <3>1, FileWrites
        <3> QED BY <3>2, <3>3 DEF StoreIn, Object
    <2>2. CASE ~(OpenAnswer(p, ok) = "Ok" /\ OpenSends(p))
        BY <2>2 DEF OnOpenWrite, StoreIn
    <2> QED BY <2>1, <2>2
<1>2. CASE OpenAnswer(p, ok) = "Ok"
    <2> DEFINE l == [leases[p] EXCEPT !.refs = @ + 1]
    <2>1. l \in LeaseRecords /\ l.refs = leases[p].refs + 1
        BY DEF LeasesOK, LeaseRecords
    <2>2. leases' = [leases EXCEPT ![p] = l]
        BY <1>2 DEF OnOpenWrite
    <2> HIDE DEF l
    <2>3. LeasesOK' /\ \A q \in Paths : leases'[q] = IF q = p THEN l ELSE leases[q]
        BY <2>1, <2>2 DEF LeasesOK
    <2> QED BY <1>1, <1>2, <2>1, <2>3
<1>3. CASE OpenAnswer(p, ok) # "Ok"
    BY <1>1, <1>3 DEF OnOpenWrite, LeasesOK
<1> QED BY <1>2, <1>3

LEMMA OpenFilesIn ==
    ASSUME NEW W, FilesIn(Files, W), StoreIn(W), NEW p \in Paths, NEW ok
    PROVE  FilesIn(OpenFiles(p, ok), W) /\ Len(OpenFiles(p, ok).nodes) >= Len(nodes)
<1>0. Len(nodes) \in Nat /\ Files.nodes = nodes
    BY DEF FilesIn, Files
<1>1. CASE OpenDownloads(p, ok)
    BY <1>1, DownloadedIn DEF OpenFiles
<1>2. CASE ~OpenDownloads(p, ok)
    BY <1>0, <1>2 DEF OpenFiles
<1> QED BY <1>1, <1>2

\* The hook for a write
LEMMA OnWriteKeeps ==
    ASSUME NEW W, FilesIn(Files', W), UNCHANGED tree, StoreIn(W), LeasesOK, NEW p, NEW ok, OnWrite(p, ok)
    PROVE  StoreIn(W)' /\ LeasesOK' /\ SameRefs
<1>1. CASE config.realtime /\ ok /\ IsFile(p)
    <2>1. Upload(p)
        BY <1>1 DEF OnWrite
    <2>2. tree'[p] \in 1 .. Len(nodes')
        BY <1>1 DEF IsFile, Exists, ExistsIn, FilesIn, Files
    <2>3. nodes' \in Seq(Inodes(W))
        BY DEF FilesIn, Files
    <2>4. nodes'[tree'[p]] \in Inodes(W)
        BY <2>2, <2>3
    <2>5. nodes'[tree'[p]].writes \in SUBSET W
        BY <2>4 DEF Inodes
    <2>6. StoreIn(W)'
        BY <2>1, <2>5 DEF Upload, StoreIn, Object
    <2>7. LeasesOK' /\ SameRefs
        BY <2>1, LeaseMarked DEF Upload
    <2> QED BY <2>6, <2>7
<1>2. CASE config.realtime /\ ~(ok /\ IsFile(p))
    BY <1>2 DEF OnWrite, StoreIn, LeasesOK, SameRefs
<1>3. CASE ~config.realtime
    <2>1. EnqueueUpload(p) /\ UNCHANGED store
        BY <1>3 DEF OnWrite
    <2>2. LeasesOK' /\ SameRefs
        BY <2>1, EnqueueKeeps
    <2> QED BY <2>1, <2>2 DEF StoreIn
<1> QED BY <1>1, <1>2, <1>3

\* on_fsync
LEMMA OnFsyncKeeps ==
    ASSUME NEW W, FilesIn(Files, W), StoreIn(W), LeasesOK, NEW p, NEW ok, OnFsync(p, ok)
    PROVE  StoreIn(W)' /\ LeasesOK' /\ SameRefs
<1>1. CASE FsyncPushes(p) /\ FsyncSucceeds(p, ok)
    <2>1. /\ CanPush(p)
          /\ store' = [store EXCEPT ![p] = Pushed(p)]
          /\ leases' = [leases EXCEPT ![p].dirty = FALSE]
        BY <1>1 DEF OnFsync, FsyncSucceeds
    <2>2. Pushed(p) \in SUBSET Object(W)
        BY <2>1, FileWrites DEF CanPush, Pushed, Object
    <2>3. StoreIn(W)'
        BY <2>1, <2>2 DEF StoreIn
    <2> QED BY <2>1, <2>3, LeaseMarked
<1>2. CASE ~(FsyncPushes(p) /\ FsyncSucceeds(p, ok))
    BY <1>2 DEF OnFsync, StoreIn, LeasesOK, SameRefs
<1> QED BY <1>1, <1>2

\* flush_outbound
LEMMA FlushOneKeeps ==
    ASSUME NEW W, FilesIn(Files, W), StoreIn(W), LeasesOK, NEW p \in Paths, NEW ok, FlushOne(p, ok)
    PROVE  FilesIn(Files', W) /\ Len(nodes') >= Len(nodes) /\ StoreIn(W)' /\ LeasesOK' /\ SameRefs
<1>0. Len(nodes) \in Nat
    BY DEF FilesIn, Files
<1>1. FilesIn(Files', W) /\ Len(nodes') >= Len(nodes)
    <2>1. CASE ok /\ Restores(p)
        <3>1. nodes' = Downloaded(p).nodes /\ tree' = Downloaded(p).tree
            BY <2>1 DEF FlushOne
        <3>2. FilesIn(Downloaded(p), W) /\ Len(Downloaded(p).nodes) >= Len(nodes)
            BY DownloadedIn
        <3> QED BY <3>1, <3>2 DEF FilesIn, Files
    <2>2. CASE ~(ok /\ Restores(p))
        BY <1>0, <2>2 DEF FlushOne, FilesIn, Files
    <2> QED BY <2>1, <2>2
<1>2. StoreIn(W)'
    <2>1. CASE ok /\ Deletes(p)
        <3>1. store' = [store EXCEPT ![p] = {}]
            <4>1. ~Uploads(p)
                BY <2>1 DEF Uploads, Sends, Deletes
            <4> QED BY <2>1, <4>1 DEF FlushOne
        <3> QED BY <3>1 DEF StoreIn
    <2>2. CASE ok /\ Uploads(p) /\ ~Deletes(p)
        <3>1. store' = [store EXCEPT ![p] = Object(nodes[tree[p]].writes)]
            BY <2>2 DEF FlushOne
        <3>2. nodes[tree[p]].writes \in SUBSET W
            BY <2>2, FileWrites DEF Uploads
        <3> QED BY <3>1, <3>2 DEF StoreIn, Object
    <2>3. CASE ~(ok /\ Deletes(p)) /\ ~(ok /\ Uploads(p))
        <3>1. store' = store
            BY <2>3 DEF FlushOne
        <3> QED BY <3>1 DEF StoreIn
    <2> QED BY <2>1, <2>2, <2>3
<1>3. LeasesOK' /\ SameRefs
    <2>1. CASE leases' = [leases EXCEPT ![p].dirty = FALSE]
        BY <2>1, LeaseMarked
    <2>2. CASE leases' = leases
        BY <2>2 DEF LeasesOK, SameRefs
    <2> QED BY <2>1, <2>2 DEF FlushOne
<1> QED BY <1>1, <1>2, <1>3

-----------------------------------------------------------------------------
(***************************************************************************)
(* Write descriptors of a path, and what on_close leaves of its lease      *)
(***************************************************************************)

WritersOf(p, closed) == {fd \in closed : fds[fd].path = p /\ fds[fd].write}

LEMMA FdsFinite ==
    ASSUME FdsOK
    PROVE  IsFiniteSet(DOMAIN fds) /\ \A closed \in SUBSET DOMAIN fds, p \in Paths :
               IsFiniteSet(WritersOf(p, closed)) /\ Writers(p, closed) \in Nat
<1>1. IsFiniteSet(3 .. nextFd - 1)
    <2>1. 3 \in Int /\ nextFd - 1 \in Int
        BY DEF FdsOK
    <2> QED BY <2>1, FS_Interval
<1>2. IsFiniteSet(DOMAIN fds)
    BY <1>1, FS_Subset DEF FdsOK
<1>3. ASSUME NEW closed \in SUBSET DOMAIN fds, NEW p \in Paths
      PROVE  IsFiniteSet(WritersOf(p, closed)) /\ Writers(p, closed) \in Nat
    <2>1. WritersOf(p, closed) \in SUBSET DOMAIN fds
        BY DEF WritersOf
    <2>2. IsFiniteSet(WritersOf(p, closed))
        BY <1>2, <2>1, FS_Subset
    <2>3. Writers(p, closed) = Cardinality(WritersOf(p, closed))
        BY DEF Writers, WritersOf
    <2> QED BY <2>2, <2>3, FS_CardinalityType
<1> QED BY <1>2, <1>3

LEMMA WritersSame ==
    ASSUME NEW p, DOMAIN fds' = DOMAIN fds,
           \A x \in DOMAIN fds : fds'[x].path = fds[x].path /\ fds'[x].write = fds[x].write
    PROVE  Writers(p, DOMAIN fds)' = Writers(p, DOMAIN fds)
<1>1. {fd \in DOMAIN fds' : fds'[fd].path = p /\ fds'[fd].write}
        = {fd \in DOMAIN fds : fds[fd].path = p /\ fds[fd].write}
    OBVIOUS
<1> QED BY <1>1 DEF Writers

LEMMA WritersOpened ==
    ASSUME FdsOK, NEW p \in Paths, NEW x, x \notin DOMAIN fds, DOMAIN fds' = DOMAIN fds \union {x},
           \A y \in DOMAIN fds : fds'[y] = fds[y]
    PROVE  /\ Writers(p, DOMAIN fds)' <= Writers(p, DOMAIN fds) + 1
           /\ ~(fds'[x].path = p /\ fds'[x].write) => Writers(p, DOMAIN fds)' = Writers(p, DOMAIN fds)
           /\ Writers(p, DOMAIN fds)' \in Nat /\ Writers(p, DOMAIN fds) \in Nat
<1> DEFINE S == {fd \in DOMAIN fds' : fds'[fd].path = p /\ fds'[fd].write}
           R == {fd \in DOMAIN fds : fds[fd].path = p /\ fds[fd].write}
<1>1. Writers(p, DOMAIN fds)' = Cardinality(S) /\ Writers(p, DOMAIN fds) = Cardinality(R)
    BY DEF Writers
<1>2. IsFiniteSet(R) /\ Cardinality(R) \in Nat
    BY FdsFinite, <1>1 DEF WritersOf
<1>3. CASE fds'[x].path = p /\ fds'[x].write
    <2>1. S = R \union {x}
        BY <1>3
    <2> HIDE DEF S, R
    <2>2. Cardinality(S) = Cardinality(R) + 1 \/ Cardinality(S) = Cardinality(R)
        BY <1>2, <2>1, FS_AddElement
    <2> QED BY <1>1, <1>2, <1>3, <2>2
<1>4. CASE ~(fds'[x].path = p /\ fds'[x].write)
    <2>1. S = R
        BY <1>4
    <2> HIDE DEF S, R
    <2> QED BY <1>1, <1>2, <2>1
<1> QED BY <1>3, <1>4

LEMMA WritersClosed ==
    ASSUME FdsOK, NEW p \in Paths, NEW closed \in SUBSET DOMAIN fds, fds' = Without(fds, closed)
    PROVE  /\ Writers(p, DOMAIN fds)' = Writers(p, DOMAIN fds) - Writers(p, closed)
           /\ Writers(p, DOMAIN fds) \in Nat /\ Writers(p, closed) \in Nat
           /\ Writers(p, DOMAIN fds)' \in Nat
<1> DEFINE S == {fd \in DOMAIN fds' : fds'[fd].path = p /\ fds'[fd].write}
           R == {fd \in DOMAIN fds : fds[fd].path = p /\ fds[fd].write}
           C == {fd \in closed : fds[fd].path = p /\ fds[fd].write}
<1>1. /\ Writers(p, DOMAIN fds)' = Cardinality(S) /\ Writers(p, DOMAIN fds) = Cardinality(R)
      /\ Writers(p, closed) = Cardinality(C)
    BY DEF Writers
<1>2. IsFiniteSet(R) /\ Cardinality(R) \in Nat /\ Cardinality(C) \in Nat
    BY FdsFinite, <1>1 DEF WritersOf
<1>3. S = R \ C /\ R \intersect C = C
    BY DEF Without
<1> HIDE DEF S, R, C
<1>4. Cardinality(S) = Cardinality(R) - Cardinality(C) /\ IsFiniteSet(S)
    <2>1. IsFiniteSet(R \ C) /\ Cardinality(R \ C) = Cardinality(R) - Cardinality(R \intersect C)
        BY <1>2, FS_Difference
    <2> QED BY <1>3, <2>1
<1>5. Cardinality(S) \in Nat
    BY <1>4, FS_CardinalityType
<1> QED BY <1>1, <1>2, <1>4, <1>5

\* on_close for the descriptors closed: no lease ends that covers another one.
LEMMA OnCloseKeeps ==
    ASSUME NEW W, FilesIn(Files, W), StoreIn(W), LeasesOK, FdsOK,
           NEW closed \in SUBSET DOMAIN fds, NEW ok, OnClose(closed, ok)
    PROVE  StoreIn(W)' /\ LeasesOK'
<1> DEFINE sent == {p \in Paths : ok /\ Pushes(p, closed) /\ CanPush(p)}
<1>1. \A p \in sent : Pushed(p) \in SUBSET Object(W)
    BY FileWrites DEF CanPush, Pushed, Object
<1>2. store' = [p \in Paths |-> IF p \in sent THEN Pushed(p) ELSE store[p]]
    BY DEF OnClose
<1> HIDE DEF sent
<1>3. StoreIn(W)'
    BY <1>1, <1>2 DEF StoreIn
<1>4. leases' = [p \in Paths |->
          IF IsLast(p, closed) \/ ~Leased(p) THEN NoLease
          ELSE [leases[p] EXCEPT !.refs = @ - Writers(p, closed)]]
    BY DEF OnClose
<1>5. NoLease \in LeaseRecords
    BY DEF NoLease, LeaseRecords
<1>6. ASSUME NEW p \in Paths, ~IsLast(p, closed), Leased(p)
      PROVE  [leases[p] EXCEPT !.refs = @ - Writers(p, closed)] \in LeaseRecords
    <2>1. leases[p] \in LeaseRecords
        BY DEF LeasesOK
    <2>2. leases[p].refs \in Nat
        BY <2>1 DEF LeaseRecords
    <2>3. Writers(p, closed) \in Nat
        BY FdsFinite
    <2>4. leases[p].refs - Writers(p, closed) \in Nat
        BY <1>6, <2>2, <2>3 DEF IsLast, Leased
    <2> QED BY <2>1, <2>4 DEF LeaseRecords
<1>7. LeasesOK'
    BY <1>4, <1>5, <1>6 DEF LeasesOK
<1> QED BY <1>3, <1>7

LEMMA OnCloseCovers ==
    ASSUME LeasesOK, FdsOK, NEW closed \in SUBSET DOMAIN fds, NEW ok, OnClose(closed, ok),
           fds' = Without(fds, closed), NEW p \in Paths, leases[p].refs >= Writers(p, DOMAIN fds)
    PROVE  leases'[p].refs >= Writers(p, DOMAIN fds)'
<1>1. /\ Writers(p, DOMAIN fds)' = Writers(p, DOMAIN fds) - Writers(p, closed)
      /\ Writers(p, DOMAIN fds) \in Nat /\ Writers(p, closed) \in Nat
      /\ Writers(p, DOMAIN fds)' \in Nat
    BY WritersClosed
<1>2. leases[p] \in LeaseRecords /\ leases[p].refs \in Nat
    BY DEF LeasesOK, LeaseRecords
<1>3. CASE IsLast(p, closed) \/ ~Leased(p)
    <2>1. leases'[p].refs = 0
        BY <1>3 DEF OnClose, NoLease
    <2>2. Writers(p, DOMAIN fds)' = 0
        BY <1>1, <1>2, <1>3 DEF IsLast, Leased
    <2> QED BY <2>1, <2>2
<1>4. CASE ~(IsLast(p, closed) \/ ~Leased(p))
    <2>1. leases'[p] = [leases[p] EXCEPT !.refs = @ - Writers(p, closed)]
        BY <1>4 DEF OnClose
    <2>2. leases'[p].refs = leases[p].refs - Writers(p, closed)
        BY <1>2, <2>1 DEF LeaseRecords
    <2> QED BY <1>1, <1>2, <2>2
<1> QED BY <1>3, <1>4

\* At the start files and objects hold Original or nothing, and nothing is open.
LEMMA InitFiles ==
    ASSUME FilesInit, NEW W, Original \subseteq W
    PROVE  FilesIn(Files, W) /\ StoreIn(W) /\ FdsOK /\ LeasesOK /\ config \in Configs /\ DOMAIN fds = {}
<1>0. config \in Configs
    BY DEF FilesInit
<1> DEFINE start == config.start
           paths == start.dirs \union start.files
           n == Cardinality(paths)
           Numbers(f) == f \in [paths -> 1 .. n] /\ \A p, q \in paths : f[p] = f[q] => p = q
           number == CHOOSE f \in [paths -> 1 .. n] : \A p, q \in paths : f[p] = f[q] => p = q
           Node(i) == [dir |-> \E p \in start.dirs : number[p] = i,
                       writes |-> IF \E p \in start.files : number[p] = i THEN Original ELSE {}]
<1>1. IsFiniteSet(paths) /\ n \in Nat
    <2>1. IsFiniteSet(paths)
        BY <1>0, FilesAssumption, FS_Union
    <2> QED BY <2>1, FS_CardinalityType
<1>2. number \in [paths -> 1 .. n]
    <2>1. IsFiniteSet(1 .. n) /\ Cardinality(1 .. n) = n
        <3> HIDE DEF n
        <3>1. 1 \in Int /\ n \in Int /\ (1 > n => n = 0)
            BY <1>1
        <3> QED BY <1>1, <3>1, FS_Interval
    <2>2. PICK f : f \in Bijection(paths, 1 .. n)
        <3> HIDE DEF paths
        <3>1. ExistsBijection(paths, 1 .. n)
            BY <1>1, <2>1, FS_SameCardinalityBij
        <3> QED BY <3>1 DEF ExistsBijection
    <2>3. f \in [paths -> 1 .. n] /\ \A p, q \in paths : f[p] = f[q] => p = q
        <3> HIDE DEF paths, n
        <3> QED BY <2>2 DEF Bijection, Injection, IsInjective, Surjection
    <2> HIDE DEF paths, n
    <2> QED BY <2>3
<1>3. tree = number /\ nodes = [i \in 1 .. n |-> Node(i)]
    BY DEF FilesInit
<1>4. \A i : Node(i) \in Inodes(W)
    <2> HIDE DEF number, start
    <2> QED BY DEF Inodes
<1> HIDE DEF number, Node, n, paths
<1>5. nodes \in Seq(Inodes(W)) /\ Len(nodes) = n
    BY <1>1, <1>3, <1>4
<1>6. FilesIn(Files, W)
    BY <1>2, <1>3, <1>5 DEF FilesIn, Files
<1>7. StoreIn(W)
    BY DEF FilesInit, StoreIn, Object
<1>8. fds = <<>> /\ nextFd = 3
    BY DEF FilesInit
<1>9. FdsOK /\ DOMAIN fds = {}
    BY <1>8 DEF FdsOK
<1>10. LeasesOK
    BY DEF FilesInit, LeasesOK, LeaseRecords, NoLease
<1> QED BY <1>0, <1>6, <1>7, <1>9, <1>10
=============================================================================
