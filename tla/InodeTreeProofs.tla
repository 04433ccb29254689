-------------------------- MODULE InodeTreeProofs --------------------------
(***************************************************************************)
(* Proofs about InodeTree, for any number of threads, names and calls:     *)
(* every inode is entered at most once, and a call that nobody interfered  *)
(* with takes out of the tree only what it checked.                        *)
(***************************************************************************)
EXTENDS InodeTree, FiniteSetTheorems, SequenceTheorems, TLAPS

(***************************************************************************)
(* Trees                                                                   *)
(***************************************************************************)

EntriesOf(ids) == UNION {[S -> ids] : S \in SUBSET Names}

\* No inode is entered twice.
Injective(tree) ==
    \A d, e \in DOMAIN tree : \A m \in DOMAIN tree[d].entries, n \in DOMAIN tree[e].entries :
        tree[d].entries[m] = tree[e].entries[n] => d = e /\ m = n

TreeInv ==
    /\ \E n \in Nat : Ids = 0 .. n
    /\ inodes \in [Ids -> Node(Ids)]
    /\ Injective(inodes)

\* The elements of EntriesOf.
LEMMA EntriesType ==
    ASSUME NEW ids, NEW e
    PROVE  e \in EntriesOf(ids) <=>
              /\ e = [n \in DOMAIN e |-> e[n]]
              /\ DOMAIN e \subseteq Names
              /\ \A n \in DOMAIN e : e[n] \in ids
  <1>1. ASSUME e \in EntriesOf(ids)
        PROVE  /\ e = [n \in DOMAIN e |-> e[n]]
               /\ DOMAIN e \subseteq Names
               /\ \A n \in DOMAIN e : e[n] \in ids
    BY <1>1 DEF EntriesOf
  <1>2. ASSUME e = [n \in DOMAIN e |-> e[n]], DOMAIN e \subseteq Names,
               \A n \in DOMAIN e : e[n] \in ids
        PROVE  e \in EntriesOf(ids)
    <2>1. e \in [DOMAIN e -> ids] BY <1>2
    <2> QED BY <1>2, <2>1 DEF EntriesOf
  <1> QED BY <1>1, <1>2

LEMMA EntriesGrow ==
    ASSUME NEW ids, NEW more, ids \subseteq more, NEW e \in EntriesOf(ids)
    PROVE  e \in EntriesOf(more)
  BY EntriesType

LEMMA NodeType ==
    ASSUME NEW ids, NEW node \in Node(ids)
    PROVE  /\ node = [dir |-> node.dir, entries |-> node.entries]
           /\ node.dir \in BOOLEAN /\ node.entries \in EntriesOf(ids)
  BY DEF Node, EntriesOf

LEMMA NodeFrom ==
    ASSUME NEW ids, NEW d \in BOOLEAN, NEW e \in EntriesOf(ids)
    PROVE  [dir |-> d, entries |-> e] \in Node(ids)
  BY DEF Node, EntriesOf

\* Entries with one more or one less.
LEMMA PlusType ==
    ASSUME NEW ids, NEW e \in EntriesOf(ids), NEW name \in Names, NEW i \in ids
    PROVE  Plus(e, name, i) \in EntriesOf(ids)
  <1>1. DOMAIN e \subseteq Names /\ \A n \in DOMAIN e : e[n] \in ids BY EntriesType
  <1>2. Plus(e, name, i) \in [DOMAIN e \union {name} -> ids] BY <1>1 DEF Plus
  <1> QED BY <1>1, <1>2 DEF EntriesOf

LEMMA MinusType ==
    ASSUME NEW ids, NEW e \in EntriesOf(ids), NEW name
    PROVE  Minus(e, name) \in EntriesOf(ids)
  <1>1. DOMAIN e \subseteq Names /\ \A n \in DOMAIN e : e[n] \in ids BY EntriesType
  <1>2. Minus(e, name) \in [DOMAIN e \ {name} -> ids] BY <1>1 DEF Minus
  <1> QED BY <1>1, <1>2 DEF EntriesOf

LEMMA NewNode ==
    ASSUME NEW ids, NEW node \in {File, EmptyDir}
    PROVE  node \in Node(ids) /\ DOMAIN node.entries = {}
  <1>1. <<>> \in EntriesOf(ids)
    <2>1. <<>> \in [{} -> ids] OBVIOUS
    <2> QED BY <2>1 DEF EntriesOf
  <1>2. [dir |-> FALSE, entries |-> <<>>] \in Node(ids) BY <1>1, NodeFrom
  <1>3. [dir |-> TRUE, entries |-> <<>>] \in Node(ids) BY <1>1, NodeFrom
  <1>4. node.entries = <<>> BY DEF File, EmptyDir
  <1>5. node \in Node(ids) BY <1>2, <1>3 DEF File, EmptyDir
  <1>6. DOMAIN node.entries = {} BY <1>4
  <1> QED BY <1>5, <1>6

\* An inode of the tree: what it is, and where its entries lead.
LEMMA InTree ==
    ASSUME TreeInv, NEW d \in Ids
    PROVE  /\ inodes[d] = [dir |-> inodes[d].dir, entries |-> inodes[d].entries]
           /\ inodes[d].dir \in BOOLEAN
           /\ inodes[d].entries \in EntriesOf(Ids)
           /\ DOMAIN inodes[d].entries \subseteq Names
           /\ \A n \in DOMAIN inodes[d].entries : inodes[d].entries[n] \in Ids
  <1>1. inodes[d] \in Node(Ids) BY DEF TreeInv
  <1>2. inodes[d].entries \in EntriesOf(Ids) BY <1>1, NodeType
  <1> QED BY <1>1, <1>2, NodeType, EntriesType

LEMMA RootInTree == ASSUME TreeInv PROVE Root \in Ids
  BY DEF TreeInv, Root

\* create_inode: a new number, one more entry.
LEMMA CreateTree ==
    ASSUME TreeInv, NEW dir \in Ids, NEW name \in Names, ~Has(dir, name),
           NEW node \in {File, EmptyDir}, CreateInode(dir, name, node)
    PROVE  /\ TreeInv'
           /\ Ids \subseteq Ids' /\ Cardinality(DOMAIN inodes) \in Ids'
           /\ \A i \in Ids : Links(i) \subseteq Links(i)'
  <1> DEFINE id == Cardinality(DOMAIN inodes)
             more == Ids \union {id}
             old == inodes[dir].entries
             e == Plus(old, name, id)
  <1>1. PICK n \in Nat : Ids = 0 .. n BY DEF TreeInv
  <1>2. id = n + 1 /\ more = 0 .. n + 1 /\ id \notin Ids
    <2>1. id = n + 1 BY <1>1, FS_Interval DEF Ids
    <2> QED BY <1>1, <2>1
  <1> HIDE DEF id
  <1>3. inodes' = [i \in more |->
          IF i = id THEN node
          ELSE IF i = dir THEN [inodes[i] EXCEPT !.entries = e] ELSE inodes[i]]
    BY DEF CreateInode, id, Ids
  <1>4. Ids' = more BY <1>3 DEF Ids
  <1>5. old \in EntriesOf(more) BY InTree, EntriesGrow
  <1>6. /\ e \in EntriesOf(more) /\ DOMAIN e = DOMAIN old \union {name}
        /\ \A m \in DOMAIN e : e[m] = IF m = name THEN id ELSE old[m]
    <2>1. id \in more OBVIOUS
    <2> HIDE DEF more, old
    <2>2. e \in EntriesOf(more) BY <1>5, <2>1, PlusType
    <2>3. DOMAIN e = DOMAIN old \union {name} BY DEF Plus
    <2>4. \A m \in DOMAIN old \union {name} : e[m] = IF m = name THEN id ELSE old[m]
      BY DEF Plus
    <2> HIDE DEF e
    <2> QED BY <2>2, <2>3, <2>4
  <1> HIDE DEF e, more
  <1>7. [inodes[dir] EXCEPT !.entries = e] = [dir |-> inodes[dir].dir, entries |-> e]
    <2>1. inodes[dir] = [dir |-> inodes[dir].dir, entries |-> inodes[dir].entries] BY InTree
    <2> QED BY <2>1
  <1>8. inodes' \in [more -> Node(more)]
    <2>1. node \in Node(more) BY NewNode
    <2>2. [inodes[dir] EXCEPT !.entries = e] \in Node(more)
      <3>1. inodes[dir].dir \in BOOLEAN BY InTree
      <3>2. [dir |-> inodes[dir].dir, entries |-> e] \in Node(more) BY <1>6, <3>1, NodeFrom
      <3> QED BY <1>7, <3>2
    <2>3. ASSUME NEW i \in Ids PROVE inodes[i] \in Node(more)
      <3>1. inodes[i].entries \in EntriesOf(more) BY InTree, EntriesGrow DEF more
      <3> QED BY <3>1, InTree, NodeFrom
    <2> QED BY <1>3, <2>1, <2>2, <2>3 DEF more
  \* The entries of the new tree.
  <1>9. ASSUME NEW d \in more
        PROVE  /\ d = id => DOMAIN inodes'[d].entries = {}
               /\ d = dir => inodes'[d].entries = e
               /\ d # id /\ d # dir => d \in Ids /\ inodes'[d].entries = inodes[d].entries
    BY <1>2, <1>3, <1>7, NewNode DEF more
  <1>10. Injective(inodes)' 
    <2> SUFFICES ASSUME NEW d \in more, NEW f \in more,
                        NEW m \in DOMAIN inodes'[d].entries, NEW k \in DOMAIN inodes'[f].entries,
                        inodes'[d].entries[m] = inodes'[f].entries[k]
                 PROVE  d = f /\ m = k
      BY <1>4 DEF Injective, Ids
    <2>1. d # id /\ f # id BY <1>9
    <2>2. d \in Ids /\ f \in Ids BY <2>1 DEF more
    <2> DEFINE New(x, y) == x = dir /\ y = name
    <2>3. New(d, m) => inodes'[d].entries[m] = id BY <1>6, <1>9
    <2>4. New(f, k) => inodes'[f].entries[k] = id BY <1>6, <1>9
    <2>5. ~New(d, m) => /\ m \in DOMAIN inodes[d].entries
                        /\ inodes'[d].entries[m] = inodes[d].entries[m]
      BY <1>6, <1>9, <2>1
    <2>6. ~New(f, k) => /\ k \in DOMAIN inodes[f].entries
                        /\ inodes'[f].entries[k] = inodes[f].entries[k]
      BY <1>6, <1>9, <2>1
    <2>7. ~New(d, m) => inodes'[d].entries[m] # id BY <1>2, <2>2, <2>5, InTree
    <2>8. ~New(f, k) => inodes'[f].entries[k] # id BY <1>2, <2>2, <2>6, InTree
    <2>9. CASE New(d, m) /\ New(f, k) BY <2>9
    <2>10. CASE ~New(d, m) /\ ~New(f, k)
      BY <2>2, <2>5, <2>6, <2>10 DEF TreeInv, Injective, Ids
    <2> QED BY <2>3, <2>4, <2>7, <2>8, <2>9, <2>10
  <1>11. TreeInv'
    BY <1>1, <1>2, <1>4, <1>8, <1>10 DEF TreeInv
  <1>12. ASSUME NEW i \in Ids, NEW l \in Links(i) PROVE l \in Links(i)'
    <2>1. l \in Ids \X Names /\ l[2] \in DOMAIN inodes[l[1]].entries
          /\ inodes[l[1]].entries[l[2]] = i
      BY DEF Links, Has
    <2>2. l[1] \in Ids /\ l \in more \X Names BY <2>1 DEF more
    <2>3. l[1] # id BY <1>2, <2>2
    <2>4. ~(l[1] = dir /\ l[2] = name) BY <2>1 DEF Has
    <2>5. l[2] \in DOMAIN inodes'[l[1]].entries /\ inodes'[l[1]].entries[l[2]] = i
      BY <1>6, <1>9, <2>1, <2>2, <2>3, <2>4 DEF more
    <2> QED BY <1>4, <2>2, <2>5 DEF Links, Has
  <1> QED BY <1>2, <1>4, <1>11, <1>12 DEF more, id

\* The entry is removed: what it led to is no longer entered, everything else is.
LEMMA RemoveTree ==
    ASSUME TreeInv, NEW dir \in Ids, NEW name,
           inodes' = [inodes EXCEPT ![dir].entries = Minus(@, name)]
    PROVE  /\ TreeInv' /\ Ids' = Ids
           /\ \A i \in Ids : Links(i) # {} /\ Links(i)' = {} =>
                 Has(dir, name) /\ inodes[dir].entries[name] = i
  <1> DEFINE e == Minus(inodes[dir].entries, name)
  <1>1. e \in EntriesOf(Ids) BY InTree, MinusType
  <1>2. /\ DOMAIN e = DOMAIN inodes[dir].entries \ {name}
        /\ \A n \in DOMAIN e : e[n] = inodes[dir].entries[n]
    BY DEF Minus
  <1>3. inodes' = [inodes EXCEPT ![dir] = [dir |-> inodes[dir].dir, entries |-> e]]
    <2>1. inodes[dir] = [dir |-> inodes[dir].dir, entries |-> inodes[dir].entries] BY InTree
    <2>2. inodes' = [inodes EXCEPT ![dir] = [inodes[dir] EXCEPT !.entries = e]]
      OBVIOUS
    <2> QED BY <2>1, <2>2
  <1> HIDE DEF e
  <1>4. Ids' = Ids BY <1>3 DEF Ids
  <1>5. inodes \in [Ids -> Node(Ids)] BY DEF TreeInv
  <1>6. inodes' \in [Ids -> Node(Ids)]
    <2>1. inodes[dir].dir \in BOOLEAN BY InTree
    <2>2. [dir |-> inodes[dir].dir, entries |-> e] \in Node(Ids) BY <1>1, <2>1, NodeFrom
    <2> QED BY <1>3, <1>5, <2>2
  <1>7. ASSUME NEW d \in Ids
        PROVE  /\ d = dir => inodes'[d].entries = e
               /\ d # dir => inodes'[d].entries = inodes[d].entries
    BY <1>3, <1>5
  <1>8. ASSUME NEW d \in Ids, NEW m \in DOMAIN inodes'[d].entries
        PROVE  m \in DOMAIN inodes[d].entries /\ inodes'[d].entries[m] = inodes[d].entries[m]
    BY <1>2, <1>7
  <1>9. Injective(inodes)'
    <2> SUFFICES ASSUME NEW d \in Ids, NEW f \in Ids,
                        NEW m \in DOMAIN inodes'[d].entries, NEW k \in DOMAIN inodes'[f].entries,
                        inodes'[d].entries[m] = inodes'[f].entries[k]
                 PROVE  d = f /\ m = k
      BY <1>4 DEF Injective, Ids
    <2>1. m \in DOMAIN inodes[d].entries /\ k \in DOMAIN inodes[f].entries
          /\ inodes[d].entries[m] = inodes[f].entries[k]
      BY <1>8
    <2> QED BY <2>1 DEF TreeInv, Injective, Ids
  <1>10. TreeInv' BY <1>4, <1>6, <1>9 DEF TreeInv
  <1>11. ASSUME NEW i \in Ids, Links(i) # {}, Links(i)' = {}
         PROVE  Has(dir, name) /\ inodes[dir].entries[name] = i
    <2>1. PICK l \in Links(i) : TRUE BY <1>11
    <2>2. l \in Ids \X Names /\ l[1] \in Ids /\ l[2] \in DOMAIN inodes[l[1]].entries
          /\ inodes[l[1]].entries[l[2]] = i
      BY DEF Links, Has
    <2>3. l \notin Links(i)' BY <1>11
    <2>4. ~(l[2] \in DOMAIN inodes'[l[1]].entries /\ inodes'[l[1]].entries[l[2]] = i)
      BY <1>4, <2>2, <2>3 DEF Links, Has
    <2>5. l[1] = dir /\ l[2] = name BY <1>2, <1>7, <2>2, <2>4
    <2> QED BY <2>2, <2>5 DEF Has
  <1> QED BY <1>4, <1>10, <1>11

\* What RenameMove does to the tree.
Moves(from, to, name, last) ==
    inodes' = [i \in DOMAIN inodes |->
        LET kept == IF i = from THEN Minus(inodes[i].entries, name) ELSE inodes[i].entries IN
        [inodes[i] EXCEPT !.entries =
            IF i = to THEN Plus(kept, last, inodes[from].entries[name]) ELSE kept]]

\* The entry of from is moved to to: only what was entered there is no longer entered.
LEMMA MoveTree ==
    ASSUME TreeInv, NEW from \in Ids, NEW to \in Ids, NEW name, NEW last \in Names,
           Has(from, name), Moves(from, to, name, last)
    PROVE  /\ TreeInv' /\ Ids' = Ids
           /\ \A i \in Ids : Links(i) # {} /\ Links(i)' = {} =>
                 Has(to, last) /\ inodes[to].entries[last] = i
  <1> DEFINE moved == inodes[from].entries[name]
             kept(d) == IF d = from THEN Minus(inodes[d].entries, name) ELSE inodes[d].entries
             e(d) == IF d = to THEN Plus(kept(d), last, moved) ELSE kept(d)
  <1>1. moved \in Ids BY InTree DEF Has
  <1>2. inodes' = [i \in Ids |-> [inodes[i] EXCEPT !.entries = e(i)]] BY DEF Moves, Ids
  <1>3. Ids' = Ids BY <1>2 DEF Ids
  <1>4. ASSUME NEW d \in Ids
        PROVE  /\ kept(d) \in EntriesOf(Ids)
               /\ d = from => /\ DOMAIN kept(d) = DOMAIN inodes[d].entries \ {name}
                              /\ \A n \in DOMAIN kept(d) : kept(d)[n] = inodes[d].entries[n]
               /\ d # from => kept(d) = inodes[d].entries
    <2>1. inodes[d].entries \in EntriesOf(Ids) BY InTree
    <2>2. kept(d) \in EntriesOf(Ids) BY <2>1, MinusType
    <2>3. d = from => /\ DOMAIN kept(d) = DOMAIN inodes[d].entries \ {name}
                      /\ \A n \in DOMAIN kept(d) : kept(d)[n] = inodes[d].entries[n]
      BY DEF Minus
    <2> QED BY <2>2, <2>3
  <1> HIDE DEF kept, moved
  <1>5. ASSUME NEW d \in Ids
        PROVE  /\ e(d) \in EntriesOf(Ids)
               /\ d = to => /\ DOMAIN e(d) = DOMAIN kept(d) \union {last}
                            /\ \A n \in DOMAIN e(d) : e(d)[n] = IF n = last THEN moved ELSE kept(d)[n]
               /\ d # to => e(d) = kept(d)
    <2>1. e(d) \in EntriesOf(Ids) BY <1>1, <1>4, PlusType
    <2>2. d = to => /\ DOMAIN e(d) = DOMAIN kept(d) \union {last}
                    /\ \A n \in DOMAIN e(d) : e(d)[n] = IF n = last THEN moved ELSE kept(d)[n]
      BY DEF Plus
    <2> QED BY <2>1, <2>2
  <1> HIDE DEF e
  <1>6. ASSUME NEW d \in Ids
        PROVE  inodes'[d] = [dir |-> inodes[d].dir, entries |-> e(d)] /\ inodes'[d].entries = e(d)
    <2>1. inodes[d] = [dir |-> inodes[d].dir, entries |-> inodes[d].entries] BY InTree
    <2> QED BY <1>2, <2>1
  <1>7. inodes' \in [Ids -> Node(Ids)]
    <2>1. ASSUME NEW d \in Ids PROVE inodes'[d] \in Node(Ids)
      <3>1. inodes[d].dir \in BOOLEAN BY InTree
      <3>2. [dir |-> inodes[d].dir, entries |-> e(d)] \in Node(Ids) BY <1>5, <3>1, NodeFrom
      <3> QED BY <1>6, <3>2
    <2> QED BY <1>2, <2>1
  <1> DEFINE New(d, n) == d = to /\ n = last
  \* Every entry but the new one was there before, and was not the moved one.
  <1>8. ASSUME NEW d \in Ids, NEW m \in DOMAIN inodes'[d].entries
        PROVE  /\ New(d, m) => inodes'[d].entries[m] = moved
               /\ ~New(d, m) => /\ m \in DOMAIN inodes[d].entries
                                /\ inodes'[d].entries[m] = inodes[d].entries[m]
                                /\ inodes'[d].entries[m] # moved
    <2>1. m \in DOMAIN e(d) /\ inodes'[d].entries[m] = e(d)[m] BY <1>6
    <2>2. New(d, m) => e(d)[m] = moved BY <1>5, <2>1
    <2>3. ~New(d, m) => /\ m \in DOMAIN kept(d) /\ e(d)[m] = kept(d)[m]
      BY <1>5, <2>1
    <2>4. m \in DOMAIN kept(d) => /\ m \in DOMAIN inodes[d].entries
                                  /\ kept(d)[m] = inodes[d].entries[m]
                                  /\ ~(d = from /\ m = name)
      BY <1>4
    <2>5. m \in DOMAIN kept(d) => inodes[d].entries[m] # moved
      BY <2>4 DEF TreeInv, Injective, Ids, moved, Has
    <2> QED BY <2>1, <2>2, <2>3, <2>4, <2>5
  <1>9. Injective(inodes)'
    <2> SUFFICES ASSUME NEW d \in Ids, NEW f \in Ids,
                        NEW m \in DOMAIN inodes'[d].entries, NEW k \in DOMAIN inodes'[f].entries,
                        inodes'[d].entries[m] = inodes'[f].entries[k]
                 PROVE  d = f /\ m = k
      BY <1>3 DEF Injective, Ids
    <2>1. CASE New(d, m)
      <3>1. inodes'[f].entries[k] = moved BY <1>8, <2>1
      <3>2. New(f, k) BY <1>8, <3>1
      <3> QED BY <2>1, <3>2
    <2>2. CASE ~New(d, m)
      <3>1. ~New(f, k) BY <1>8, <2>2
      <3>2. m \in DOMAIN inodes[d].entries /\ k \in DOMAIN inodes[f].entries
            /\ inodes[d].entries[m] = inodes[f].entries[k]
        BY <1>8, <2>2, <3>1
      <3> QED BY <3>2 DEF TreeInv, Injective, Ids
    <2> QED BY <2>1, <2>2
  <1>10. TreeInv' BY <1>3, <1>7, <1>9 DEF TreeInv
  <1>11. ASSUME NEW i \in Ids, Links(i) # {}, Links(i)' = {}
         PROVE  Has(to, last) /\ inodes[to].entries[last] = i
    <2>1. i # moved
      <3>1. last \in DOMAIN inodes'[to].entries BY <1>5, <1>6
      <3>2. inodes'[to].entries[last] = moved BY <1>8, <3>1
      <3>3. moved = i => <<to, last>> \in Links(i)' BY <1>3, <3>1, <3>2 DEF Links, Has
      <3> QED BY <1>11, <3>3
    <2>2. PICK l \in Links(i) : TRUE BY <1>11
    <2>3. l \in Ids \X Names /\ l[1] \in Ids /\ l[2] \in DOMAIN inodes[l[1]].entries
          /\ inodes[l[1]].entries[l[2]] = i
      BY DEF Links, Has
    <2>4. ~(l[1] = from /\ l[2] = name) BY <2>1, <2>3 DEF moved
    <2>5. l[2] \in DOMAIN kept(l[1]) /\ kept(l[1])[l[2]] = i BY <1>4, <2>3, <2>4
    <2>6. l \notin Links(i)' BY <1>11
    <2>7. ~(l[2] \in DOMAIN inodes'[l[1]].entries /\ inodes'[l[1]].entries[l[2]] = i)
      BY <1>3, <2>3, <2>6 DEF Links, Has
    <2>8. ~(l[2] \in DOMAIN e(l[1]) /\ e(l[1])[l[2]] = i) BY <1>6, <2>3, <2>7
    <2>9. l[1] = to /\ l[2] = last BY <1>5, <2>3, <2>5, <2>8
    <2> QED BY <2>3, <2>9 DEF Has
  <1> QED BY <1>3, <1>10, <1>11

-----------------------------------------------------------------------------
(***************************************************************************)
(* Calls                                                                   *)
(***************************************************************************)

Removing == {"check", "remove"}
Moving == {"walkTo", "checkTo", "lock", "locked"}

TaskType ==
    [pc : {"idle", "walk", "create", "refind", "opened"} \union Removing \union Moving,
     call : Calls \union {[op |-> "none"]}, cur : Nat, rest : Seq(Names), from : Nat,
     name : Names \union {""}, target : Nat, dest : Nat, seen : Nat, res : {"none", "ok", "error"}]

Entry(tree, dir, name, i) == name \in DOMAIN tree[dir].entries /\ tree[dir].entries[name] = i

\* What a call has checked, if nothing changed since it began to look.
Checked(r, tree) ==
    /\ r.pc \in Removing => Entry(tree, r.cur, Head(r.rest), r.target)
    /\ r.pc = "remove" =>
          IF r.call.op = "unlink" THEN ~tree[r.target].dir
          ELSE tree[r.target].dir /\ DOMAIN tree[r.target].entries = {}
    /\ r.pc \in Moving => Entry(tree, r.from, r.name, r.target)
    /\ r.pc = "checkTo" => Entry(tree, r.cur, Head(r.rest), r.dest)
    /\ r.pc \in {"lock", "locked"} /\ Head(r.rest) \in DOMAIN tree[r.cur].entries =>
          LET dest == tree[r.cur].entries[Head(r.rest)] IN
          /\ tree[dest].dir = tree[r.target].dir
          /\ tree[dest].dir => DOMAIN tree[dest].entries = {}

\* A call r in a tree that has changed n times.
TaskOK(r, tree, n) ==
    /\ r \in TaskType
    /\ r.cur \in DOMAIN tree /\ r.from \in DOMAIN tree /\ r.seen <= n
    /\ r.pc # "idle" => r.call \in Calls /\ r.rest # <<>>
    /\ r.pc \in {"opened"} \union Removing \union Moving => r.target \in DOMAIN tree
    /\ r.pc \in Removing => r.call.op \in {"unlink", "rmdir"}
    /\ r.pc \in Moving => r.call.op = "rename" /\ r.name \in Names
    /\ r.seen = n => Checked(r, tree)

TasksInv ==
    /\ changes \in Nat
    /\ task \in [Threads -> TaskType]
    /\ \A t \in Threads : TaskOK(task[t], inodes, changes)

FdsInv == fds \in Seq(Ids)

Inv == TreeInv /\ TasksInv /\ FdsInv

LEMMA IdleType ==
    /\ Idle \in TaskType
    /\ Idle.pc = "idle" /\ Idle.cur = Root /\ Idle.from = Root /\ Idle.seen = 0
  <1>1. <<>> \in Seq(Names) OBVIOUS
  <1>2. Idle \in TaskType BY <1>1 DEF Idle, TaskType, Root, NoInode
  <1> QED BY <1>2 DEF Idle

\* No call, or one that returned.
LEMMA AtRest ==
    ASSUME NEW tree, Root \in DOMAIN tree, NEW n \in Nat, NEW r \in TaskType,
           r.pc = "idle", r.cur = Root, r.from = Root, r.seen = 0
    PROVE  TaskOK(r, tree, n)
  BY DEF TaskOK, Checked, Removing, Moving

LEMMA ReturnedOK ==
    ASSUME NEW tree, Root \in DOMAIN tree, NEW n \in Nat, NEW res \in {"none", "ok", "error"}
    PROVE  TaskOK([Idle EXCEPT !.res = res], tree, n)
  <1> DEFINE r == [Idle EXCEPT !.res = res]
  <1>1. r \in TaskType /\ r.pc = "idle" /\ r.cur = Root /\ r.from = Root /\ r.seen = 0
    BY IdleType DEF TaskType
  <1> HIDE DEF r
  <1>2. TaskOK(r, tree, n) BY <1>1, AtRest
  <1> QED BY <1>2 DEF r

\* A change of the tree is one after what a call has seen.
LEMMA TaskGrows ==
    ASSUME NEW r, NEW tree, NEW more, NEW n \in Nat,
           TaskOK(r, tree, n), DOMAIN tree \subseteq DOMAIN more
    PROVE  TaskOK(r, more, n + 1)
  <1>1. r.seen \in Nat /\ r.seen <= n BY DEF TaskOK, TaskType
  <1>2. r.seen <= n + 1 /\ r.seen # n + 1 BY <1>1
  <1> QED BY <1>2 DEF TaskOK

\* The tree stands still, or it changes and keeps its inodes.
Grows == DOMAIN inodes \subseteq DOMAIN inodes' /\ changes' = changes + 1
Still == UNCHANGED <<inodes, changes>>

\* A step of one call.
LEMMA OneTask ==
    ASSUME TasksInv, NEW t \in Threads, NEW r, task' = [task EXCEPT ![t] = r],
           Grows \/ Still, TaskOK(r, inodes', changes')
    PROVE  TasksInv'
  <1>1. changes \in Nat /\ changes' \in Nat BY DEF TasksInv, Grows, Still
  <1>2. r \in TaskType BY DEF TaskOK
  <1>3. task' \in [Threads -> TaskType] BY <1>2 DEF TasksInv
  <1>4. ASSUME NEW u \in Threads PROVE TaskOK(task'[u], inodes', changes')
    <2>1. CASE u = t BY <2>1 DEF TasksInv
    <2>2. CASE u # t
      <3>1. task'[u] = task[u] /\ TaskOK(task[u], inodes, changes) BY <2>2 DEF TasksInv
      <3>2. CASE Grows
        <4>1. TaskOK(task[u], inodes', changes + 1) BY <1>1, <3>1, <3>2, TaskGrows DEF Grows
        <4> QED BY <3>1, <3>2, <4>1 DEF Grows
      <3>3. CASE Still BY <3>1, <3>3 DEF Still
      <3> QED BY <3>2, <3>3
    <2> QED BY <2>1, <2>2
  <1> QED BY <1>1, <1>3, <1>4 DEF TasksInv

LEMMA ReturnTasks ==
    ASSUME Inv, NEW t \in Threads, NEW res \in {"none", "ok", "error"}, Return(t, res),
           Grows \/ Still
    PROVE  TasksInv'
  <1>1. Root \in DOMAIN inodes' /\ changes' \in Nat
    BY RootInTree DEF Inv, TasksInv, Grows, Still, Ids
  <1>2. TaskOK([Idle EXCEPT !.res = res], inodes', changes') BY <1>1, ReturnedOK
  <1> QED BY <1>2, OneTask DEF Inv, Return

\* What is known of a call.
LEMMA TaskFacts ==
    ASSUME Inv, NEW t \in Threads
    PROVE  /\ task[t] \in TaskType /\ TaskOK(task[t], inodes, changes)
           /\ task[t].cur \in Ids /\ task[t].from \in Ids
           /\ changes \in Nat
           /\ task \in [Threads -> TaskType]
  BY DEF Inv, TasksInv, TaskOK, Ids

\* The rest of a path.
LEMMA RestFacts ==
    ASSUME Inv, NEW t \in Threads, task[t].pc # "idle"
    PROVE  /\ Last(t) \in Names /\ task[t].rest \in Seq(Names) /\ task[t].rest # <<>>
           /\ Len(task[t].rest) # 1 => Tail(task[t].rest) \in Seq(Names) /\ Tail(task[t].rest) # <<>>
           /\ task[t].call \in Calls /\ Len(task[t].rest) \in Nat
  <1>1. task[t].rest \in Seq(Names) /\ task[t].rest # <<>> /\ task[t].call \in Calls
    BY TaskFacts DEF TaskOK, TaskType
  <1>2. Len(task[t].rest) \in Nat \ {0} BY <1>1, EmptySeq
  <1>3. Last(t) \in Names BY <1>1, <1>2 DEF Last
  <1>4. ASSUME Len(task[t].rest) # 1
        PROVE  Tail(task[t].rest) \in Seq(Names) /\ Tail(task[t].rest) # <<>>
    <2>1. Tail(task[t].rest) \in Seq(Names) /\ Len(Tail(task[t].rest)) = Len(task[t].rest) - 1
      BY <1>1, <1>2
    <2>2. Len(Tail(task[t].rest)) # 0 BY <1>2, <1>4, <2>1
    <2> QED BY <2>1, <2>2, EmptySeq
  <1> QED BY <1>1, <1>2, <1>3, <1>4

\* What a call that has not finished keeps when the tree grows.
LEMMA KeptFacts ==
    ASSUME Inv, NEW t \in Threads, Still \/ Grows
    PROVE  /\ task[t].cur \in DOMAIN inodes' /\ task[t].from \in DOMAIN inodes'
           /\ task[t].seen \in Nat /\ task[t].seen <= changes'
           /\ changes' \in Nat
  <1>1. /\ task[t].cur \in DOMAIN inodes /\ task[t].from \in DOMAIN inodes
        /\ task[t].seen \in Nat /\ task[t].seen <= changes /\ changes \in Nat
    <2>1. task[t] \in TaskType /\ TaskOK(task[t], inodes, changes) /\ changes \in Nat BY TaskFacts
    <2>2. task[t].seen \in Nat BY <2>1 DEF TaskType
    <2> QED BY <2>1, <2>2 DEF TaskOK
  <1>2. CASE Still BY <1>1, <1>2 DEF Still
  <1>3. CASE Grows BY <1>1, <1>3 DEF Grows
  <1> QED BY <1>2, <1>3

\* A step that leaves the tree alone and only moves the call to another
\* step, one of those that have checked nothing.
LEMMA GotoTasks ==
    ASSUME Inv, NEW t \in Threads, NEW pc \in {"create", "refind"}, task[t].pc # "idle",
           Goto(t, pc), Still
    PROVE  TasksInv'
  <1> DEFINE r == [task[t] EXCEPT !.pc = pc]
  <1>1. task' = [task EXCEPT ![t] = r] BY TaskFacts DEF Goto
  <1>2. TaskOK(r, inodes, changes)
    <2>1. TaskOK(task[t], inodes, changes) BY TaskFacts
    <2>2. r \in TaskType BY <2>1 DEF TaskOK, TaskType
    <2>3. /\ r.pc = pc /\ r.cur = task[t].cur /\ r.from = task[t].from /\ r.seen = task[t].seen
          /\ r.call = task[t].call /\ r.rest = task[t].rest
      BY <2>1 DEF TaskOK, TaskType
    <2> HIDE DEF r
    <2> QED BY <2>1, <2>2, <2>3 DEF TaskOK, Checked, Removing, Moving
  <1> QED BY <1>1, <1>2, OneTask DEF Inv, Still

\* The inodes of open descriptors stay.
LEMMA StillInv == ASSUME Inv, Still, UNCHANGED fds, TasksInv' PROVE Inv'
  BY DEF Inv, Still, TreeInv, FdsInv, Ids

LEMMA GrowsInv == ASSUME Inv, Grows, UNCHANGED fds, TreeInv', TasksInv' PROVE Inv'
  <1>1. fds \in Seq(Ids) /\ Ids \subseteq Ids' BY DEF Inv, FdsInv, Grows, Ids
  <1>2. fds \in Seq(Ids') BY <1>1
  <1> QED BY <1>2 DEF Inv, FdsInv

\* An entry of a directory leads to an inode.
LEMMA Child ==
    ASSUME Inv, NEW dir \in Ids, NEW name, Has(dir, name)
    PROVE  inodes[dir].entries[name] \in Ids /\ inodes[dir].entries[name] \in Nat
  <1>1. inodes[dir].entries[name] \in Ids BY InTree DEF Inv, Has
  <1>2. PICK n \in Nat : Ids = 0 .. n BY DEF Inv, TreeInv
  <1> QED BY <1>1, <1>2

LEMMA IdsAreNumbers == ASSUME TreeInv PROVE Ids \subseteq Nat
  BY DEF TreeInv

LEMMA BeginInv == ASSUME Inv, NEW t \in Threads, Begin(t) PROVE Inv'
  <1>1. PICK c \in Calls,
             start \in {fds[f] : f \in {g \in 1 .. Len(fds) : inodes[fds[g]].dir}} \union {Root} :
           task' = [task EXCEPT ![t] =
              [Idle EXCEPT !.pc = "walk", !.call = c, !.cur = start, !.rest = c.path]]
    BY DEF Begin
  <1> DEFINE r == [Idle EXCEPT !.pc = "walk", !.call = c, !.cur = start, !.rest = c.path]
  <1>2. start \in Ids
    <2>1. \A f \in 1 .. Len(fds) : fds[f] \in Ids BY DEF Inv, FdsInv
    <2>2. Root \in Ids BY RootInTree DEF Inv
    <2> QED BY <2>1, <2>2
  <1>3. start \in Nat BY <1>2, IdsAreNumbers DEF Inv
  <1>4. c.path \in Seq(Names) /\ c.path # <<>> BY TreeAssumption DEF Paths
  <1>5. r \in TaskType /\ r.pc = "walk" /\ r.cur = start /\ r.from = Root /\ r.seen = 0
        /\ r.call = c /\ r.rest = c.path
    BY <1>3, <1>4, IdleType DEF TaskType
  <1>6. Still /\ UNCHANGED fds BY DEF Begin, Still
  <1>7. TaskOK(r, inodes, changes)
    <2>1. changes \in Nat /\ Root \in Ids BY RootInTree DEF Inv, TasksInv
    <2> HIDE DEF r
    <2> QED BY <1>2, <1>4, <1>5, <2>1 DEF TaskOK, Checked, Removing, Moving, Ids
  <1>8. TasksInv' BY <1>1, <1>6, <1>7, OneTask DEF Inv, Still
  <1> QED BY <1>6, <1>8, StillInv

LEMMA WalkInv == ASSUME Inv, NEW t \in Threads, Walk(t) PROVE Inv'
  <1> DEFINE child == inodes[task[t].cur].entries[Last(t)]
             r == [task[t] EXCEPT !.cur = child, !.rest = Tail(@)]
  <1>1. Still /\ UNCHANGED fds BY DEF Walk, Still
  <1>2. task[t].pc \in {"walk", "walkTo"} /\ Len(task[t].rest) > 1 BY DEF Walk
  <1>3. CASE Return(t, "error") BY <1>1, <1>3, ReturnTasks, StillInv
  <1>4. CASE ~Return(t, "error")
    <2>1. /\ Has(task[t].cur, Last(t))
          /\ task' = [task EXCEPT ![t].cur = child, ![t].rest = Tail(@)]
      BY <1>4 DEF Walk
    <2>2. child \in Ids /\ child \in Nat BY <2>1, TaskFacts, Child
    <2> HIDE DEF child
    <2>3. task' = [task EXCEPT ![t] = r] BY <2>1, TaskFacts
    <2>4. Tail(task[t].rest) \in Seq(Names) /\ Tail(task[t].rest) # <<>>
      <3>1. task[t].pc # "idle" BY <1>2
      <3>2. Len(task[t].rest) \in Nat BY <3>1, RestFacts
      <3>3. Len(task[t].rest) # 1
        <4> DEFINE n == Len(task[t].rest)
        <4>1. n \in Nat /\ n > 1 BY <1>2, <3>2
        <4> HIDE DEF n
        <4>2. n # 1 BY <4>1
        <4> QED BY <4>2 DEF n
      <3> QED BY <3>1, <3>3, RestFacts
    <2>5. r \in TaskType /\ r.cur = child /\ r.rest = Tail(task[t].rest)
          /\ r.pc = task[t].pc /\ r.call = task[t].call /\ r.from = task[t].from
          /\ r.name = task[t].name /\ r.target = task[t].target /\ r.seen = task[t].seen
      BY <2>2, <2>4, TaskFacts, ZenonT(60) DEF TaskType
    <2> HIDE DEF r
    <2>6. TaskOK(r, inodes, changes)
      BY <1>2, <2>2, <2>4, <2>5, TaskFacts DEF TaskOK, Checked, Removing, Moving, Ids
    <2>7. TasksInv' BY <1>1, <2>3, <2>6, OneTask DEF Inv, Still
    <2> QED BY <1>1, <2>7, StillInv
  <1> QED BY <1>3, <1>4

\* A call that goes on to step pc with the target i.
LEMMA TargetTasks ==
    ASSUME Inv, NEW t \in Threads, task[t].pc # "idle", NEW i \in Nat, i \in DOMAIN inodes',
           Still \/ Grows,
           task' = [task EXCEPT ![t].pc = "opened", ![t].target = i]
    PROVE  TasksInv'
  <1> DEFINE r == [task[t] EXCEPT !.pc = "opened", !.target = i]
  <1>1. task' = [task EXCEPT ![t] = r] BY TaskFacts
  <1>2. r \in TaskType /\ r.pc = "opened" /\ r.target = i /\ r.cur = task[t].cur
        /\ r.rest = task[t].rest /\ r.call = task[t].call /\ r.from = task[t].from
        /\ r.seen = task[t].seen
    BY TaskFacts DEF TaskType
  <1> HIDE DEF r
  <1>3. /\ r.cur \in DOMAIN inodes' /\ r.from \in DOMAIN inodes'
        /\ r.seen \in Nat /\ r.seen <= changes' /\ changes' \in Nat
    BY <1>2, KeptFacts
  <1>4. r.call \in Calls /\ r.rest # <<>> BY <1>2, RestFacts
  <1>5. TaskOK(r, inodes', changes')
    BY <1>2, <1>3, <1>4 DEF TaskOK, Checked, Removing, Moving
  <1> QED BY <1>1, <1>5, OneTask DEF Inv

LEMMA LookupInv == ASSUME Inv, NEW t \in Threads, Lookup(t) PROVE Inv'
  <1>1. Still /\ UNCHANGED fds BY DEF Lookup, Still
  <1>2. Return(t, "ok") \/ Return(t, "error") BY DEF Lookup
  <1> QED BY <1>1, <1>2, ReturnTasks, StillInv

LEMMA OpenFindInv == ASSUME Inv, NEW t \in Threads, OpenFind(t) PROVE Inv'
  <1>1. Still /\ UNCHANGED fds /\ task[t].pc # "idle" BY DEF OpenFind, Still, AtLast
  <1>2. CASE Return(t, "error") BY <1>1, <1>2, ReturnTasks, StillInv
  <1>3. CASE Goto(t, "create") BY <1>1, <1>3, GotoTasks, StillInv
  <1>4. CASE /\ Has(task[t].cur, Last(t))
             /\ task' = [task EXCEPT ![t].pc = "opened",
                                     ![t].target = inodes[task[t].cur].entries[Last(t)]]
    <2>1. inodes[task[t].cur].entries[Last(t)] \in Ids /\ inodes[task[t].cur].entries[Last(t)] \in Nat
      BY <1>4, TaskFacts, Child
    <2>2. TasksInv' BY <1>1, <1>4, <2>1, TargetTasks DEF Still, Ids
    <2> QED BY <1>1, <2>2, StillInv
  <1> QED BY <1>2, <1>3, <1>4 DEF OpenFind

LEMMA OpenRefindInv == ASSUME Inv, NEW t \in Threads, OpenRefind(t) PROVE Inv'
  <1>1. Still /\ UNCHANGED fds /\ task[t].pc # "idle" BY DEF OpenRefind, Still, AtLast
  <1>2. CASE Return(t, "error") BY <1>1, <1>2, ReturnTasks, StillInv
  <1>3. CASE /\ Has(task[t].cur, Last(t))
             /\ task' = [task EXCEPT ![t].pc = "opened",
                                     ![t].target = inodes[task[t].cur].entries[Last(t)]]
    <2>1. inodes[task[t].cur].entries[Last(t)] \in Ids /\ inodes[task[t].cur].entries[Last(t)] \in Nat
      BY <1>3, TaskFacts, Child
    <2>2. TasksInv' BY <1>1, <1>3, <2>1, TargetTasks DEF Still, Ids
    <2> QED BY <1>1, <2>2, StillInv
  <1> QED BY <1>2, <1>3 DEF OpenRefind

\* What a call that creates an inode does to the tree.
LEMMA CreateGrows ==
    ASSUME Inv, NEW t \in Threads, task[t].pc # "idle", NEW node \in {File, EmptyDir},
           ~Has(task[t].cur, Last(t)), CreateInode(task[t].cur, Last(t), node)
    PROVE  /\ TreeInv' /\ Grows
           /\ Cardinality(DOMAIN inodes) \in Ids' /\ Cardinality(DOMAIN inodes) \in Nat
           /\ \A i \in Ids : Links(i) \subseteq Links(i)'
  <1>1. task[t].cur \in Ids /\ Last(t) \in Names BY TaskFacts, RestFacts
  <1>2. /\ TreeInv'
        /\ Ids \subseteq Ids' /\ Cardinality(DOMAIN inodes) \in Ids'
        /\ \A i \in Ids : Links(i) \subseteq Links(i)'
    BY <1>1, CreateTree DEF Inv
  <1>3. Ids' \subseteq Nat BY <1>2 DEF TreeInv
  <1>4. changes' = changes + 1 BY DEF CreateInode
  <1> QED BY <1>2, <1>3, <1>4 DEF Grows, Ids

LEMMA OpenCreateInv == ASSUME Inv, NEW t \in Threads, OpenCreate(t) PROVE Inv'
  <1>1. UNCHANGED fds /\ task[t].pc # "idle" BY DEF OpenCreate, AtLast
  <1>2. CASE /\ ~Has(task[t].cur, Last(t))
             /\ CreateInode(task[t].cur, Last(t), File)
             /\ task' = [task EXCEPT ![t].pc = "opened", ![t].target = Cardinality(DOMAIN inodes)]
    <2> DEFINE id == Cardinality(DOMAIN inodes)
    <2>1. TreeInv' /\ Grows /\ id \in Ids' /\ id \in Nat BY <1>1, <1>2, CreateGrows
    <2>2. task' = [task EXCEPT ![t].pc = "opened", ![t].target = id] BY <1>2
    <2> HIDE DEF id
    <2>3. TasksInv' BY <1>1, <2>1, <2>2, TargetTasks DEF Ids
    <2> QED BY <1>1, <2>1, <2>3, GrowsInv
  <1>3. CASE Return(t, "error") /\ UNCHANGED <<inodes, locked, changes>>
    BY <1>1, <1>3, ReturnTasks, StillInv DEF Still
  <1>4. CASE Goto(t, "refind") /\ UNCHANGED <<inodes, locked, changes>>
    BY <1>1, <1>4, GotoTasks, StillInv DEF Still
  <1> QED BY <1>2, <1>3, <1>4 DEF OpenCreate

LEMMA OpenedInv == ASSUME Inv, NEW t \in Threads, Opened(t) PROVE Inv'
  <1>1. Still /\ task[t].pc = "opened" BY DEF Opened, Still
  <1>2. Return(t, "ok") \/ Return(t, "error") BY DEF Opened
  <1>3. TasksInv' BY <1>1, <1>2, ReturnTasks
  <1>4. task[t].target \in Ids BY <1>1, TaskFacts DEF TaskOK, Ids
  <1>5. fds' \in Seq(Ids)
    <2>1. fds' = fds \/ fds' = Append(fds, task[t].target) BY DEF Opened
    <2> QED BY <1>4, <2>1 DEF Inv, FdsInv
  <1> QED BY <1>1, <1>3, <1>5 DEF Inv, FdsInv, Still, TreeInv, Ids

LEMMA MkdirInv == ASSUME Inv, NEW t \in Threads, Mkdir(t) PROVE Inv'
  <1>1. UNCHANGED fds /\ task[t].pc # "idle" BY DEF Mkdir, AtLast
  <1>2. CASE /\ ~Has(task[t].cur, Last(t))
             /\ CreateInode(task[t].cur, Last(t), EmptyDir) /\ Return(t, "ok")
    <2>1. TreeInv' /\ Grows BY <1>1, <1>2, CreateGrows
    <2>2. TasksInv' BY <1>2, <2>1, ReturnTasks
    <2> QED BY <1>1, <2>1, <2>2, GrowsInv
  <1>3. CASE Return(t, "error") /\ UNCHANGED <<inodes, locked, changes>>
    BY <1>1, <1>3, ReturnTasks, StillInv DEF Still
  <1> QED BY <1>2, <1>3 DEF Mkdir

\* mkdir_p goes on with an inode of the tree.
LEMMA DescendTasks ==
    ASSUME Inv, NEW t \in Threads, task[t].pc \in {"walk", "create", "refind"},
           NEW i \in Nat, i \in DOMAIN inodes', Still \/ Grows, Descend(t, i)
    PROVE  TasksInv'
  <1> DEFINE r == [task[t] EXCEPT !.pc = "walk", !.cur = i, !.rest = Tail(@)]
  <1>1. CASE Len(task[t].rest) = 1
    <2>1. Return(t, "ok") BY <1>1 DEF Descend
    <2> QED BY <2>1, ReturnTasks
  <1>2. CASE Len(task[t].rest) # 1
    <2>1. task' = [task EXCEPT ![t] = r] BY <1>2, TaskFacts DEF Descend
    <2>2. Tail(task[t].rest) \in Seq(Names) /\ Tail(task[t].rest) # <<>> /\ task[t].call \in Calls
      BY <1>2, RestFacts
    <2>3. r \in TaskType /\ r.pc = "walk" /\ r.cur = i /\ r.rest = Tail(task[t].rest)
          /\ r.call = task[t].call /\ r.from = task[t].from /\ r.seen = task[t].seen
      BY <2>2, TaskFacts, ZenonT(60) DEF TaskType
    <2> HIDE DEF r
    <2>4. /\ r.from \in DOMAIN inodes'
          /\ r.seen \in Nat /\ r.seen <= changes' /\ changes' \in Nat
      BY <2>3, KeptFacts
    <2>5. TaskOK(r, inodes', changes')
      BY <2>2, <2>3, <2>4 DEF TaskOK, Checked, Removing, Moving
    <2> QED BY <2>1, <2>5, OneTask DEF Inv
  <1> QED BY <1>1, <1>2

LEMMA MkdirPInv == ASSUME Inv, NEW t \in Threads, MkdirP(t) PROVE Inv'
  <1> DEFINE cur == task[t].cur
             child == inodes[cur].entries[Last(t)]
  <1>1. UNCHANGED fds /\ task[t].pc \in {"walk", "create", "refind"} BY DEF MkdirP
  <1>2. CASE Return(t, "error") /\ UNCHANGED <<inodes, locked, changes>>
    BY <1>1, <1>2, ReturnTasks, StillInv DEF Still
  <1>3. CASE (Goto(t, "create") \/ Goto(t, "refind")) /\ UNCHANGED <<inodes, locked, changes>>
    <2>1. Still BY <1>3 DEF Still
    <2>2. task[t].pc # "idle" BY <1>1
    <2>3. TasksInv' BY <1>3, <2>1, <2>2, GotoTasks
    <2> QED BY <1>1, <2>1, <2>3, StillInv
  <1>4. CASE Has(cur, Last(t)) /\ Descend(t, child) /\ UNCHANGED <<inodes, locked, changes>>
    <2>1. Still BY <1>4 DEF Still
    <2>2. child \in Ids /\ child \in Nat BY <1>4, TaskFacts, Child
    <2>3. child \in DOMAIN inodes' BY <1>4, <2>2 DEF Ids
    <2>4. TasksInv' BY <1>1, <1>4, <2>1, <2>2, <2>3, DescendTasks
    <2> QED BY <1>1, <2>1, <2>4, StillInv
  <1>5. CASE /\ ~Has(cur, Last(t)) /\ CreateInode(cur, Last(t), EmptyDir)
             /\ Descend(t, Cardinality(DOMAIN inodes))
    <2> DEFINE id == Cardinality(DOMAIN inodes)
    <2>1. TreeInv' /\ Grows /\ id \in Ids' /\ id \in Nat
      <3>1. task[t].pc # "idle" BY <1>1
      <3> QED BY <1>5, <3>1, CreateGrows
    <2>2. Descend(t, id) BY <1>5
    <2> HIDE DEF id
    <2>3. TasksInv' BY <1>1, <2>1, <2>2, DescendTasks DEF Ids
    <2> QED BY <1>1, <2>1, <2>3, GrowsInv
  <1> QED BY <1>2, <1>3, <1>4, <1>5 DEF MkdirP

LEMMA RemoveFindInv == ASSUME Inv, NEW t \in Threads, RemoveFind(t) PROVE Inv'
  <1> DEFINE i == inodes[task[t].cur].entries[Last(t)]
             r == [task[t] EXCEPT !.pc = "check", !.target = i, !.seen = changes]
  <1>1. Still /\ UNCHANGED fds BY DEF RemoveFind, Still
  <1>2. task[t].pc # "idle" /\ task[t].call.op \in {"unlink", "rmdir"}
    BY DEF RemoveFind, AtLast, Op
  <1>3. CASE Return(t, "error") BY <1>1, <1>3, ReturnTasks, StillInv
  <1>4. CASE /\ Has(task[t].cur, Last(t))
             /\ task' = [task EXCEPT ![t].pc = "check", ![t].target = i, ![t].seen = changes]
    <2>1. i \in Ids /\ i \in Nat BY <1>4, TaskFacts, Child
    <2>2. Entry(inodes, task[t].cur, Head(task[t].rest), i) BY <1>4 DEF Entry, Has, Last
    <2> HIDE DEF i
    <2>3. task' = [task EXCEPT ![t] = r] BY <1>4, TaskFacts
    <2>4. changes \in Nat BY TaskFacts
    <2>5. /\ r \in TaskType /\ r.pc = "check" /\ r.target = i /\ r.seen = changes
          /\ r.cur = task[t].cur /\ r.rest = task[t].rest /\ r.call = task[t].call
          /\ r.from = task[t].from
      BY <2>1, <2>4, TaskFacts, ZenonT(60) DEF TaskType, Removing
    <2> HIDE DEF r
    <2>6. r.cur \in DOMAIN inodes /\ r.from \in DOMAIN inodes /\ r.call \in Calls /\ r.rest # <<>>
      BY <1>2, <2>5, TaskFacts, RestFacts DEF Ids
    <2>7. Checked(r, inodes) BY <2>2, <2>5 DEF Checked, Removing, Moving
    <2>8. TaskOK(r, inodes, changes)
      BY <1>2, <2>1, <2>4, <2>5, <2>6, <2>7 DEF TaskOK, Removing, Moving, Ids
    <2>9. TasksInv' BY <1>1, <2>3, <2>8, OneTask DEF Inv, Still
    <2> QED BY <1>1, <2>9, StillInv
  <1> QED BY <1>3, <1>4 DEF RemoveFind

LEMMA RemoveCheckInv == ASSUME Inv, NEW t \in Threads, RemoveCheck(t) PROVE Inv'
  <1> DEFINE target == task[t].target
             r == [task[t] EXCEPT !.pc = "remove"]
  <1>1. Still /\ UNCHANGED fds /\ task[t].pc = "check" BY DEF RemoveCheck, Still
  <1>2. CASE Return(t, "error") BY <1>1, <1>2, ReturnTasks, StillInv
  <1>3. CASE /\ IF Op(t) = "unlink" THEN ~inodes[target].dir
                ELSE inodes[target].dir /\ IsEmpty(target)
             /\ Goto(t, "remove")
    <2>1. task' = [task EXCEPT ![t] = r] BY <1>3, TaskFacts DEF Goto
    <2>2. TaskOK(task[t], inodes, changes) /\ task[t] \in TaskType BY TaskFacts
    <2>3. /\ r \in TaskType /\ r.pc = "remove" /\ r.target = target /\ r.seen = task[t].seen
          /\ r.cur = task[t].cur /\ r.rest = task[t].rest /\ r.call = task[t].call
          /\ r.from = task[t].from
      BY <2>2 DEF TaskType, Removing
    <2> HIDE DEF r
    <2>4. IF r.call.op = "unlink" THEN ~inodes[target].dir
          ELSE inodes[target].dir /\ DOMAIN inodes[target].entries = {}
      BY <1>3, <2>3 DEF Op, IsEmpty
    <2>5. task[t].seen = changes => Entry(inodes, task[t].cur, Head(task[t].rest), target)
      BY <1>1, <2>2 DEF TaskOK, Checked, Removing
    <2>6. r.seen = changes => Checked(r, inodes)
      BY <2>3, <2>4, <2>5 DEF Checked, Removing, Moving
    <2>7. TaskOK(r, inodes, changes)
      BY <1>1, <2>2, <2>3, <2>6 DEF TaskOK, Removing, Moving
    <2>8. TasksInv' BY <1>1, <2>1, <2>7, OneTask DEF Inv, Still
    <2> QED BY <1>1, <2>8, StillInv
  <1> QED BY <1>2, <1>3 DEF RemoveCheck

\* Remove changes the tree, and keeps all inodes.
LEMMA RemoveGrows ==
    ASSUME Inv, NEW t \in Threads, Remove(t)
    PROVE  /\ TreeInv' /\ Grows
           /\ \A i \in Ids : Links(i) # {} /\ Links(i)' = {} =>
                 Has(task[t].cur, Last(t)) /\ inodes[task[t].cur].entries[Last(t)] = i
  <1>1. task[t].cur \in Ids BY TaskFacts
  <1>2. inodes' = [inodes EXCEPT ![task[t].cur].entries = Minus(@, Last(t))] BY DEF Remove
  <1>3. changes' = changes + 1 BY DEF Remove
  <1>4. /\ TreeInv' /\ Ids' = Ids
        /\ \A i \in Ids : Links(i) # {} /\ Links(i)' = {} =>
              Has(task[t].cur, Last(t)) /\ inodes[task[t].cur].entries[Last(t)] = i
    BY <1>1, <1>2, RemoveTree DEF Inv
  <1> QED BY <1>3, <1>4 DEF Grows, Ids

LEMMA RemoveInv == ASSUME Inv, NEW t \in Threads, Remove(t) PROVE Inv'
  <1>1. TreeInv' /\ Grows BY RemoveGrows
  <1>2. Return(t, "ok") /\ UNCHANGED fds BY DEF Remove
  <1>3. TasksInv' BY <1>1, <1>2, ReturnTasks
  <1> QED BY <1>1, <1>2, <1>3, GrowsInv

LEMMA RenameFindInv == ASSUME Inv, NEW t \in Threads, RenameFind(t) PROVE Inv'
  <1> DEFINE cur == task[t].cur
             i == inodes[cur].entries[Last(t)]
             to == task[t].call.to
             r == [task[t] EXCEPT !.pc = "walkTo", !.cur = Root, !.rest = to, !.from = cur,
                                  !.name = Last(t), !.seen = changes, !.target = i]
  <1>1. Still /\ UNCHANGED fds BY DEF RenameFind, Still
  <1>2. task[t].pc # "idle" /\ task[t].call.op = "rename" BY DEF RenameFind, AtLast, Op
  <1>3. CASE Return(t, "error") BY <1>1, <1>3, ReturnTasks, StillInv
  <1>4. CASE /\ Has(cur, Last(t))
             /\ task' = [task EXCEPT ![t].pc = "walkTo", ![t].cur = Root, ![t].rest = to,
                                     ![t].from = cur, ![t].name = Last(t), ![t].seen = changes,
                                     ![t].target = i]
    <2>1. i \in Ids /\ i \in Nat /\ cur \in Ids /\ cur \in Nat
      BY <1>4, TaskFacts, Child, IdsAreNumbers DEF Inv
    <2>2. Entry(inodes, cur, Last(t), i) BY <1>4 DEF Entry, Has
    <2>3. to \in Seq(Names) /\ to # <<>> /\ Last(t) \in Names /\ task[t].call \in Calls
      BY <1>2, RestFacts, TreeAssumption DEF Paths
    <2>4. changes \in Nat /\ Root \in Ids /\ Root \in Nat
      BY TaskFacts, RootInTree DEF Inv, Root
    <2>5. task' = [task EXCEPT ![t] = r] BY <1>4, TaskFacts
    <2>6. task[t] \in TaskType BY TaskFacts
    <2> HIDE DEF i, cur, to
    <2>7. /\ r \in TaskType /\ r.pc = "walkTo" /\ r.cur = Root /\ r.rest = to /\ r.from = cur
          /\ r.name = Last(t) /\ r.seen = changes /\ r.target = i /\ r.call = task[t].call
      BY <2>1, <2>3, <2>4, <2>6 DEF TaskType, Moving
    <2> HIDE DEF r
    <2>8. Checked(r, inodes) BY <2>2, <2>7 DEF Checked, Removing, Moving
    <2>9. TaskOK(r, inodes, changes)
      BY <1>2, <2>1, <2>3, <2>4, <2>7, <2>8 DEF TaskOK, Removing, Moving, Ids
    <2>10. TasksInv' BY <1>1, <2>5, <2>9, OneTask DEF Inv, Still
    <2> QED BY <1>1, <2>10, StillInv
  <1> QED BY <1>3, <1>4 DEF RenameFind

LEMMA RenameFindToInv == ASSUME Inv, NEW t \in Threads, RenameFindTo(t) PROVE Inv'
  <1> DEFINE cur == task[t].cur
             i == inodes[cur].entries[Last(t)]
             r == IF Has(cur, Last(t)) THEN [task[t] EXCEPT !.pc = "checkTo", !.dest = i]
                  ELSE [task[t] EXCEPT !.pc = "lock"]
  <1>1. Still /\ UNCHANGED fds /\ task[t].pc = "walkTo" BY DEF RenameFindTo, Still, AtLast
  <1>2. task' = [task EXCEPT ![t] = r] BY TaskFacts DEF RenameFindTo, Goto
  <1>3. TaskOK(task[t], inodes, changes) /\ task[t] \in TaskType BY TaskFacts
  <1>4. Has(cur, Last(t)) => i \in Nat BY TaskFacts, Child, IdsAreNumbers DEF Inv
  <1>5. /\ r \in TaskType /\ r.target = task[t].target /\ r.seen = task[t].seen
        /\ r.cur = cur /\ r.rest = task[t].rest /\ r.call = task[t].call
        /\ r.from = task[t].from /\ r.name = task[t].name
        /\ r.pc = IF Has(cur, Last(t)) THEN "checkTo" ELSE "lock"
        /\ Has(cur, Last(t)) => r.dest = i
    <2>1. CASE Has(cur, Last(t))
      BY <1>3, <1>4, <2>1 DEF TaskType, Moving
    <2>2. CASE ~Has(cur, Last(t))
      BY <1>3, <2>2 DEF TaskType, Moving
    <2> QED BY <2>1, <2>2
  <1> HIDE DEF r
  <1>6. task[t].seen = changes => Entry(inodes, task[t].from, task[t].name, task[t].target)
    BY <1>1, <1>3, SMTT(30) DEF TaskOK, Checked, Moving
  <1>7. r.seen = changes => Checked(r, inodes)
    BY <1>5, <1>6 DEF Checked, Removing, Moving, Last, Has, Entry
  <1>8. TaskOK(r, inodes, changes)
    BY <1>1, <1>3, <1>5, <1>7 DEF TaskOK, Removing, Moving
  <1>9. TasksInv' BY <1>1, <1>2, <1>8, OneTask DEF Inv, Still
  <1> QED BY <1>1, <1>9, StillInv

LEMMA RenameCheckInv == ASSUME Inv, NEW t \in Threads, RenameCheck(t) PROVE Inv'
  <1> DEFINE dest == task[t].dest
             refused == \/ inodes[dest].dir # inodes[task[t].target].dir
                        \/ inodes[dest].dir /\ ~IsEmpty(dest)
             r == [task[t] EXCEPT !.pc = "lock"]
  <1>1. Still /\ UNCHANGED fds /\ task[t].pc = "checkTo" BY DEF RenameCheck, Still
  <1>2. CASE Return(t, "error") BY <1>1, <1>2, ReturnTasks, StillInv
  <1>3. CASE ~refused /\ Goto(t, "lock")
    <2>1. task' = [task EXCEPT ![t] = r] BY <1>3, TaskFacts DEF Goto
    <2>2. TaskOK(task[t], inodes, changes) /\ task[t] \in TaskType BY TaskFacts
    <2>3. /\ r \in TaskType /\ r.pc = "lock" /\ r.target = task[t].target /\ r.seen = task[t].seen
          /\ r.cur = task[t].cur /\ r.rest = task[t].rest /\ r.call = task[t].call
          /\ r.from = task[t].from /\ r.name = task[t].name
      BY <2>2, ZenonT(60) DEF TaskType, Moving
    <2> HIDE DEF r
    <2>4. task[t].seen = changes =>
             /\ Entry(inodes, task[t].from, task[t].name, task[t].target)
             /\ Entry(inodes, r.cur, Head(r.rest), dest)
      BY <1>1, <2>2, <2>3, SMTT(30) DEF TaskOK, Checked, Moving
    <2>5. /\ inodes[dest].dir = inodes[r.target].dir
          /\ inodes[dest].dir => DOMAIN inodes[dest].entries = {}
      BY <1>3, <2>3 DEF IsEmpty
    <2>6. r.seen = changes => Checked(r, inodes)
      BY <2>3, <2>4, <2>5 DEF Checked, Removing, Moving, Entry
    <2>7. TaskOK(r, inodes, changes)
      BY <1>1, <2>2, <2>3, <2>6 DEF TaskOK, Removing, Moving
    <2>8. TasksInv' BY <1>1, <2>1, <2>7, OneTask DEF Inv, Still
    <2> QED BY <1>1, <2>8, StillInv
  <1> QED BY <1>2, <1>3 DEF RenameCheck

LEMMA RenameLockInv == ASSUME Inv, NEW t \in Threads, RenameLock(t) PROVE Inv'
  <1> DEFINE r == [task[t] EXCEPT !.pc = "locked"]
  <1>1. Still /\ UNCHANGED fds /\ task[t].pc = "lock" /\ Goto(t, "locked") BY DEF RenameLock, Still
  <1>2. task' = [task EXCEPT ![t] = r] BY <1>1, TaskFacts DEF Goto
  <1>3. TaskOK(task[t], inodes, changes) /\ task[t] \in TaskType BY TaskFacts
  <1>4. /\ r \in TaskType /\ r.pc = "locked" /\ r.target = task[t].target /\ r.seen = task[t].seen
        /\ r.cur = task[t].cur /\ r.rest = task[t].rest /\ r.call = task[t].call
        /\ r.from = task[t].from /\ r.name = task[t].name
    BY <1>3, ZenonT(60) DEF TaskType, Moving
  <1> HIDE DEF r
  <1>5. task[t].seen = changes => Checked(task[t], inodes) BY <1>3 DEF TaskOK
  <1>6. r.seen = changes => Checked(r, inodes)
    BY <1>1, <1>4, <1>5 DEF Checked, Removing, Moving
  <1>7. TaskOK(r, inodes, changes)
    BY <1>1, <1>3, <1>4, <1>6 DEF TaskOK, Removing, Moving
  <1>8. TasksInv' BY <1>1, <1>2, <1>7, OneTask DEF Inv, Still
  <1> QED BY <1>1, <1>8, StillInv

\* RenameMove changes the tree, and keeps all inodes.
LEMMA MoveGrows ==
    ASSUME Inv, NEW t \in Threads, RenameMove(t), Has(task[t].from, task[t].name)
    PROVE  /\ TreeInv' /\ Grows
           /\ \A i \in Ids : Links(i) # {} /\ Links(i)' = {} =>
                 Has(task[t].cur, Last(t)) /\ inodes[task[t].cur].entries[Last(t)] = i
  <1>1. task[t].cur \in Ids /\ task[t].from \in Ids BY TaskFacts
  <1>2. Last(t) \in Names
    <2>1. task[t].pc # "idle" BY DEF RenameMove
    <2> QED BY <2>1, RestFacts
  <1>3. Moves(task[t].from, task[t].cur, task[t].name, Last(t)) BY DEF RenameMove, Moves
  <1>4. changes' = changes + 1 BY DEF RenameMove
  <1>5. /\ TreeInv' /\ Ids' = Ids
        /\ \A i \in Ids : Links(i) # {} /\ Links(i)' = {} =>
              Has(task[t].cur, Last(t)) /\ inodes[task[t].cur].entries[Last(t)] = i
    BY <1>1, <1>2, <1>3, MoveTree DEF Inv
  <1> QED BY <1>4, <1>5 DEF Grows, Ids

LEMMA RenameMoveInv == ASSUME Inv, NEW t \in Threads, RenameMove(t) PROVE Inv'
  <1>1. UNCHANGED fds BY DEF RenameMove
  <1>2. CASE Has(task[t].from, task[t].name)
    <2>1. TreeInv' /\ Grows BY <1>2, MoveGrows
    <2>2. Return(t, "ok") BY <1>2 DEF RenameMove
    <2>3. TasksInv' BY <2>1, <2>2, ReturnTasks
    <2> QED BY <1>1, <2>1, <2>3, GrowsInv
  <1>3. CASE ~Has(task[t].from, task[t].name)
    <2>1. Return(t, "error") /\ Still BY <1>3 DEF RenameMove, Still
    <2> QED BY <1>1, <2>1, ReturnTasks, StillInv
  <1> QED BY <1>2, <1>3

LEMMA InitInv == Init => Inv
  <1> SUFFICES ASSUME Init PROVE Inv
    OBVIOUS
  <1>1. WellFormed(inodes) BY TreeAssumption DEF Init
  <1>2. TreeInv
    <2>1. Cardinality(Ids) \in Nat BY <1>1, FS_CardinalityType DEF WellFormed, Ids
    <2>2. Ids = 0 .. Cardinality(Ids) - 1 /\ 0 \in Ids BY <1>1 DEF WellFormed, Ids, Root
    <2> DEFINE n == Cardinality(Ids) - 1
    <2>3. n \in Nat /\ Ids = 0 .. n BY <2>1, <2>2
    <2>4. inodes \in [Ids -> Node(Ids)] /\ Injective(inodes)
      BY <1>1 DEF WellFormed, Injective, Ids
    <2> HIDE DEF n
    <2> QED BY <2>3, <2>4 DEF TreeInv
  <1>3. TasksInv
    <2>1. Root \in DOMAIN inodes BY <1>2, RootInTree DEF Ids
    <2>2. TaskOK(Idle, inodes, 0) BY <2>1, IdleType, AtRest
    <2>3. Idle \in TaskType BY <2>2 DEF TaskOK
    <2>4. changes = 0 /\ task = [t \in Threads |-> Idle] BY DEF Init
    <2> QED BY <2>2, <2>3, <2>4 DEF TasksInv
  <1>4. FdsInv BY DEF Init, FdsInv
  <1> QED BY <1>2, <1>3, <1>4 DEF Inv

LEMMA NextInv == Inv /\ [Next]_vars => Inv'
  <1> SUFFICES ASSUME Inv, [Next]_vars PROVE Inv'
    OBVIOUS
  <1>1. CASE UNCHANGED vars
    BY <1>1 DEF vars, Inv, TreeInv, TasksInv, FdsInv, Ids
  <1>2. ASSUME NEW t \in Threads, Begin(t) \/ Step(t) PROVE Inv'
    BY <1>2, BeginInv, WalkInv, LookupInv, OpenFindInv, OpenCreateInv, OpenRefindInv, OpenedInv,
       MkdirInv, MkdirPInv, RemoveFindInv, RemoveCheckInv, RemoveInv, RenameFindInv,
       RenameFindToInv, RenameCheckInv, RenameLockInv, RenameMoveInv DEF Step
  <1> QED BY <1>1, <1>2 DEF Next

LEMMA Invariance == Spec => []Inv
  BY InitInv, NextInv, PTL DEF Spec

-----------------------------------------------------------------------------
(***************************************************************************)
(* Theorems                                                                *)
(***************************************************************************)

\* Every inode is entered in at most one place.
THEOREM OneLinkHolds == Spec => []OneLink
  <1>1. Inv => OneLink
    <2> SUFFICES ASSUME Inv, NEW i \in Ids PROVE Cardinality(Links(i)) <= 1
      BY DEF OneLink
    <2>1. ASSUME NEW l \in Links(i), NEW k \in Links(i) PROVE l = k
      <3>1. /\ l \in Ids \X Names /\ k \in Ids \X Names
            /\ l[2] \in DOMAIN inodes[l[1]].entries /\ k[2] \in DOMAIN inodes[k[1]].entries
            /\ inodes[l[1]].entries[l[2]] = inodes[k[1]].entries[k[2]]
        BY DEF Links, Has
      <3>2. l[1] \in Ids /\ k[1] \in Ids BY <3>1
      <3>3. l[1] = k[1] /\ l[2] = k[2] BY <3>1, <3>2 DEF Inv, TreeInv, Injective, Ids
      <3> QED BY <3>1, <3>3
    <2>2. CASE Links(i) = {} BY <2>2, FS_EmptySet
    <2>3. CASE Links(i) # {}
      <3>1. PICK l : l \in Links(i) BY <2>3
      <3>2. Links(i) = {l} BY <2>1, <3>1
      <3> QED BY <3>2, FS_Singleton
    <2> QED BY <2>2, <2>3
  <1> QED BY <1>1, Invariance, PTL

\* A step that takes a call back to "idle", and an inode out of the tree, is a
\* Remove or a RenameMove of that call.
LEMMA TakesOut ==
    ASSUME Inv, [Next]_vars, NEW t \in Threads, NEW i \in Ids,
           task[t].pc # "idle", task'[t].pc = "idle", Links(i) # {}, Links(i)' = {}
    PROVE  Remove(t) \/ (RenameMove(t) /\ Has(task[t].from, task[t].name))
  <1>1. task' # task OBVIOUS
  <1>2. PICK u \in Threads : Begin(u) \/ Step(u) BY <1>1 DEF Next, vars
  <1>3. inodes' # inodes BY DEF Links, Has, Ids
  <1>4. ~(\A j \in Ids : Links(j) \subseteq Links(j)') OBVIOUS
  <1>5. ~\E node \in {File, EmptyDir} :
            ~Has(task[u].cur, Last(u)) /\ task[u].pc # "idle" /\ CreateInode(task[u].cur, Last(u), node)
    BY <1>4, CreateGrows
  <1>6. ~OpenCreate(u) /\ ~Mkdir(u)
    BY <1>3, <1>5, SMTT(30) DEF OpenCreate, Mkdir, AtLast
  <1>7. ~MkdirP(u)
    BY <1>3, <1>5 DEF MkdirP
  <1>8. /\ ~Begin(u) /\ ~Walk(u) /\ ~Lookup(u) /\ ~OpenFind(u) /\ ~OpenRefind(u) /\ ~Opened(u)
        /\ ~RemoveFind(u) /\ ~RemoveCheck(u) /\ ~RenameFind(u) /\ ~RenameFindTo(u)
        /\ ~RenameCheck(u) /\ ~RenameLock(u)
    BY <1>3 DEF Begin, Walk, Lookup, OpenFind, OpenRefind, Opened, RemoveFind, RemoveCheck,
                RenameFind, RenameFindTo, RenameCheck, RenameLock
  <1>9. Remove(u) \/ RenameMove(u)
    BY <1>2, <1>6, <1>7, <1>8 DEF Step
  <1>10. RenameMove(u) => Has(task[u].from, task[u].name) BY <1>3 DEF RenameMove
  <1>11. u = t
    <2> SUFFICES ASSUME u # t PROVE task'[t] = task[t]
      OBVIOUS
    <2>1. task \in [Threads -> TaskType] BY TaskFacts
    <2>2. Return(u, "ok") BY <1>9, <1>10 DEF Remove, RenameMove
    <2> QED BY <2>1, <2>2 DEF Return
  <1> QED BY <1>9, <1>10, <1>11

\* Unless a directory changed since it looked, a call takes out what it checked.
THEOREM RemovesWhatItCheckedHolds == Spec => RemovesWhatItChecked
  <1> DEFINE Kept == \A t \in Threads, i \in Ids :
          /\ task[t].pc # "idle" /\ task'[t].pc = "idle" /\ task[t].seen = changes
          /\ Links(i) # {} /\ Links(i)' = {}
          => IF Op(t) = "rmdir" THEN inodes[i].dir /\ IsEmpty(i)
             ELSE inodes[i].dir => Op(t) = "rename" /\ IsEmpty(i)
  <1>1. Inv /\ [Next]_vars => [Kept]_vars
    <2> SUFFICES ASSUME Inv, [Next]_vars, NEW t \in Threads, NEW i \in Ids,
                        task[t].pc # "idle", task'[t].pc = "idle", task[t].seen = changes,
                        Links(i) # {}, Links(i)' = {}
                 PROVE  IF Op(t) = "rmdir" THEN inodes[i].dir /\ IsEmpty(i)
                        ELSE inodes[i].dir => Op(t) = "rename" /\ IsEmpty(i)
      OBVIOUS
    <2>1. TaskOK(task[t], inodes, changes) /\ Checked(task[t], inodes)
      BY TaskFacts DEF TaskOK
    <2>2. CASE Remove(t)
      <3>1. task[t].pc = "remove" BY <2>2 DEF Remove
      <3>2. inodes[task[t].cur].entries[Last(t)] = i BY <2>2, RemoveGrows
      <3>3. task[t].target = i BY <2>1, <3>1, <3>2 DEF Checked, Removing, Entry, Last
      <3>4. Op(t) \in {"unlink", "rmdir"} BY <2>1, <3>1 DEF TaskOK, Removing, Op
      <3>5. IF Op(t) = "unlink" THEN ~inodes[i].dir ELSE inodes[i].dir /\ IsEmpty(i)
        BY <2>1, <3>1, <3>3 DEF Checked, Op, IsEmpty
      <3> QED BY <3>4, <3>5
    <2>3. CASE RenameMove(t) /\ Has(task[t].from, task[t].name)
      <3>1. task[t].pc \in {"lock", "locked"} BY <2>3 DEF RenameMove
      <3>2. Has(task[t].cur, Last(t)) /\ inodes[task[t].cur].entries[Last(t)] = i
        BY <2>3, MoveGrows
      <3>3. Op(t) = "rename" BY <2>1, <3>1 DEF TaskOK, Moving, Op
      <3>4. inodes[i].dir => IsEmpty(i)
        BY <2>1, <3>1, <3>2 DEF Checked, Has, Last, IsEmpty
      <3> QED BY <3>3, <3>4
    <2> QED BY <2>2, <2>3, TakesOut
  <1> QED BY <1>1, Invariance, PTL DEF Spec, RemovesWhatItChecked
=============================================================================
