----------------------------- MODULE WasiProofs -----------------------------
(***************************************************************************)
(* Proof that a lease covers the write descriptors on its path, for the    *)
(* static adapter and the native host and whatever their guests do.        *)
(*                                                                         *)
(* Between the steps of a call the counts do not agree: an open has its    *)
(* reference before its descriptor, and a drop gives up the descriptor     *)
(* before its reference.  The call that is under way has a claim to that   *)
(* reference, and a lease covers descriptors and claims.                   *)
(***************************************************************************)
EXTENDS WasiSystem, SyncedFilesProofs

IsSeq(q) == q \in Seq({q[k] : k \in DOMAIN q})

\* What is left of a call: hooks and calls of fs-core, one on_close among them
\* at most; or the two steps of an open, or its second.
Plain(q) == \A k \in 1 .. Len(q) : q[k].op \notin {"on_open", "open", "on_close"}
Hooks(q) ==
    /\ \A k \in 1 .. Len(q) : q[k].op \notin {"on_open", "open"}
    /\ \A j, k \in 1 .. Len(q) : q[j].op = "on_close" /\ q[k].op = "on_close" => j = k
Opening(q) ==
    /\ Len(q) = 2 /\ q[1].op = "on_open" /\ q[2].op = "open"
    /\ q[2].p = q[1].p /\ q[2].write = q[1].write
Opened(q) == Len(q) = 1 /\ q[1].op = "open"
Shape(q) == IsSeq(q) /\ (Hooks(q) \/ Opening(q) \/ Opened(q))

\* The call has a claim to a reference of the lease of p.
Claims(q, p) ==
    \/ \E k \in 1 .. Len(q) : q[k].op = "on_close" /\ q[k].p = p
    \/ Opened(q) /\ q[1].write /\ q[1].p = p

WritersAt(p) == {h \in DOMAIN descs : descs[h].live /\ descs[h].write /\ descs[h].path = p}
ClaimsAt(p) == {c \in Clients : Claims(todo[c], p)}

\* References are kept: with file locks, and in the host until it is shut down.
Counting == config.lock /\ Running

TodoOK == DOMAIN todo = Clients /\ \A c \in Clients : Shape(todo[c])
IsDesc(d) ==
    d = [c |-> d.c, fd |-> d.fd, path |-> d.path, write |-> d.write, dirty |-> d.dirty, live |-> d.live]
DescsOK == IsSeq(descs) /\ \A h \in DOMAIN descs : IsDesc(descs[h])
Covered(p) ==
    /\ IsFiniteSet(ClaimsAt(p))
    /\ leases[p].refs >= Cardinality(WritersAt(p)) + Cardinality(ClaimsAt(p))
CountsOK == LeasesOK /\ TodoOK /\ DescsOK /\ \A p \in Paths : Covered(p)

Inv ==
    /\ thread = [state |-> thread.state, closing |-> thread.closing, due |-> thread.due]
    /\ config.frontend # "host" => thread.state = "done"
    /\ Counting => CountsOK

-----------------------------------------------------------------------------
(***************************************************************************)
(* Sequences of steps                                                      *)
(***************************************************************************)

\* A sequence over any set is one over its own elements.
LEMMA SeqIsSeq ==
    ASSUME NEW S, NEW q \in Seq(S)
    PROVE  IsSeq(q) /\ Len(q) \in Nat /\ DOMAIN q = 1 .. Len(q)
<1>1. Len(q) \in Nat /\ DOMAIN q = 1 .. Len(q) /\ q = [k \in 1 .. Len(q) |-> q[k]]
    OBVIOUS
<1> DEFINE T == {q[k] : k \in DOMAIN q}
<1>2. \A k \in 1 .. Len(q) : q[k] \in T
    BY <1>1
<1> HIDE DEF T
<1>3. q \in Seq(T)
    BY <1>1, <1>2
<1> QED BY <1>1, <1>3 DEF IsSeq, T

\* A function on 1 .. n is a sequence.
LEMMA FunctionIsSeq ==
    ASSUME NEW S, NEW n \in Nat, NEW q \in [1 .. n -> S]
    PROVE  q \in Seq(S)
OBVIOUS

LEMMA SeqFacts ==
    ASSUME NEW q, IsSeq(q)
    PROVE  Len(q) \in Nat /\ DOMAIN q = 1 .. Len(q)
BY DEF IsSeq

LEMMA SeqOne ==
    ASSUME NEW a
    PROVE  IsSeq(<<a>>) /\ Len(<<a>>) = 1 /\ <<a>>[1] = a
<1>1. <<a>> \in Seq({a})
    OBVIOUS
<1> QED BY <1>1, SeqIsSeq

LEMMA SeqTwo ==
    ASSUME NEW a, NEW b
    PROVE  IsSeq(<<a, b>>) /\ Len(<<a, b>>) = 2 /\ <<a, b>>[1] = a /\ <<a, b>>[2] = b
<1>1. <<a, b>> \in Seq({a, b})
    OBVIOUS
<1> QED BY <1>1, SeqIsSeq

\* The rest of a sequence, element by element.
LEMMA SeqTail ==
    ASSUME NEW q, IsSeq(q), q # <<>>
    PROVE  /\ IsSeq(Tail(q)) /\ Head(q) = q[1]
           /\ Len(q) \in Nat /\ Len(q) > 0 /\ Len(Tail(q)) = Len(q) - 1
           /\ \A k \in 1 .. Len(q) - 1 : Tail(q)[k] = q[k + 1] /\ k + 1 \in 1 .. Len(q)
<1> DEFINE S == {q[k] : k \in DOMAIN q}
<1>1. q \in Seq(S)
    BY DEF IsSeq
<1> HIDE DEF S
<1>2. Tail(q) \in Seq(S) /\ Len(q) > 0 /\ Len(q) \in Nat /\ Len(Tail(q)) = Len(q) - 1 /\ Head(q) = q[1]
    BY <1>1
<1>3. \A k \in 1 .. Len(q) - 1 : Tail(q)[k] = q[k + 1] /\ k + 1 \in 1 .. Len(q)
    BY <1>1, <1>2
<1> QED BY <1>2, <1>3, SeqIsSeq

\* Two sequences one after the other, element by element.
LEMMA SeqCat ==
    ASSUME NEW a, NEW b, IsSeq(a), IsSeq(b)
    PROVE  /\ IsSeq(a \o b) /\ Len(a) \in Nat /\ Len(b) \in Nat /\ Len(a \o b) = Len(a) + Len(b)
           /\ \A k \in 1 .. Len(a) : (a \o b)[k] = a[k]
           /\ \A k \in Len(a) + 1 .. Len(a) + Len(b) : (a \o b)[k] = b[k - Len(a)] /\ k - Len(a) \in 1 .. Len(b)
<1> DEFINE S == {a[k] : k \in DOMAIN a}
           T == {b[k] : k \in DOMAIN b}
<1>1. a \in Seq(S) /\ b \in Seq(T)
    BY DEF IsSeq
<1> HIDE DEF S, T
<1>2. a \in Seq(S \union T) /\ b \in Seq(S \union T)
    BY <1>1
<1>3. a \o b \in Seq(S \union T)
    BY <1>2
<1>4. IsSeq(a \o b)
    BY <1>3, SeqIsSeq
<1> QED BY <1>1, <1>2, <1>4

\* Nothing left to do, one or two steps, and steps put together: without open,
\* on_open and on_close.
LEMMA EmptyIsPlain == IsSeq(<<>>) /\ Len(<<>>) = 0 /\ Plain(<<>>)
<1>1. <<>> \in Seq({}) /\ Len(<<>>) = 0
    OBVIOUS
<1>2. IsSeq(<<>>)
    BY <1>1, SeqIsSeq
<1>3. Plain(<<>>)
    BY <1>1 DEF Plain
<1> QED BY <1>1, <1>2, <1>3

LEMMA OneIsPlain ==
    ASSUME NEW op, NEW p, NEW fd, op \notin {"on_open", "open", "on_close"}
    PROVE  IsSeq(<<Do(op, p, fd)>>) /\ Plain(<<Do(op, p, fd)>>)
<1>1. PICK d : d = Do(op, p, fd)
    OBVIOUS
<1>2. d.op = op
    BY <1>1 DEF Do
<1>3. IsSeq(<<d>>) /\ Len(<<d>>) = 1 /\ <<d>>[1] = d
    BY SeqOne
<1>4. Plain(<<d>>)
    BY <1>2, <1>3 DEF Plain
<1> QED BY <1>1, <1>3, <1>4

LEMMA TwoArePlain ==
    ASSUME NEW op1, NEW p1, NEW fd1, op1 \notin {"on_open", "open", "on_close"},
           NEW op2, NEW p2, NEW fd2, op2 \notin {"on_open", "open", "on_close"}
    PROVE  IsSeq(<<Do(op1, p1, fd1), Do(op2, p2, fd2)>>) /\ Plain(<<Do(op1, p1, fd1), Do(op2, p2, fd2)>>)
<1>1. PICK d, e : d = Do(op1, p1, fd1) /\ e = Do(op2, p2, fd2)
    OBVIOUS
<1>2. d.op = op1 /\ e.op = op2
    BY <1>1 DEF Do
<1>3. IsSeq(<<d, e>>) /\ Len(<<d, e>>) = 2 /\ <<d, e>>[1] = d /\ <<d, e>>[2] = e
    BY SeqTwo
<1>4. Plain(<<d, e>>)
    BY <1>2, <1>3 DEF Plain
<1> QED BY <1>1, <1>3, <1>4

LEMMA CatIsPlain ==
    ASSUME NEW a, NEW b, IsSeq(a), IsSeq(b), Plain(a), Plain(b)
    PROVE  IsSeq(a \o b) /\ Plain(a \o b)
<1>1. /\ IsSeq(a \o b) /\ Len(a) \in Nat /\ Len(b) \in Nat /\ Len(a \o b) = Len(a) + Len(b)
      /\ \A k \in 1 .. Len(a) : (a \o b)[k] = a[k]
      /\ \A k \in Len(a) + 1 .. Len(a) + Len(b) : (a \o b)[k] = b[k - Len(a)] /\ k - Len(a) \in 1 .. Len(b)
    BY SeqCat
<1>2. PICK q : q = a \o b
    OBVIOUS
<1>3. ASSUME NEW k \in 1 .. Len(q) PROVE q[k].op \notin {"on_open", "open", "on_close"}
    <2>1. CASE k <= Len(a)
        <3>1. k \in 1 .. Len(a) /\ q[k] = a[k]
            BY <1>1, <1>2, <2>1
        <3> QED BY <3>1 DEF Plain
    <2>2. CASE k > Len(a)
        <3>1. q[k] = b[k - Len(a)] /\ k - Len(a) \in 1 .. Len(b)
            BY <1>1, <1>2, <2>2
        <3> QED BY <3>1 DEF Plain
    <2> QED BY <1>1, <2>1, <2>2
<1>4. Plain(q)
    BY <1>3 DEF Plain
<1> QED BY <1>1, <1>2, <1>4

LEMMA IfIsPlain ==
    ASSUME NEW a, NEW cond, IsSeq(a), Plain(a)
    PROVE  IsSeq(If(cond, a)) /\ Plain(If(cond, a))
<1>1. If(cond, a) = a \/ If(cond, a) = <<>>
    BY DEF If
<1> QED BY <1>1, EmptyIsPlain

\* Without them there is no claim.
LEMMA PlainShape ==
    ASSUME NEW q, IsSeq(q), Plain(q)
    PROVE  Shape(q) /\ \A p : ~Claims(q, p)
<1>1. Hooks(q)
    BY DEF Plain, Hooks
<1>2. ~Opened(q)
    BY DEF Opened, Plain
<1> QED BY <1>1, <1>2 DEF Shape, Claims, Plain

\* One step of a call is an on_close, of p.
LEMMA ClosingShape ==
    ASSUME NEW q, IsSeq(q), NEW p, NEW m \in 1 .. Len(q), q[m].op = "on_close", q[m].p = p,
           \A k \in 1 .. Len(q) : k # m => q[k].op \notin {"on_open", "open", "on_close"}
    PROVE  Shape(q) /\ \A r : Claims(q, r) => r = p
<1>1. Hooks(q)
    BY DEF Hooks
<1>2. ~Opened(q)
    BY DEF Opened
<1> QED BY <1>1, <1>2 DEF Shape, Claims

\* An open that waits for its hook has no claim yet ...
LEMMA OpeningShape ==
    ASSUME NEW d, NEW e, d.op = "on_open", e.op = "open", e.p = d.p, e.write = d.write
    PROVE  Shape(<<d, e>>) /\ \A p : ~Claims(<<d, e>>, p)
<1>1. PICK q : q = <<d, e>>
    OBVIOUS
<1>2. IsSeq(q) /\ Len(q) = 2 /\ q[1] = d /\ q[2] = e
    BY <1>1, SeqTwo
<1>3. Opening(q) /\ ~Opened(q)
    BY <1>2 DEF Opening, Opened
<1>4. \A k \in 1 .. Len(q) : k = 1 \/ k = 2
    BY <1>2
<1>5. ASSUME NEW k \in 1 .. Len(q) PROVE q[k].op # "on_close"
    BY <1>2, <1>4
<1>6. \A p : ~Claims(q, p)
    BY <1>3, <1>5 DEF Claims
<1> QED BY <1>1, <1>2, <1>3, <1>6 DEF Shape

\* ... and one that only has the open left has a claim if it is for writing.
LEMMA OpenedShape ==
    ASSUME NEW d, d.op = "open"
    PROVE  Shape(<<d>>) /\ \A p : Claims(<<d>>, p) => d.write /\ d.p = p
<1>1. PICK q : q = <<d>>
    OBVIOUS
<1>2. IsSeq(q) /\ Len(q) = 1 /\ q[1] = d
    BY <1>1, SeqOne
<1>3. Opened(q)
    BY <1>2 DEF Opened
<1>5. ASSUME NEW k \in 1 .. Len(q) PROVE q[k].op # "on_close"
    BY <1>2
<1>6. \A p : Claims(q, p) => d.write /\ d.p = p
    BY <1>2, <1>5 DEF Claims
<1> QED BY <1>1, <1>2, <1>3, <1>6 DEF Shape

\* What is left after a step that is not on_open.
LEMMA TailShape ==
    ASSUME NEW q, Shape(q), q # <<>>, Head(q).op # "on_open"
    PROVE  /\ Shape(Tail(q))
           /\ \A p : Claims(Tail(q), p) => Claims(q, p)
           /\ Head(q).op = "on_close" => \A p : ~Claims(Tail(q), p)
           /\ Head(q).op = "on_close" => Claims(q, Head(q).p)
           /\ Head(q).op = "open" => \A p : ~Claims(Tail(q), p)
           /\ Head(q).op = "open" /\ Head(q).write => Claims(q, Head(q).p)
<1>1. /\ IsSeq(Tail(q)) /\ Head(q) = q[1]
      /\ Len(q) \in Nat /\ Len(q) > 0 /\ Len(Tail(q)) = Len(q) - 1
      /\ \A k \in 1 .. Len(q) - 1 : Tail(q)[k] = q[k + 1] /\ k + 1 \in 1 .. Len(q)
    BY SeqTail DEF Shape
<1>2. PICK t : t = Tail(q)
    OBVIOUS
<1>3. \A k \in 1 .. Len(t) : t[k] = q[k + 1] /\ k + 1 \in 1 .. Len(q)
    BY <1>1, <1>2
<1>4. 1 \in 1 .. Len(q)
    BY <1>1
<1>5. ~Opening(q)
    BY <1>1 DEF Opening
<1>6. CASE Opened(q)
    <2>1. Len(t) = 0 /\ q[1].op = "open"
        BY <1>1, <1>2, <1>6 DEF Opened
    <2>2. Hooks(t) /\ ~Opened(t) /\ \A k \in 1 .. Len(t) : FALSE
        BY <2>1 DEF Hooks, Opened
    <2>3. \A p : ~Claims(t, p)
        BY <2>2 DEF Claims
    <2>4. q[1].write => Claims(q, q[1].p)
        BY <1>6 DEF Claims
    <2> QED BY <1>1, <1>2, <2>1, <2>2, <2>3, <2>4 DEF Shape
<1>7. CASE Hooks(q)
    <2>1. Hooks(t)
        <3>1. \A k \in 1 .. Len(t) : t[k].op \notin {"on_open", "open"}
            BY <1>3, <1>7 DEF Hooks
        <3>2. ASSUME NEW j \in 1 .. Len(t), NEW k \in 1 .. Len(t), t[j].op = "on_close", t[k].op = "on_close"
              PROVE  j = k
            <4>1. j + 1 = k + 1
                BY <1>3, <1>7, <3>2 DEF Hooks
            <4> QED BY <4>1
        <3> QED BY <3>1, <3>2 DEF Hooks
    <2>2. ~Opened(t) /\ q[1].op # "open"
        BY <2>1, <1>4, <1>7 DEF Hooks, Opened
    <2>3. ASSUME NEW p, Claims(t, p) PROVE Claims(q, p) /\ q[1].op # "on_close"
        <3>1. PICK k \in 1 .. Len(t) : t[k].op = "on_close" /\ t[k].p = p
            BY <2>2, <2>3 DEF Claims
        <3>2. k + 1 \in 1 .. Len(q) /\ q[k + 1].op = "on_close" /\ q[k + 1].p = p
            BY <1>3, <3>1
        <3>3. Claims(q, p)
            BY <3>2 DEF Claims
        <3>4. k + 1 # 1
            OBVIOUS
        <3>5. q[1].op # "on_close"
            BY <1>4, <1>7, <3>2, <3>4 DEF Hooks
        <3> QED BY <3>3, <3>5
    <2>4. q[1].op = "on_close" => Claims(q, q[1].p)
        BY <1>4 DEF Claims
    <2> QED BY <1>1, <1>2, <2>1, <2>2, <2>3, <2>4 DEF Shape
<1> QED BY <1>5, <1>6, <1>7 DEF Shape

\* What is left after on_open: the open, with a claim if it is for writing.
LEMMA OnOpenShape ==
    ASSUME NEW q, Shape(q), q # <<>>, Head(q).op = "on_open"
    PROVE  Shape(Tail(q)) /\ \A p : Claims(Tail(q), p) => Head(q).write /\ Head(q).p = p
<1>1. /\ IsSeq(Tail(q)) /\ Head(q) = q[1]
      /\ Len(q) \in Nat /\ Len(q) > 0 /\ Len(Tail(q)) = Len(q) - 1
      /\ \A k \in 1 .. Len(q) - 1 : Tail(q)[k] = q[k + 1] /\ k + 1 \in 1 .. Len(q)
    BY SeqTail DEF Shape
<1>2. PICK t : t = Tail(q)
    OBVIOUS
<1>3. 1 \in 1 .. Len(q)
    BY <1>1
<1>4. Opening(q)
    <2>1. ~Hooks(q)
        BY <1>1, <1>3 DEF Hooks
    <2>2. ~Opened(q)
        BY <1>1 DEF Opened
    <2> QED BY <2>1, <2>2 DEF Shape
<1>5. Len(t) = 1 /\ t[1] = q[2]
    <2>1. Len(q) = 2
        BY <1>4 DEF Opening
    <2>2. Len(q) - 1 = 1 /\ Len(t) = Len(q) - 1
        BY <1>1, <1>2, <2>1
    <2>3. \A k \in 1 .. 1 : t[k] = q[k + 1]
        BY <1>1, <1>2, <2>2, Zenon
    <2> QED BY <2>2, <2>3
<1>6. Opened(t) /\ t[1].p = q[1].p /\ t[1].write = q[1].write
    BY <1>4, <1>5 DEF Opening, Opened
<1>7. ASSUME NEW k \in 1 .. Len(t) PROVE t[k].op # "on_close"
    BY <1>5, <1>6 DEF Opened
<1>8. \A p : Claims(t, p) => q[1].write /\ q[1].p = p
    BY <1>6, <1>7 DEF Claims
<1> QED BY <1>1, <1>2, <1>6, <1>8 DEF Shape

-----------------------------------------------------------------------------
(***************************************************************************)
(* Counts                                                                  *)
(***************************************************************************)

\* A subset, a subset without an element x, and a set with at most one more.
LEMMA CountSubset ==
    ASSUME NEW S, NEW R, IsFiniteSet(S), R \subseteq S
    PROVE  IsFiniteSet(R) /\ Cardinality(R) <= Cardinality(S) /\ Cardinality(R) \in Nat /\ Cardinality(S) \in Nat
<1>1. R \in SUBSET S
    OBVIOUS
<1> QED BY <1>1, FS_Subset, FS_CardinalityType

LEMMA CountWithout ==
    ASSUME NEW S, NEW R, IsFiniteSet(S), NEW x \in S, R \subseteq S \ {x}
    PROVE  IsFiniteSet(R) /\ Cardinality(R) + 1 <= Cardinality(S) /\ Cardinality(R) \in Nat /\ Cardinality(S) \in Nat
<1>1. IsFiniteSet(S \ {x}) /\ Cardinality(S \ {x}) = Cardinality(S) - 1
    BY FS_RemoveElement
<1>2. IsFiniteSet(R) /\ Cardinality(R) <= Cardinality(S \ {x}) /\ Cardinality(R) \in Nat /\ Cardinality(S \ {x}) \in Nat
    BY <1>1, CountSubset
<1>3. Cardinality(S) \in Nat
    BY FS_CardinalityType
<1> QED BY <1>1, <1>2, <1>3

LEMMA CountWith ==
    ASSUME NEW S, NEW R, IsFiniteSet(S), NEW x, R \subseteq S \union {x}
    PROVE  IsFiniteSet(R) /\ Cardinality(R) <= Cardinality(S) + 1 /\ Cardinality(R) \in Nat /\ Cardinality(S) \in Nat
<1>0. Cardinality(S) \in Nat
    BY FS_CardinalityType
<1>1. IsFiniteSet(S \union {x}) /\ (Cardinality(S \union {x}) = Cardinality(S) + 1 \/ Cardinality(S \union {x}) = Cardinality(S))
    BY FS_AddElement
<1>2. IsFiniteSet(R) /\ Cardinality(R) <= Cardinality(S \union {x}) /\ Cardinality(R) \in Nat /\ Cardinality(S \union {x}) \in Nat
    BY <1>1, CountSubset
<1> QED BY <1>0, <1>1, <1>2

\* There are finitely many descriptors.
LEMMA WritersFinite ==
    ASSUME DescsOK, NEW p
    PROVE  IsFiniteSet(WritersAt(p))
<1>1. DOMAIN descs = 1 .. Len(descs) /\ Len(descs) \in Nat
    BY SeqFacts DEF DescsOK
<1>2. IsFiniteSet(1 .. Len(descs))
    <2>1. 1 \in Int /\ Len(descs) \in Int
        BY <1>1
    <2> QED BY <2>1, FS_Interval
<1>3. WritersAt(p) \in SUBSET (1 .. Len(descs))
    BY <1>1 DEF WritersAt
<1> QED BY <1>2, <1>3, FS_Subset

\* A guest's call goes on with q.
LEMMA TodoSet ==
    ASSUME TodoOK, NEW c \in Clients, NEW q, Shape(q), Then(c, q)
    PROVE  /\ TodoOK'
           /\ \A p : ClaimsAt(p)' \subseteq ClaimsAt(p) \union {c}
           /\ \A p : ~Claims(q, p) => ClaimsAt(p)' \subseteq ClaimsAt(p) \ {c}
           /\ \A p : (Claims(q, p) => Claims(todo[c], p)) => ClaimsAt(p)' \subseteq ClaimsAt(p)
<1>1. todo' = [todo EXCEPT ![c] = q]
    BY DEF Then
<1>2. DOMAIN todo' = Clients /\ \A b \in Clients : todo'[b] = IF b = c THEN q ELSE todo[b]
    BY <1>1 DEF TodoOK
<1>3. TodoOK'
    BY <1>2 DEF TodoOK
<1>4. ASSUME NEW p, NEW b \in Clients
      PROVE  Claims(todo'[b], p) <=> (IF b = c THEN Claims(q, p) ELSE Claims(todo[b], p))
    <2>1. CASE b = c
        BY <1>2, <2>1
    <2>2. CASE b # c
        BY <1>2, <2>2
    <2> QED BY <2>1, <2>2
<1>5. \A p : ClaimsAt(p)' = {b \in Clients : IF b = c THEN Claims(q, p) ELSE Claims(todo[b], p)}
    BY <1>4 DEF ClaimsAt
<1>6. \A p : ClaimsAt(p) = {b \in Clients : Claims(todo[b], p)}
    BY DEF ClaimsAt
<1> QED BY <1>3, <1>5, <1>6

\* A descriptor is changed, or dropped.
LEMMA DescSet ==
    ASSUME DescsOK, NEW h \in DOMAIN descs, NEW r, IsDesc(r), descs' = [descs EXCEPT ![h] = r],
           r.path = descs[h].path, r.write = descs[h].write, r.live => descs[h].live
    PROVE  /\ DescsOK'
           /\ \A p : WritersAt(p)' \subseteq WritersAt(p)
           /\ ~r.live => \A p : WritersAt(p)' \subseteq WritersAt(p) \ {h}
<1>1. DOMAIN descs = 1 .. Len(descs) /\ Len(descs) \in Nat
    BY SeqFacts DEF DescsOK
<1>2. DOMAIN descs' = DOMAIN descs /\ \A g \in DOMAIN descs : descs'[g] = IF g = h THEN r ELSE descs[g]
    OBVIOUS
<1>3. IsSeq(descs')
    <2> DEFINE S == {descs[k] : k \in DOMAIN descs} \union {r}
    <2>1. descs' \in [1 .. Len(descs) -> S]
        BY <1>1, <1>2
    <2> HIDE DEF S
    <2>2. PICK n \in Nat : n = Len(descs)
        BY <1>1
    <2>3. descs' \in Seq(S)
        BY <2>1, <2>2, FunctionIsSeq
    <2> QED BY <2>3, SeqIsSeq
<1>4. \A g \in DOMAIN descs' : IsDesc(descs'[g])
    BY <1>2 DEF DescsOK
<1>5. \A p : WritersAt(p)' = {g \in DOMAIN descs' : descs'[g].live /\ descs'[g].write /\ descs'[g].path = p}
    BY DEF WritersAt
<1>6. \A p : WritersAt(p) = {g \in DOMAIN descs : descs[g].live /\ descs[g].write /\ descs[g].path = p}
    BY DEF WritersAt
<1>7. DescsOK'
    BY <1>3, <1>4 DEF DescsOK
<1> QED BY <1>2, <1>5, <1>6, <1>7

\* A descriptor is added.
LEMMA DescNew ==
    ASSUME DescsOK, NEW r, IsDesc(r), descs' = Append(descs, r)
    PROVE  /\ DescsOK'
           /\ \A p : WritersAt(p)' \subseteq WritersAt(p) \union {Len(descs) + 1}
           /\ \A p : ~(r.live /\ r.write /\ r.path = p) => WritersAt(p)' \subseteq WritersAt(p)
<1>1. DOMAIN descs = 1 .. Len(descs) /\ Len(descs) \in Nat
    BY SeqFacts DEF DescsOK
<1> DEFINE S == {descs[k] : k \in DOMAIN descs} \union {r}
<1>2. descs \in Seq(S) /\ r \in S
    <2>1. descs \in Seq({descs[k] : k \in DOMAIN descs})
        BY DEF DescsOK, IsSeq
    <2> QED BY <2>1
<1> HIDE DEF S
<1>3. /\ descs' \in Seq(S) /\ DOMAIN descs' = 1 .. Len(descs) + 1
      /\ descs'[Len(descs) + 1] = r /\ \A g \in 1 .. Len(descs) : descs'[g] = descs[g]
    BY <1>1, <1>2
<1>4. IsSeq(descs')
    BY <1>3, SeqIsSeq
<1>5. \A g \in DOMAIN descs' : g \in DOMAIN descs \/ g = Len(descs) + 1
    BY <1>1, <1>3
<1>6. \A g \in DOMAIN descs : descs'[g] = descs[g]
    BY <1>1, <1>3
<1>7. DescsOK'
    BY <1>3, <1>4, <1>5, <1>6 DEF DescsOK
<1>8. \A p : WritersAt(p)' = {g \in DOMAIN descs' : descs'[g].live /\ descs'[g].write /\ descs'[g].path = p}
    BY DEF WritersAt
<1>9. \A p : WritersAt(p) = {g \in DOMAIN descs : descs[g].live /\ descs[g].write /\ descs[g].path = p}
    BY DEF WritersAt
<1>10. \A p : WritersAt(p)' \subseteq WritersAt(p) \union {Len(descs) + 1}
    BY <1>5, <1>6, <1>8, <1>9
<1>11. ASSUME NEW p, ~(r.live /\ r.write /\ r.path = p) PROVE WritersAt(p)' \subseteq WritersAt(p)
    BY <1>3, <1>5, <1>6, <1>8, <1>9, <1>11
<1> QED BY <1>7, <1>10, <1>11

-----------------------------------------------------------------------------
(***************************************************************************)
(* What a step may do with references, descriptors and claims              *)
(***************************************************************************)

\* Nothing is counted up, and no reference is given back.
LEMMA Quiet ==
    ASSUME CountsOK, LeasesOK', SameRefs, TodoOK', DescsOK',
           \A p \in Paths : WritersAt(p)' \subseteq WritersAt(p) /\ ClaimsAt(p)' \subseteq ClaimsAt(p)
    PROVE  CountsOK'
<1>1. ASSUME NEW p \in Paths PROVE Covered(p)'
    <2>1. IsFiniteSet(ClaimsAt(p)) /\ leases[p].refs >= Cardinality(WritersAt(p)) + Cardinality(ClaimsAt(p))
        BY DEF CountsOK, Covered
    <2>2. IsFiniteSet(WritersAt(p))
        BY WritersFinite DEF CountsOK
    <2>3. /\ Cardinality(WritersAt(p)') <= Cardinality(WritersAt(p))
          /\ Cardinality(WritersAt(p)') \in Nat /\ Cardinality(WritersAt(p)) \in Nat
        BY <2>2, CountSubset
    <2>4. /\ IsFiniteSet(ClaimsAt(p)') /\ Cardinality(ClaimsAt(p)') <= Cardinality(ClaimsAt(p))
          /\ Cardinality(ClaimsAt(p)') \in Nat /\ Cardinality(ClaimsAt(p)) \in Nat
        BY <2>1, CountSubset
    <2>5. leases'[p].refs = leases[p].refs /\ leases[p].refs \in Nat
        BY DEF SameRefs, CountsOK, LeasesOK, LeaseRecords
    <2> QED BY <2>1, <2>3, <2>4, <2>5 DEF Covered
<1> QED BY <1>1 DEF CountsOK

\* A call of c starts, with steps that have no claim yet; or the steps that are
\* left have none the call did not have before.
LEMMA QuietCall ==
    ASSUME CountsOK, LeasesOK', SameRefs, NEW c \in Clients, NEW q, Then(c, q), Shape(q),
           \A p : Claims(q, p) => Claims(todo[c], p),
           DescsOK', \A p \in Paths : WritersAt(p)' \subseteq WritersAt(p)
    PROVE  CountsOK'
<1>1. TodoOK
    BY DEF CountsOK
<1>2. TodoOK' /\ \A p : ClaimsAt(p)' \subseteq ClaimsAt(p)
    BY <1>1, TodoSet
<1> QED BY <1>2, Quiet

\* The descriptor h of c is dropped; if it could write, what is left of the call
\* has a claim for its path.
LEMMA DropStep ==
    ASSUME CountsOK, UNCHANGED leases, NEW c \in Clients, NEW h \in DOMAIN descs, descs[h].live,
           NEW q, Then(c, q), Shape(q),
           \A p : Claims(q, p) => descs[h].write /\ descs[h].path = p,
           DescsOK', \A p : WritersAt(p)' \subseteq WritersAt(p) \ {h}
    PROVE  CountsOK'
<1>1. TodoOK /\ LeasesOK /\ DescsOK
    BY DEF CountsOK
<1>2. /\ TodoOK'
      /\ \A p : ClaimsAt(p)' \subseteq ClaimsAt(p) \union {c}
      /\ \A p : ~Claims(q, p) => ClaimsAt(p)' \subseteq ClaimsAt(p) \ {c}
    BY <1>1, TodoSet
<1>3. LeasesOK'
    BY <1>1 DEF LeasesOK
<1>4. ASSUME NEW p \in Paths PROVE Covered(p)'
    <2>1. IsFiniteSet(ClaimsAt(p)) /\ leases[p].refs >= Cardinality(WritersAt(p)) + Cardinality(ClaimsAt(p))
        BY DEF CountsOK, Covered
    <2>2. IsFiniteSet(WritersAt(p))
        BY <1>1, WritersFinite
    <2>3. leases'[p].refs = leases[p].refs /\ leases[p].refs \in Nat
        BY <1>1 DEF LeasesOK, LeaseRecords
    <2>4. CASE Claims(q, p)
        <3>1. h \in WritersAt(p)
            BY <2>4 DEF WritersAt
        <3>2. /\ Cardinality(WritersAt(p)') + 1 <= Cardinality(WritersAt(p))
              /\ Cardinality(WritersAt(p)') \in Nat /\ Cardinality(WritersAt(p)) \in Nat
            BY <2>2, <3>1, CountWithout
        <3>3. /\ IsFiniteSet(ClaimsAt(p)') /\ Cardinality(ClaimsAt(p)') <= Cardinality(ClaimsAt(p)) + 1
              /\ Cardinality(ClaimsAt(p)') \in Nat /\ Cardinality(ClaimsAt(p)) \in Nat
            BY <1>2, <2>1, CountWith
        <3> QED BY <2>1, <2>3, <3>2, <3>3 DEF Covered
    <2>5. CASE ~Claims(q, p)
        <3>1. WritersAt(p)' \subseteq WritersAt(p) /\ ClaimsAt(p)' \subseteq ClaimsAt(p)
            BY <1>2, <2>5
        <3>2. /\ Cardinality(WritersAt(p)') <= Cardinality(WritersAt(p))
              /\ Cardinality(WritersAt(p)') \in Nat /\ Cardinality(WritersAt(p)) \in Nat
            BY <2>2, <3>1, CountSubset
        <3>3. /\ IsFiniteSet(ClaimsAt(p)') /\ Cardinality(ClaimsAt(p)') <= Cardinality(ClaimsAt(p))
              /\ Cardinality(ClaimsAt(p)') \in Nat /\ Cardinality(ClaimsAt(p)) \in Nat
            BY <2>1, <3>1, CountSubset
        <3> QED BY <2>1, <2>3, <3>2, <3>3 DEF Covered
    <2> QED BY <2>4, <2>5
<1> QED BY <1>2, <1>3, <1>4 DEF CountsOK

\* on_open has got a reference for a call that opens p for writing.
LEMMA OnOpenStep ==
    ASSUME CountsOK, LeasesOK', NEW c \in Clients, NEW o, NEW q, Then(c, q), Shape(q),
           \A p : Claims(q, p) => o = p,
           \A p \in Paths : leases'[p].refs = IF p = o THEN leases[p].refs + 1 ELSE leases[p].refs,
           UNCHANGED descs
    PROVE  CountsOK'
<1>1. TodoOK /\ LeasesOK /\ DescsOK
    BY DEF CountsOK
<1>2. /\ TodoOK'
      /\ \A p : ClaimsAt(p)' \subseteq ClaimsAt(p) \union {c}
      /\ \A p : ~Claims(q, p) => ClaimsAt(p)' \subseteq ClaimsAt(p) \ {c}
    BY <1>1, TodoSet
<1>3. DescsOK' /\ \A p : WritersAt(p)' = WritersAt(p)
    BY <1>1 DEF DescsOK, WritersAt
<1>4. ASSUME NEW p \in Paths PROVE Covered(p)'
    <2>1. IsFiniteSet(ClaimsAt(p)) /\ leases[p].refs >= Cardinality(WritersAt(p)) + Cardinality(ClaimsAt(p))
        BY DEF CountsOK, Covered
    <2>2. Cardinality(WritersAt(p)) \in Nat
        BY <1>1, WritersFinite, FS_CardinalityType
    <2>3. leases[p].refs \in Nat
        BY <1>1 DEF LeasesOK, LeaseRecords
    <2>4. CASE p = o
        <3>1. /\ IsFiniteSet(ClaimsAt(p)') /\ Cardinality(ClaimsAt(p)') <= Cardinality(ClaimsAt(p)) + 1
              /\ Cardinality(ClaimsAt(p)') \in Nat /\ Cardinality(ClaimsAt(p)) \in Nat
            BY <1>2, <2>1, CountWith
        <3>2. leases'[p].refs = leases[p].refs + 1
            BY <2>4
        <3> QED BY <1>3, <2>1, <2>2, <2>3, <3>1, <3>2 DEF Covered
    <2>5. CASE p # o
        <3>1. ClaimsAt(p)' \subseteq ClaimsAt(p)
            BY <1>2, <2>5
        <3>2. /\ IsFiniteSet(ClaimsAt(p)') /\ Cardinality(ClaimsAt(p)') <= Cardinality(ClaimsAt(p))
              /\ Cardinality(ClaimsAt(p)') \in Nat /\ Cardinality(ClaimsAt(p)) \in Nat
            BY <2>1, <3>1, CountSubset
        <3>3. leases'[p].refs = leases[p].refs
            BY <2>5
        <3> QED BY <1>3, <2>1, <2>2, <2>3, <3>2, <3>3 DEF Covered
    <2> QED BY <2>4, <2>5
<1> QED BY <1>1, <1>2, <1>3, <1>4 DEF CountsOK

\* The descriptor r takes the reference that the call had a claim to.
LEMMA OpenStep ==
    ASSUME CountsOK, UNCHANGED leases, NEW c \in Clients, NEW q, Then(c, q), Shape(q),
           \A p : ~Claims(q, p),
           NEW r, IsDesc(r), descs' = Append(descs, r), r.write => Claims(todo[c], r.path)
    PROVE  CountsOK'
<1>1. TodoOK /\ LeasesOK /\ DescsOK
    BY DEF CountsOK
<1>2. TodoOK' /\ \A p : ClaimsAt(p)' \subseteq ClaimsAt(p) \ {c}
    BY <1>1, TodoSet
<1>3. LeasesOK'
    BY <1>1 DEF LeasesOK
<1>4. /\ DescsOK'
      /\ \A p : WritersAt(p)' \subseteq WritersAt(p) \union {Len(descs) + 1}
      /\ \A p : ~(r.live /\ r.write /\ r.path = p) => WritersAt(p)' \subseteq WritersAt(p)
    BY <1>1, DescNew
<1>5. ASSUME NEW p \in Paths PROVE Covered(p)'
    <2>1. IsFiniteSet(ClaimsAt(p)) /\ leases[p].refs >= Cardinality(WritersAt(p)) + Cardinality(ClaimsAt(p))
        BY DEF CountsOK, Covered
    <2>2. IsFiniteSet(WritersAt(p))
        BY <1>1, WritersFinite
    <2>3. leases'[p].refs = leases[p].refs /\ leases[p].refs \in Nat
        BY <1>1 DEF LeasesOK, LeaseRecords
    <2>4. CASE r.live /\ r.write /\ r.path = p
        <3>1. c \in ClaimsAt(p)
            BY <2>4 DEF ClaimsAt
        <3>2. /\ Cardinality(WritersAt(p)') <= Cardinality(WritersAt(p)) + 1
              /\ Cardinality(WritersAt(p)') \in Nat /\ Cardinality(WritersAt(p)) \in Nat
            BY <1>4, <2>2, CountWith
        <3>3. /\ IsFiniteSet(ClaimsAt(p)') /\ Cardinality(ClaimsAt(p)') + 1 <= Cardinality(ClaimsAt(p))
              /\ Cardinality(ClaimsAt(p)') \in Nat /\ Cardinality(ClaimsAt(p)) \in Nat
            BY <1>2, <2>1, <3>1, CountWithout
        <3> QED BY <2>1, <2>3, <3>2, <3>3 DEF Covered
    <2>5. CASE ~(r.live /\ r.write /\ r.path = p)
        <3>1. WritersAt(p)' \subseteq WritersAt(p) /\ ClaimsAt(p)' \subseteq ClaimsAt(p)
            BY <1>2, <1>4, <2>5
        <3>2. /\ Cardinality(WritersAt(p)') <= Cardinality(WritersAt(p))
              /\ Cardinality(WritersAt(p)') \in Nat /\ Cardinality(WritersAt(p)) \in Nat
            BY <2>2, <3>1, CountSubset
        <3>3. /\ IsFiniteSet(ClaimsAt(p)') /\ Cardinality(ClaimsAt(p)') <= Cardinality(ClaimsAt(p))
              /\ Cardinality(ClaimsAt(p)') \in Nat /\ Cardinality(ClaimsAt(p)) \in Nat
            BY <2>1, <3>1, CountSubset
        <3> QED BY <2>1, <2>3, <3>2, <3>3 DEF Covered
    <2> QED BY <2>4, <2>5
<1> QED BY <1>2, <1>3, <1>4, <1>5 DEF CountsOK

\* on_close gives back the reference that the call had a claim to.
LEMMA OnCloseStep ==
    ASSUME CountsOK, LeasesOK', NEW c \in Clients, NEW o, NEW q, Then(c, q), Shape(q),
           \A p : ~Claims(q, p), Claims(todo[c], o),
           \A p \in Paths : leases'[p].refs >= IF p = o THEN leases[p].refs - 1 ELSE leases[p].refs,
           UNCHANGED descs
    PROVE  CountsOK'
<1>1. TodoOK /\ LeasesOK /\ DescsOK
    BY DEF CountsOK
<1>2. TodoOK' /\ \A p : ClaimsAt(p)' \subseteq ClaimsAt(p) \ {c}
    BY <1>1, TodoSet
<1>3. DescsOK' /\ \A p : WritersAt(p)' = WritersAt(p)
    BY <1>1 DEF DescsOK, WritersAt
<1>4. ASSUME NEW p \in Paths PROVE Covered(p)'
    <2>1. IsFiniteSet(ClaimsAt(p)) /\ leases[p].refs >= Cardinality(WritersAt(p)) + Cardinality(ClaimsAt(p))
        BY DEF CountsOK, Covered
    <2>2. Cardinality(WritersAt(p)) \in Nat
        BY <1>1, WritersFinite, FS_CardinalityType
    <2>3. leases[p].refs \in Nat /\ leases'[p].refs \in Nat
        BY <1>1 DEF LeasesOK, LeaseRecords
    <2>4. CASE p = o
        <3>1. c \in ClaimsAt(p)
            BY <2>4 DEF ClaimsAt
        <3>2. /\ IsFiniteSet(ClaimsAt(p)') /\ Cardinality(ClaimsAt(p)') + 1 <= Cardinality(ClaimsAt(p))
              /\ Cardinality(ClaimsAt(p)') \in Nat /\ Cardinality(ClaimsAt(p)) \in Nat
            BY <1>2, <2>1, <3>1, CountWithout
        <3>3. leases'[p].refs >= leases[p].refs - 1
            BY <2>4
        <3> QED BY <1>3, <2>1, <2>2, <2>3, <3>2, <3>3 DEF Covered
    <2>5. CASE p # o
        <3>1. ClaimsAt(p)' \subseteq ClaimsAt(p)
            BY <1>2
        <3>2. /\ IsFiniteSet(ClaimsAt(p)') /\ Cardinality(ClaimsAt(p)') <= Cardinality(ClaimsAt(p))
              /\ Cardinality(ClaimsAt(p)') \in Nat /\ Cardinality(ClaimsAt(p)) \in Nat
            BY <2>1, <3>1, CountSubset
        <3>3. leases'[p].refs >= leases[p].refs
            BY <2>5
        <3> QED BY <1>3, <2>1, <2>2, <2>3, <3>2, <3>3 DEF Covered
    <2> QED BY <2>4, <2>5
<1> QED BY <1>1, <1>2, <1>3, <1>4 DEF CountsOK

\* Nothing that is counted changes.
LEMMA NothingCounted ==
    ASSUME CountsOK, LeasesOK', SameRefs, UNCHANGED <<todo, descs>>
    PROVE  CountsOK'
<1>1. TodoOK' /\ DescsOK'
    BY DEF CountsOK, TodoOK, DescsOK
<1>2. \A p : WritersAt(p)' = WritersAt(p) /\ ClaimsAt(p)' = ClaimsAt(p)
    BY DEF WritersAt, ClaimsAt
<1> QED BY <1>1, <1>2, Quiet

-----------------------------------------------------------------------------
(***************************************************************************)
(* The hooks leave the references alone, except on_open and on_close       *)
(***************************************************************************)

\* on_write, on_fsync and flush_outbound
LEMMA OnWriteRefs ==
    ASSUME LeasesOK, NEW p, NEW ok, OnWrite(p, ok)
    PROVE  LeasesOK' /\ SameRefs
<1>1. CASE UNCHANGED leases
    BY <1>1 DEF LeasesOK, SameRefs
<1>2. CASE leases' = [leases EXCEPT ![p].dirty = FALSE]
    BY <1>2, LeaseMarked
<1>3. CASE EnqueueUpload(p)
    BY <1>3, EnqueueKeeps
<1> QED BY <1>1, <1>2, <1>3 DEF OnWrite, Upload

LEMMA OnFsyncRefs ==
    ASSUME LeasesOK, NEW p, NEW ok, OnFsync(p, ok)
    PROVE  LeasesOK' /\ SameRefs
<1>1. CASE UNCHANGED leases
    BY <1>1 DEF LeasesOK, SameRefs
<1>2. CASE leases' = [leases EXCEPT ![p].dirty = FALSE]
    BY <1>2, LeaseMarked
<1> QED BY <1>1, <1>2 DEF OnFsync

LEMMA FlushOneRefs ==
    ASSUME LeasesOK, NEW p, NEW ok, FlushOne(p, ok)
    PROVE  LeasesOK' /\ SameRefs
<1>1. CASE UNCHANGED leases
    BY <1>1 DEF LeasesOK, SameRefs
<1>2. CASE leases' = [leases EXCEPT ![p].dirty = FALSE]
    BY <1>2, LeaseMarked
<1> QED BY <1>1, <1>2 DEF FlushOne

\* The references of p become n.
LEMMA RefsSet ==
    ASSUME LeasesOK, NEW p, NEW n \in Nat, leases' = [leases EXCEPT ![p].refs = n]
    PROVE  LeasesOK' /\ \A q \in Paths : leases'[q].refs = IF q = p THEN n ELSE leases[q].refs
<1> DEFINE l == [leases[p] EXCEPT !.refs = n]
<1>1. p \in Paths => l \in LeaseRecords /\ l.refs = n
    BY DEF LeasesOK, LeaseRecords
<1>2. leases' = [leases EXCEPT ![p] = l]
    BY Zenon
<1> HIDE DEF l
<1>3. LeasesOK' /\ \A q \in Paths : leases'[q] = IF q = p THEN l ELSE leases[q]
    BY <1>1, <1>2 DEF LeasesOK
<1> QED BY <1>1, <1>3

-----------------------------------------------------------------------------
(***************************************************************************)
(* The steps of a call                                                     *)
(***************************************************************************)

\* A step other than on_open, open and on_close is done.
LEMMA StepDone ==
    ASSUME CountsOK, NEW c \in Clients, NEW op, op # "on_open", Doing(c, op), Done(c),
           LeasesOK', SameRefs, UNCHANGED descs
    PROVE  CountsOK'
<1>1. PICK q : q = todo[c]
    OBVIOUS
<1>2. Shape(q) /\ q # <<>> /\ Head(q).op # "on_open"
    BY <1>1 DEF CountsOK, TodoOK, Doing
<1>3. PICK t : t = Tail(q)
    OBVIOUS
<1>4. Shape(t) /\ \A p : Claims(t, p) => Claims(q, p)
    BY <1>2, <1>3, TailShape
<1>5. Then(c, t)
    BY <1>1, <1>3 DEF Done, Then
<1>6. DescsOK' /\ \A p : WritersAt(p)' = WritersAt(p)
    BY DEF CountsOK, DescsOK, WritersAt
<1>7. \A p : Claims(t, p) => Claims(todo[c], p)
    BY <1>1, <1>4
<1> QED BY <1>4, <1>5, <1>6, <1>7, QuietCall

\* on_open takes a reference for a write open that goes on, and none otherwise.
LEMMA DoOnOpenCounts ==
    ASSUME CountsOK, config.lock, NEW c \in Clients, DoOnOpen(c)
    PROVE  CountsOK'
<1>0. TodoOK /\ LeasesOK /\ DescsOK
    BY DEF CountsOK
<1>1. PICK q : q = todo[c]
    OBVIOUS
<1>2. Shape(q) /\ q # <<>> /\ Head(q).op = "on_open"
    BY <1>0, <1>1 DEF TodoOK, DoOnOpen, Doing
<1>3. PICK t : t = Tail(q)
    OBVIOUS
<1>4. PICK d : d = Head(q)
    OBVIOUS
<1>5. Shape(t) /\ \A p : Claims(t, p) => d.write /\ d.p = p
    BY <1>2, <1>3, <1>4, OnOpenShape
<1>6. Done(c) => Then(c, t)
    BY <1>1, <1>3 DEF Done, Then
<1>7. UNCHANGED descs
    BY DEF DoOnOpen
<1>8. DescsOK' /\ \A p : WritersAt(p)' = WritersAt(p)
    BY <1>0, <1>7 DEF DescsOK, WritersAt
<1>9. PICK o : o = d.p
    OBVIOUS
<1>10. PICK ok : IF d.write
                 THEN /\ OnOpenWrite(o, ok)
                      /\ IF OpenAnswer(o, ok) = "Ok" THEN Done(c) ELSE Then(c, <<>>)
                 ELSE Done(c) /\ UNCHANGED leases
    <2>1. PICK ok \in S3Answers :
            IF config.lock /\ d.write
            THEN /\ OnOpenWrite(o, ok)
                 /\ IF OpenAnswer(o, ok) = "Ok" THEN Done(c) ELSE Then(c, <<>>)
            ELSE Done(c) /\ UNCHANGED leases
        BY <1>1, <1>4, <1>9, Zenon DEF DoOnOpen
    <2> QED BY <2>1
<1>11. CASE d.write /\ OpenAnswer(o, ok) = "Ok"
    <2>1. Then(c, t) /\ OnOpenWrite(o, ok)
        BY <1>6, <1>10, <1>11
    <2>2. leases' = [leases EXCEPT ![o].refs = leases[o].refs + 1]
        BY <1>11, <2>1 DEF OnOpenWrite
    <2>3. LeasesOK' /\ \A p \in Paths : leases'[p].refs = IF p = o THEN leases[p].refs + 1 ELSE leases[p].refs
        <3>1. CASE o \in Paths
            <4>1. PICK n \in Nat : n = leases[o].refs + 1
                BY <1>0, <3>1 DEF LeasesOK, LeaseRecords
            <4>2. LeasesOK' /\ \A p \in Paths : leases'[p].refs = IF p = o THEN n ELSE leases[p].refs
                <5>1. leases' = [leases EXCEPT ![o].refs = n]
                    BY <2>2, <4>1, Zenon
                <5> QED BY <1>0, <5>1, RefsSet
            <4> QED BY <4>1, <4>2
        <3>2. CASE o \notin Paths
            <4>1. leases' = leases
                BY <1>0, <2>2, <3>2 DEF LeasesOK
            <4> QED BY <1>0, <3>2, <4>1 DEF LeasesOK
        <3> QED BY <3>1, <3>2
    <2>4. \A p : Claims(t, p) => o = p
        BY <1>5, <1>9
    <2> QED BY <1>5, <1>7, <2>1, <2>3, <2>4, OnOpenStep
<1>12. CASE d.write /\ OpenAnswer(o, ok) # "Ok"
    <2>1. PICK e : e = <<>>
        OBVIOUS
    <2>2. Then(c, e) /\ UNCHANGED leases
        BY <1>10, <1>12, <2>1 DEF OnOpenWrite
    <2>3. Shape(e) /\ \A p : ~Claims(e, p)
        BY <2>1, EmptyIsPlain, PlainShape
    <2>4. LeasesOK' /\ SameRefs
        BY <1>0, <2>2 DEF LeasesOK, SameRefs
    <2> QED BY <1>8, <2>2, <2>3, <2>4, QuietCall
<1>13. CASE ~d.write
    <2>1. Then(c, t) /\ UNCHANGED leases
        BY <1>6, <1>10, <1>13
    <2>2. \A p : ~Claims(t, p)
        BY <1>5, <1>13
    <2>4. LeasesOK' /\ SameRefs
        BY <1>0, <2>1 DEF LeasesOK, SameRefs
    <2> QED BY <1>5, <1>8, <2>1, <2>2, <2>4, QuietCall
<1> QED BY <1>11, <1>12, <1>13

\* The open turns the claim into a descriptor; when it fails the reference stays.
LEMMA DoOpenCounts ==
    ASSUME CountsOK, NEW c \in Clients, DoOpen(c)
    PROVE  CountsOK'
<1>0. TodoOK /\ LeasesOK /\ DescsOK
    BY DEF CountsOK
<1>1. PICK q : q = todo[c]
    OBVIOUS
<1>2. Shape(q) /\ q # <<>> /\ Head(q).op = "open"
    BY <1>0, <1>1 DEF TodoOK, DoOpen, Doing
<1>3. PICK t : t = Tail(q)
    OBVIOUS
<1>4. PICK d : d = Head(q)
    OBVIOUS
<1>5. Shape(t) /\ (\A p : ~Claims(t, p)) /\ (d.write => Claims(q, d.p))
    BY <1>2, <1>3, <1>4, TailShape
<1>6. Then(c, t) /\ UNCHANGED leases
    BY <1>1, <1>3 DEF DoOpen, Done, Then, syncVars
<1>7. CASE UNCHANGED descs
    <2>1. LeasesOK' /\ SameRefs
        BY <1>0, <1>6 DEF LeasesOK, SameRefs
    <2>2. Doing(c, "open") /\ Done(c)
        BY DEF DoOpen
    <2> QED BY <1>7, <2>1, <2>2, StepDone
<1>8. CASE descs' = Append(descs, [c |-> c, fd |-> nextFd, path |-> d.p, write |-> d.write,
                                   dirty |-> FALSE, live |-> TRUE])
    <2>1. PICK r : r = [c |-> c, fd |-> nextFd, path |-> d.p, write |-> d.write, dirty |-> FALSE, live |-> TRUE]
        OBVIOUS
    <2>2. IsDesc(r) /\ r.path = d.p /\ r.write = d.write
        BY <2>1 DEF IsDesc
    <2>3. descs' = Append(descs, r)
        BY <1>8, <2>1
    <2>4. r.write => Claims(todo[c], r.path)
        BY <1>1, <1>5, <2>2
    <2> QED BY <1>5, <1>6, <2>2, <2>3, <2>4, OpenStep
<1> QED
    <2>1. UNCHANGED descs \/ descs' = Append(descs, [c |-> c, fd |-> nextFd, path |-> Head(todo[c]).p,
                                write |-> Head(todo[c]).write, dirty |-> FALSE, live |-> TRUE])
        BY Zenon DEF DoOpen
    <2> QED BY <1>1, <1>4, <1>7, <1>8, <2>1

\* on_close gives back the reference that the dropped descriptor had.
LEMMA DoOnCloseCounts ==
    ASSUME CountsOK, NEW c \in Clients, DoOnClose(c)
    PROVE  CountsOK'
<1>0. TodoOK /\ LeasesOK /\ DescsOK
    BY DEF CountsOK
<1>1. PICK q : q = todo[c]
    OBVIOUS
<1>2. Shape(q) /\ q # <<>> /\ Head(q).op = "on_close"
    BY <1>0, <1>1 DEF TodoOK, DoOnClose, Doing
<1>3. PICK t : t = Tail(q)
    OBVIOUS
<1>4. PICK o : o = Head(q).p
    OBVIOUS
<1>5. Shape(t) /\ (\A p : ~Claims(t, p)) /\ Claims(q, o)
    BY <1>2, <1>3, <1>4, TailShape
<1>6. Then(c, t) /\ UNCHANGED descs
    BY <1>1, <1>3 DEF DoOnClose, Done, Then
<1>7. leases' = CASE leases[o].refs = 0 -> leases
                  [] leases[o].refs = 1 -> [leases EXCEPT ![o] = NoLease]
                  [] OTHER -> [leases EXCEPT ![o].refs = @ - 1]
    BY <1>1, <1>4, Zenon DEF DoOnClose
<1>8. LeasesOK' /\ \A p \in Paths : leases'[p].refs >= IF p = o THEN leases[p].refs - 1 ELSE leases[p].refs
    <2>0. \A p \in Paths : leases[p].refs \in Nat
        BY <1>0 DEF LeasesOK, LeaseRecords
    <2>1. CASE leases[o].refs = 0
        <3>1. leases' = leases
            BY <1>7, <2>1
        <3> QED BY <1>0, <2>0, <3>1 DEF LeasesOK
    <2>2. CASE leases[o].refs = 1
        <3>1. leases' = [leases EXCEPT ![o] = NoLease]
            BY <1>7, <2>2
        <3>2. NoLease \in LeaseRecords /\ NoLease.refs = 0
            BY DEF NoLease, LeaseRecords
        <3>3. LeasesOK' /\ \A p \in Paths : leases'[p] = IF p = o THEN NoLease ELSE leases[p]
            BY <1>0, <3>1, <3>2 DEF LeasesOK
        <3> QED BY <2>0, <2>2, <3>2, <3>3
    <2>3. CASE leases[o].refs # 0 /\ leases[o].refs # 1
        <3>1. leases' = [leases EXCEPT ![o].refs = leases[o].refs - 1]
            BY <1>7, <2>3
        <3>2. CASE o \in Paths
            <4>1. PICK n \in Nat : n = leases[o].refs - 1
                BY <2>0, <2>3, <3>2
            <4>2. LeasesOK' /\ \A p \in Paths : leases'[p].refs = IF p = o THEN n ELSE leases[p].refs
                BY <1>0, <3>1, <4>1, RefsSet
            <4> QED BY <2>0, <4>1, <4>2
        <3>3. CASE o \notin Paths
            <4>1. leases' = leases
                BY <1>0, <3>1, <3>3 DEF LeasesOK
            <4> QED BY <1>0, <2>0, <3>3, <4>1 DEF LeasesOK
        <3> QED BY <3>2, <3>3
    <2> QED BY <2>1, <2>2, <2>3
<1>9. Claims(todo[c], o)
    BY <1>1, <1>5
<1> QED BY <1>5, <1>6, <1>8, <1>9, OnCloseStep

\* The other steps.
LEMMA OtherStepCounts ==
    ASSUME CountsOK, NEW c \in Clients,
           \/ DoOnWrite(c) \/ DoClose(c) \/ DoEnqueue(c) \/ DoOnFsync(c) \/ DoOnDelete(c)
           \/ DoOnRead(c) \/ DoRead(c) \/ DoMaybeSync(c)
    PROVE  CountsOK'
<1>0. LeasesOK
    BY DEF CountsOK
<1>1. ASSUME UNCHANGED leases PROVE LeasesOK' /\ SameRefs
    BY <1>0, <1>1 DEF LeasesOK, SameRefs
<1>2. CASE DoOnWrite(c)
    <2>1. Doing(c, "on_write") /\ Done(c) /\ UNCHANGED descs
        BY <1>2 DEF DoOnWrite
    <2>2. UNCHANGED leases \/ \E p, ok : OnWrite(p, ok)
        BY <1>2, Zenon DEF DoOnWrite
    <2>3. LeasesOK' /\ SameRefs
        BY <1>0, <1>1, <2>2, OnWriteRefs
    <2> QED BY <2>1, <2>3, StepDone
<1>3. CASE DoClose(c)
    <2>1. Doing(c, "close") /\ Done(c) /\ UNCHANGED <<descs, leases>>
        BY <1>3 DEF DoClose, syncVars
    <2> QED BY <1>1, <2>1, StepDone
<1>4. CASE DoEnqueue(c)
    <2>1. Doing(c, "enqueue") /\ Done(c) /\ UNCHANGED descs
        BY <1>4 DEF DoEnqueue
    <2>2. PICK p : p = Head(todo[c]).p
        OBVIOUS
    <2>3. EnqueueUpload(p)
        BY <1>4, <2>2 DEF DoEnqueue
    <2>4. LeasesOK' /\ SameRefs
        BY <1>0, <2>3, EnqueueKeeps
    <2> QED BY <2>1, <2>4, StepDone
<1>5. CASE DoOnFsync(c)
    <2>1. Doing(c, "on_fsync") /\ Done(c) /\ UNCHANGED descs
        BY <1>5 DEF DoOnFsync
    <2>2. UNCHANGED leases \/ \E p, ok : OnFsync(p, ok)
        BY <1>5, Zenon DEF DoOnFsync
    <2>3. LeasesOK' /\ SameRefs
        BY <1>0, <1>1, <2>2, OnFsyncRefs
    <2> QED BY <2>1, <2>3, StepDone
<1>6. CASE DoOnDelete(c)
    <2>1. Doing(c, "on_delete") /\ Done(c) /\ UNCHANGED descs
        BY <1>6 DEF DoOnDelete
    <2>2. PICK p : p = Head(todo[c]).p
        OBVIOUS
    <2>3. EnqueueDelete(p)
        BY <1>6, <2>2 DEF DoOnDelete
    <2>4. LeasesOK' /\ SameRefs
        BY <1>0, <2>3, EnqueueKeeps
    <2> QED BY <2>1, <2>4, StepDone
<1>7. CASE DoOnRead(c)
    <2>1. Doing(c, "on_read") /\ Done(c) /\ UNCHANGED <<descs, leases>>
        BY <1>7 DEF DoOnRead
    <2> QED BY <1>1, <2>1, StepDone
<1>8. CASE DoRead(c)
    <2>1. Doing(c, "read") /\ Done(c) /\ UNCHANGED <<descs, leases>>
        BY <1>8 DEF DoRead, syncVars
    <2> QED BY <1>1, <2>1, StepDone
<1>9. CASE DoMaybeSync(c)
    <2>0. Doing(c, "maybe_sync") /\ UNCHANGED descs
        BY <1>9 DEF DoMaybeSync
    <2>1. CASE Done(c) /\ UNCHANGED leases
        BY <1>1, <2>0, <2>1, StepDone
    <2>2. CASE UNCHANGED todo /\ \E p, ok : FlushOne(p, ok)
        <3>1. LeasesOK' /\ SameRefs
            BY <1>0, <2>2, FlushOneRefs
        <3> QED BY <2>0, <2>2, <3>1, NothingCounted
    <2>3. \/ Done(c) /\ UNCHANGED leases
          \/ UNCHANGED todo /\ \E p, ok : FlushOne(p, ok)
        BY <1>9, Zenon DEF DoMaybeSync, syncVars
    <2> QED BY <2>1, <2>2, <2>3
<1> QED BY <1>2, <1>3, <1>4, <1>5, <1>6, <1>7, <1>8, <1>9

-----------------------------------------------------------------------------
(***************************************************************************)
(* The first steps of calls                                                *)
(***************************************************************************)

\* A call goes on with hooks without a claim.
LEMMA PlainCall ==
    ASSUME CountsOK, NEW c \in Clients, NEW q, Then(c, q), IsSeq(q), Plain(q), UNCHANGED leases,
           DescsOK', \A p : WritersAt(p)' \subseteq WritersAt(p)
    PROVE  CountsOK'
<1>1. Shape(q) /\ \A p : ~Claims(q, p)
    BY PlainShape
<1>2. LeasesOK' /\ SameRefs
    BY DEF CountsOK, LeasesOK, SameRefs
<1> QED BY <1>1, <1>2, QuietCall

\* The descriptors stay, or one of them is marked.
LEMMA SameDescs ==
    ASSUME CountsOK, UNCHANGED descs
    PROVE  DescsOK' /\ \A p : WritersAt(p)' \subseteq WritersAt(p)
<1>1. DescsOK' /\ \A p : WritersAt(p)' = WritersAt(p)
    BY DEF CountsOK, DescsOK, WritersAt
<1> QED BY <1>1

LEMMA DescMarked ==
    ASSUME CountsOK, NEW h \in DOMAIN descs, NEW b, descs' = [descs EXCEPT ![h].dirty = b]
    PROVE  DescsOK' /\ \A p : WritersAt(p)' \subseteq WritersAt(p)
<1>1. PICK d : d = descs[h]
    OBVIOUS
<1>2. PICK r : r = [d EXCEPT !.dirty = b]
    OBVIOUS
<1>3. IsDesc(d)
    BY <1>1 DEF CountsOK, DescsOK
<1>4. r = [c |-> d.c, fd |-> d.fd, path |-> d.path, write |-> d.write, dirty |-> b, live |-> d.live]
    BY <1>2, <1>3 DEF IsDesc
<1>5. IsDesc(r) /\ r.path = d.path /\ r.write = d.write /\ r.live = d.live
    BY <1>4 DEF IsDesc
<1>6. descs' = [descs EXCEPT ![h] = r]
    BY <1>1, <1>2, Zenon
<1>7. DescsOK
    BY DEF CountsOK
<1> QED BY <1>1, <1>5, <1>6, <1>7, DescSet

\* The descriptor h goes.
LEMMA DescDropped ==
    ASSUME CountsOK, NEW h \in DOMAIN descs, NEW r,
           descs' = [descs EXCEPT ![h] = r],
           r = [descs[h] EXCEPT !.live = FALSE] \/ r = [descs[h] EXCEPT !.live = FALSE, !.dirty = FALSE]
    PROVE  DescsOK' /\ \A p : WritersAt(p)' \subseteq WritersAt(p) \ {h}
<1>1. PICK d : d = descs[h]
    OBVIOUS
<1>3. IsDesc(d)
    BY <1>1 DEF CountsOK, DescsOK
<1>4. PICK b : r = [c |-> d.c, fd |-> d.fd, path |-> d.path, write |-> d.write, dirty |-> b, live |-> FALSE]
    <2>1. CASE r = [d EXCEPT !.live = FALSE]
        BY <2>1, <1>3 DEF IsDesc
    <2>2. CASE r = [d EXCEPT !.live = FALSE, !.dirty = FALSE]
        BY <2>2, <1>3 DEF IsDesc
    <2> QED BY <1>1, <2>1, <2>2
<1>5. IsDesc(r) /\ r.path = d.path /\ r.write = d.write /\ ~r.live
    BY <1>4 DEF IsDesc
<1>7. DescsOK
    BY DEF CountsOK
<1> QED BY <1>1, <1>5, <1>7, DescSet

\* The call of c opens: its two steps, or only the second, for reading.
LEMMA OpenCall ==
    ASSUME CountsOK, NEW c \in Clients, NEW p, NEW d, NEW e, UNCHANGED <<leases, descs>>,
           d.op = "on_open", e.op = "open", e.p = d.p, e.write = d.write,
           Then(c, <<d, e>>) \/ Then(c, <<Do("open", p, 0)>>)
    PROVE  CountsOK'
<1>1. DescsOK' /\ \A r : WritersAt(r)' \subseteq WritersAt(r)
    BY SameDescs
<1>2. LeasesOK' /\ SameRefs
    BY DEF CountsOK, LeasesOK, SameRefs
<1>3. CASE Then(c, <<d, e>>)
    <2>1. PICK q : q = <<d, e>>
        OBVIOUS
    <2>2. Shape(q) /\ \A r : ~Claims(q, r)
        BY <2>1, OpeningShape
    <2>3. Then(c, q)
        BY <1>3, <2>1
    <2> QED BY <1>1, <1>2, <2>2, <2>3, QuietCall
<1>4. CASE Then(c, <<Do("open", p, 0)>>)
    <2>1. PICK s : s = Do("open", p, 0)
        OBVIOUS
    <2>2. s.op = "open" /\ s.write = FALSE
        BY <2>1 DEF Do
    <2>3. PICK q : q = <<s>>
        OBVIOUS
    <2>4. Shape(q) /\ \A r : ~Claims(q, r)
        BY <2>2, <2>3, OpenedShape
    <2>5. Then(c, q)
        BY <1>4, <2>1, <2>3
    <2> QED BY <1>1, <1>2, <2>4, <2>5, QuietCall
<1> QED BY <1>3, <1>4

\* open_at of both
LEMMA StaticOpenAtCounts ==
    ASSUME CountsOK, NEW c \in Clients, NEW base, NEW o, StaticOpenAt(c, base, o)
    PROVE  CountsOK'
<1>1. PICK p : p = base \o o.path
    OBVIOUS
<1>2. PICK e : e = [Do("open", p, 0) EXCEPT !.write = o.write, !.creat = o.creat, !.trunc = o.trunc]
    OBVIOUS
<1>3. PICK d : d = [e EXCEPT !.op = "on_open"]
    OBVIOUS
<1>4. d.op = "on_open" /\ e.op = "open" /\ e.p = d.p /\ e.write = d.write
    <2>1. e = [op |-> "open", p |-> p, fd |-> 0, write |-> o.write, creat |-> o.creat, trunc |-> o.trunc]
        BY <1>2 DEF Do
    <2>2. d = [op |-> "on_open", p |-> p, fd |-> 0, write |-> o.write, creat |-> o.creat, trunc |-> o.trunc]
        BY <1>3, <2>1
    <2> QED BY <2>1, <2>2
<1>5. Then(c, <<d, e>>) \/ Then(c, <<Do("open", p, 0)>>)
    BY <1>1, <1>2, <1>3 DEF StaticOpenAt
<1>6. UNCHANGED <<leases, descs>>
    BY DEF StaticOpenAt, StaticUnchanged, syncVars
<1> QED BY <1>4, <1>5, <1>6, OpenCall

LEMMA HostOpenAtCounts ==
    ASSUME CountsOK, NEW c \in Clients, NEW base, NEW o, HostOpenAt(c, base, o)
    PROVE  CountsOK'
<1>1. PICK p : p = base \o o.path
    OBVIOUS
<1>2. PICK e : e = [Do("open", p, 0) EXCEPT !.write = o.write, !.creat = o.creat, !.trunc = o.trunc]
    OBVIOUS
<1>3. PICK d : d = [e EXCEPT !.op = "on_open"]
    OBVIOUS
<1>4. d.op = "on_open" /\ e.op = "open" /\ e.p = d.p /\ e.write = d.write
    <2>1. e = [op |-> "open", p |-> p, fd |-> 0, write |-> o.write, creat |-> o.creat, trunc |-> o.trunc]
        BY <1>2 DEF Do
    <2>2. d = [op |-> "on_open", p |-> p, fd |-> 0, write |-> o.write, creat |-> o.creat, trunc |-> o.trunc]
        BY <1>3, <2>1
    <2> QED BY <2>1, <2>2
<1>5. Then(c, <<d, e>>)
    BY <1>1, <1>2, <1>3 DEF HostOpenAt
<1>6. UNCHANGED <<leases, descs>>
    BY DEF HostOpenAt, HostUnchanged, syncVars
<1> QED BY <1>4, <1>5, <1>6, OpenCall

\* on_close as the last step of a call, and as the first.
LEMMA CloseLast ==
    ASSUME NEW a, IsSeq(a), Plain(a), NEW s, s.op = "on_close"
    PROVE  Shape(a \o <<s>>) /\ \A r : Claims(a \o <<s>>, r) => r = s.p
<1>0. IsSeq(<<s>>) /\ Len(<<s>>) = 1 /\ <<s>>[1] = s
    BY SeqOne
<1>1. PICK b : b = <<s>>
    OBVIOUS
<1>2. IsSeq(b) /\ Len(b) = 1 /\ b[1] = s
    BY <1>0, <1>1
<1>3. PICK q : q = a \o b
    OBVIOUS
<1>4. /\ IsSeq(q) /\ Len(a) \in Nat /\ Len(q) = Len(a) + Len(b)
      /\ \A k \in 1 .. Len(a) : q[k] = a[k]
      /\ \A k \in Len(a) + 1 .. Len(a) + Len(b) : q[k] = b[k - Len(a)] /\ k - Len(a) \in 1 .. Len(b)
    BY <1>2, <1>3, SeqCat
<1>5. PICK m \in 1 .. Len(q) : m = Len(a) + 1
    BY <1>2, <1>4
<1>6. q[m] = s
    BY <1>2, <1>4, <1>5
<1>7. ASSUME NEW k \in 1 .. Len(q), k # m PROVE q[k].op \notin {"on_open", "open", "on_close"}
    <2>1. k \in 1 .. Len(a) /\ q[k] = a[k]
        BY <1>2, <1>4, <1>5, <1>7
    <2> QED BY <2>1 DEF Plain
<1>8. Shape(q) /\ \A r : Claims(q, r) => r = s.p
    BY <1>4, <1>6, <1>7, ClosingShape
<1> QED BY <1>1, <1>3, <1>8

LEMMA CloseFirst ==
    ASSUME NEW b, IsSeq(b), Plain(b), NEW s, s.op = "on_close"
    PROVE  Shape(<<s>> \o b) /\ \A r : Claims(<<s>> \o b, r) => r = s.p
<1>0. IsSeq(<<s>>) /\ Len(<<s>>) = 1 /\ <<s>>[1] = s
    BY SeqOne
<1>1. PICK a : a = <<s>>
    OBVIOUS
<1>2. IsSeq(a) /\ Len(a) = 1 /\ a[1] = s
    BY <1>0, <1>1
<1>3. PICK q : q = a \o b
    OBVIOUS
<1>4. /\ IsSeq(q) /\ Len(b) \in Nat /\ Len(q) = Len(a) + Len(b)
      /\ \A k \in 1 .. Len(a) : q[k] = a[k]
      /\ \A k \in Len(a) + 1 .. Len(a) + Len(b) : q[k] = b[k - Len(a)] /\ k - Len(a) \in 1 .. Len(b)
    BY <1>2, <1>3, SeqCat
<1>5. PICK m \in 1 .. Len(q) : m = 1
    BY <1>2, <1>4
<1>6. q[m] = s
    BY <1>2, <1>4, <1>5
<1>7. ASSUME NEW k \in 1 .. Len(q), k # m PROVE q[k].op \notin {"on_open", "open", "on_close"}
    <2>1. q[k] = b[k - Len(a)] /\ k - Len(a) \in 1 .. Len(b)
        BY <1>2, <1>4, <1>5, <1>7
    <2> QED BY <2>1 DEF Plain
<1>8. Shape(q) /\ \A r : Claims(q, r) => r = s.p
    BY <1>4, <1>6, <1>7, ClosingShape
<1> QED BY <1>1, <1>3, <1>8

\* on_write and maybe_sync
LEMMA StaticOnWriteIsPlain ==
    ASSUME NEW p
    PROVE  IsSeq(StaticOnWrite(p)) /\ Plain(StaticOnWrite(p))
<1>1. PICK a : a = <<Do("on_write", p, 0)>>
    OBVIOUS
<1>2. PICK b : b = <<Do("maybe_sync", p, 0)>>
    OBVIOUS
<1>3. IsSeq(a) /\ Plain(a)
    BY <1>1, OneIsPlain
<1>4. IsSeq(b) /\ Plain(b)
    BY <1>2, OneIsPlain
<1>5. PICK e : e = If(~config.realtime, b)
    OBVIOUS
<1>6. IsSeq(e) /\ Plain(e)
    BY <1>4, <1>5, IfIsPlain
<1>7. StaticOnWrite(p) = a \o e
    BY <1>1, <1>2, <1>5 DEF StaticOnWrite
<1> QED BY <1>3, <1>6, <1>7, CatIsPlain

\* The drop of a descriptor, in both
LEMMA StaticDropCounts ==
    ASSUME CountsOK, NEW c \in Clients, NEW h \in Descs(c), StaticDropDescriptor(c, h)
    PROVE  CountsOK'
<1>0. h \in DOMAIN descs /\ descs[h].live
    BY DEF Descs
<1>1. PICK d : d = descs[h]
    OBVIOUS
<1>2. PICK r : r = [d EXCEPT !.live = FALSE, !.dirty = FALSE]
    OBVIOUS
<1>3. descs' = [descs EXCEPT ![h] = r]
    <2>1. descs' = [descs EXCEPT ![h].live = FALSE, ![h].dirty = FALSE]
        BY DEF StaticDropDescriptor
    <2> QED BY <1>0, <1>1, <1>2, <2>1
<1>4. DescsOK' /\ \A p : WritersAt(p)' \subseteq WritersAt(p) \ {h}
    BY <1>0, <1>1, <1>2, <1>3, DescDropped
<1>5. PICK a : a = If(d.dirty, StaticOnWrite(d.path))
    OBVIOUS
<1>6. IsSeq(a) /\ Plain(a)
    <2>1. PICK w : w = StaticOnWrite(d.path)
        OBVIOUS
    <2>2. IsSeq(w) /\ Plain(w)
        BY <2>1, StaticOnWriteIsPlain
    <2> QED BY <1>5, <2>1, <2>2, IfIsPlain
<1>7. PICK s : s = Do("on_close", d.path, 0)
    OBVIOUS
<1>8. s.op = "on_close" /\ s.p = d.path
    BY <1>7 DEF Do
<1>9. PICK q : q = a \o If(config.lock /\ d.write, <<s>>)
    OBVIOUS
<1>10. Then(c, q) /\ UNCHANGED leases
    BY <1>1, <1>5, <1>7, <1>9 DEF StaticDropDescriptor, StaticUnchanged, syncVars
<1>11. CASE config.lock /\ d.write
    <2>1. q = a \o <<s>>
        BY <1>9, <1>11 DEF If
    <2>2. Shape(q) /\ \A p : Claims(q, p) => p = s.p
        BY <1>6, <1>8, <2>1, CloseLast
    <2>3. \A p : Claims(q, p) => descs[h].write /\ descs[h].path = p
        BY <1>1, <1>8, <1>11, <2>2
    <2> QED BY <1>0, <1>4, <1>10, <2>2, <2>3, DropStep
<1>12. CASE ~(config.lock /\ d.write)
    <2>1. q = a \o <<>>
        BY <1>9, <1>12 DEF If
    <2>2. IsSeq(q) /\ Plain(q)
        BY <1>6, <2>1, EmptyIsPlain, CatIsPlain
    <2>3. \A p : WritersAt(p)' \subseteq WritersAt(p)
        BY <1>4
    <2> QED BY <1>4, <1>10, <2>2, <2>3, PlainCall
<1> QED BY <1>11, <1>12

LEMMA HostDropCounts ==
    ASSUME CountsOK, NEW c \in Clients, NEW h \in Descs(c), HostDropDescriptor(c, h)
    PROVE  CountsOK'
<1>0. h \in DOMAIN descs /\ descs[h].live
    BY DEF Descs
<1>1. PICK d : d = descs[h]
    OBVIOUS
<1>2. PICK r : r = [d EXCEPT !.live = FALSE]
    OBVIOUS
<1>3. descs' = [descs EXCEPT ![h] = r]
    <2>1. descs' = [descs EXCEPT ![h].live = FALSE]
        BY DEF HostDropDescriptor
    <2> QED BY <1>1, <1>2, <2>1, Zenon
<1>4. DescsOK' /\ \A p : WritersAt(p)' \subseteq WritersAt(p) \ {h}
    BY <1>0, <1>1, <1>2, <1>3, DescDropped
<1>5. PICK b : b = <<Do("close", <<>>, d.fd)>>
    OBVIOUS
<1>6. IsSeq(b) /\ Plain(b)
    BY <1>5, OneIsPlain
<1>7. PICK s : s = Do("on_close", d.path, 0)
    OBVIOUS
<1>8. s.op = "on_close" /\ s.p = d.path
    BY <1>7 DEF Do
<1>9. PICK q : q = If(config.lock /\ d.write, <<s>>) \o b
    OBVIOUS
<1>10. Then(c, q) /\ UNCHANGED leases
    BY <1>1, <1>5, <1>7, <1>9 DEF HostDropDescriptor, HostUnchanged, syncVars
<1>11. CASE config.lock /\ d.write
    <2>1. q = <<s>> \o b
        BY <1>9, <1>11 DEF If
    <2>2. Shape(q) /\ \A p : Claims(q, p) => p = s.p
        BY <1>6, <1>8, <2>1, CloseFirst
    <2>3. \A p : Claims(q, p) => descs[h].write /\ descs[h].path = p
        BY <1>1, <1>8, <1>11, <2>2
    <2> QED BY <1>0, <1>4, <1>10, <2>2, <2>3, DropStep
<1>12. CASE ~(config.lock /\ d.write)
    <2>1. q = <<>> \o b
        BY <1>9, <1>12 DEF If
    <2>2. IsSeq(q) /\ Plain(q)
        BY <1>6, <2>1, EmptyIsPlain, CatIsPlain
    <2>3. \A p : WritersAt(p)' \subseteq WritersAt(p)
        BY <1>4
    <2> QED BY <1>4, <1>10, <2>2, <2>3, PlainCall
<1> QED BY <1>11, <1>12

\* Calls that only run hooks without a claim, and calls that run none.
LEMMA HookCall ==
    ASSUME CountsOK, NEW c \in Clients, NEW q, Then(c, q), IsSeq(q), Plain(q), UNCHANGED <<leases, descs>>
    PROVE  CountsOK'
<1>1. DescsOK' /\ \A p : WritersAt(p)' \subseteq WritersAt(p)
    BY SameDescs
<1> QED BY <1>1, PlainCall

LEMMA LocalCall ==
    ASSUME CountsOK, UNCHANGED <<leases, todo, descs>>
    PROVE  CountsOK'
<1>1. LeasesOK' /\ SameRefs
    BY DEF CountsOK, LeasesOK, SameRefs
<1> QED BY <1>1, NothingCounted

LEMMA MarkCall ==
    ASSUME CountsOK, NEW h \in DOMAIN descs, NEW b, descs' = [descs EXCEPT ![h].dirty = b], UNCHANGED <<leases, todo>>
    PROVE  CountsOK'
<1>1. LeasesOK' /\ SameRefs
    BY DEF CountsOK, LeasesOK, SameRefs
<1>2. DescsOK' /\ \A p : WritersAt(p)' \subseteq WritersAt(p)
    BY DescMarked
<1>3. TodoOK' /\ \A p : ClaimsAt(p)' = ClaimsAt(p)
    BY DEF CountsOK, TodoOK, ClaimsAt
<1> QED BY <1>1, <1>2, <1>3, Quiet

\* All calls of a guest; in the host those before it is shut down.
LEMMA StaticGuestCounts ==
    ASSUME CountsOK, NEW c \in Clients, StaticGuest(c)
    PROVE  CountsOK'
<1>0. \A h \in Descs(c) : h \in DOMAIN descs
    BY DEF Descs
<1>1. ASSUME NEW o, StaticOpenAt(c, o.base, o) PROVE CountsOK'
    BY <1>1, StaticOpenAtCounts
<1>2. ASSUME NEW h \in Descs(c), StaticDropDescriptor(c, h) PROVE CountsOK'
    BY <1>2, StaticDropCounts
<1>3. ASSUME NEW h, NEW kind, NEW at, StaticOpenStream(c, h, kind, at) PROVE CountsOK'
    BY <1>3, LocalCall DEF StaticOpenStream, StaticUnchanged, syncVars
<1>4. ASSUME NEW s, StaticStreamWrite(c, s) PROVE CountsOK'
    BY <1>4, LocalCall DEF StaticStreamWrite, StaticUnchanged, syncVars
<1>5. ASSUME NEW s, StaticDropStream(c, s) PROVE CountsOK'
    <2>1. PICK w : w = StaticOnWrite(streams[s].path)
        OBVIOUS
    <2>2. PICK q : q = If(streams[s].kind # "in" /\ streams[s].used, w)
        OBVIOUS
    <2>3. IsSeq(q) /\ Plain(q)
        BY <2>1, <2>2, StaticOnWriteIsPlain, IfIsPlain
    <2>4. Then(c, q) /\ UNCHANGED <<leases, descs>>
        BY <1>5, <2>1, <2>2 DEF StaticDropStream, StaticUnchanged, syncVars
    <2> QED BY <2>3, <2>4, HookCall
<1>6. ASSUME NEW h, StaticRead(c, h) PROVE CountsOK'
    <2>1. PICK q : q = <<Do("on_read", descs[h].path, 0), Do("read", <<>>, descs[h].fd)>>
        OBVIOUS
    <2>2. IsSeq(q) /\ Plain(q)
        BY <2>1, TwoArePlain
    <2>3. Then(c, q) /\ UNCHANGED <<leases, descs>>
        BY <1>6, <2>1 DEF StaticRead, StaticUnchanged, syncVars
    <2> QED BY <2>2, <2>3, HookCall
<1>7. ASSUME NEW s, StaticStreamRead(c, s) PROVE CountsOK'
    <2>1. PICK a : a = <<Do("on_read", streams[s].path, 0)>>
        OBVIOUS
    <2>2. PICK b : b = <<Do("read", <<>>, streams[s].fd)>>
        OBVIOUS
    <2>3. PICK e : e = If(~streams[s].used, a)
        OBVIOUS
    <2>4. PICK q : q = e \o b
        OBVIOUS
    <2>5. IsSeq(a) /\ Plain(a)
        BY <2>1, OneIsPlain
    <2>6. IsSeq(b) /\ Plain(b)
        BY <2>2, OneIsPlain
    <2>7. IsSeq(e) /\ Plain(e)
        BY <2>3, <2>5, IfIsPlain
    <2>8. IsSeq(q) /\ Plain(q)
        BY <2>4, <2>6, <2>7, CatIsPlain
    <2>9. Then(c, q) /\ UNCHANGED <<leases, descs>>
        BY <1>7, <2>1, <2>2, <2>3, <2>4 DEF StaticStreamRead, StaticUnchanged, syncVars
    <2> QED BY <2>8, <2>9, HookCall
<1>8. ASSUME NEW h \in Descs(c), StaticWrite(c, h, 0) PROVE CountsOK'
    <2>1. descs' = [descs EXCEPT ![h].dirty = TRUE] /\ UNCHANGED <<leases, todo>>
        BY <1>8 DEF StaticWrite, StaticUnchanged, syncVars
    <2> QED BY <1>0, <2>1, MarkCall
<1>9. ASSUME NEW h \in Descs(c), StaticSetSize(c, h) PROVE CountsOK'
    <2>1. descs' = [descs EXCEPT ![h].dirty = TRUE] /\ UNCHANGED <<leases, todo>>
        BY <1>9 DEF StaticSetSize, StaticUnchanged, syncVars
    <2> QED BY <1>0, <2>1, MarkCall
<1>10. ASSUME NEW h \in Descs(c), StaticFsync(c, h) PROVE CountsOK'
    <2>1. PICK a : a = <<Do("enqueue", descs[h].path, 0), Do("on_fsync", descs[h].path, descs[h].fd)>>
        OBVIOUS
    <2>2. PICK q : q = If(descs[h].write, a)
        OBVIOUS
    <2>3. IsSeq(a) /\ Plain(a)
        BY <2>1, TwoArePlain
    <2>4. IsSeq(q) /\ Plain(q)
        BY <2>2, <2>3, IfIsPlain
    <2>5. Then(c, q) /\ UNCHANGED leases /\ descs' = [descs EXCEPT ![h].dirty = FALSE]
        BY <1>10, <2>1, <2>2 DEF StaticFsync, StaticUnchanged, syncVars
    <2>6. DescsOK' /\ \A p : WritersAt(p)' \subseteq WritersAt(p)
        BY <1>0, <2>5, DescMarked
    <2> QED BY <2>4, <2>5, <2>6, PlainCall
<1>11. ASSUME NEW base, NEW p, StaticMkdir(c, base, p) PROVE CountsOK'
    BY <1>11, LocalCall DEF StaticMkdir, StaticUnchanged, syncVars
<1>12. ASSUME NEW base, NEW p, NEW dir, StaticRemove(c, base, p, dir) PROVE CountsOK'
    <2>1. PICK a : a = <<Do("on_delete", base \o p, 0), Do("maybe_sync", base \o p, 0)>>
        OBVIOUS
    <2>2. PICK q : q = If(~dir, a)
        OBVIOUS
    <2>3. IsSeq(a) /\ Plain(a)
        BY <2>1, TwoArePlain
    <2>4. IsSeq(q) /\ Plain(q)
        BY <2>2, <2>3, IfIsPlain
    <2>5. Then(c, q) /\ UNCHANGED <<leases, descs>>
        BY <1>12, <2>1, <2>2 DEF StaticRemove, StaticUnchanged, syncVars
    <2> QED BY <2>4, <2>5, HookCall
<1>13. ASSUME NEW base, NEW old, NEW newBase, NEW new, StaticRename(c, base, old, newBase, new) PROVE CountsOK'
    BY <1>13, LocalCall DEF StaticRename, StaticUnchanged, syncVars
<1> QED BY <1>1, <1>2, <1>3, <1>4, <1>5, <1>6, <1>7, <1>8, <1>9, <1>10, <1>11, <1>12, <1>13, Zenon DEF StaticGuest

LEMMA HostGuestCounts ==
    ASSUME CountsOK, NEW c \in Clients, HostGuest(c), ~HostDropState(c)
    PROVE  CountsOK'
<1>1. ASSUME NEW o, HostOpenAt(c, o.base, o) PROVE CountsOK'
    BY <1>1, HostOpenAtCounts
<1>2. ASSUME NEW h \in Descs(c), HostDropDescriptor(c, h) PROVE CountsOK'
    BY <1>2, HostDropCounts
<1>3. ASSUME NEW h, NEW kind, NEW at, HostOpenStream(c, h, kind, at) PROVE CountsOK'
    BY <1>3, LocalCall DEF HostOpenStream, HostUnchanged, syncVars
<1>4. ASSUME NEW s, HostStreamWrite(c, s) PROVE CountsOK'
    BY <1>4, LocalCall DEF HostStreamWrite, HostUnchanged, syncVars
<1>5. ASSUME NEW s, HostDropStream(c, s) PROVE CountsOK'
    <2>1. PICK a : a = <<Do("on_write", streams[s].path, 0)>>
        OBVIOUS
    <2>2. PICK q : q = If(streams[s].kind # "in", a)
        OBVIOUS
    <2>3. IsSeq(a) /\ Plain(a)
        BY <2>1, OneIsPlain
    <2>4. IsSeq(q) /\ Plain(q)
        BY <2>2, <2>3, IfIsPlain
    <2>5. Then(c, q) /\ UNCHANGED <<leases, descs>>
        BY <1>5, <2>1, <2>2 DEF HostDropStream, HostUnchanged, syncVars
    <2> QED BY <2>4, <2>5, HookCall
<1>6. ASSUME NEW s, HostStreamRead(c, s) PROVE CountsOK'
    <2>1. PICK a : a = <<Do("on_read", streams[s].path, 0)>>
        OBVIOUS
    <2>2. PICK q : q = If(~streams[s].used, a)
        OBVIOUS
    <2>3. IsSeq(a) /\ Plain(a)
        BY <2>1, OneIsPlain
    <2>4. IsSeq(q) /\ Plain(q)
        BY <2>2, <2>3, IfIsPlain
    <2>5. Then(c, q) /\ UNCHANGED <<leases, descs>>
        BY <1>6, <2>1, <2>2 DEF HostStreamRead, HostUnchanged, syncVars
    <2> QED BY <2>4, <2>5, HookCall
<1>7. ASSUME NEW h, HostWrite(c, h, 0) PROVE CountsOK'
    BY <1>7, LocalCall DEF HostWrite, HostUnchanged, syncVars
<1>8. ASSUME NEW h, HostSetSize(c, h) PROVE CountsOK'
    <2>1. PICK q : q = <<Do("on_write", descs[h].path, 0)>>
        OBVIOUS
    <2>2. IsSeq(q) /\ Plain(q)
        BY <2>1, OneIsPlain
    <2>3. Then(c, q) /\ UNCHANGED <<leases, descs>>
        BY <1>8, <2>1 DEF HostSetSize, HostUnchanged, syncVars
    <2> QED BY <2>2, <2>3, HookCall
<1>9. ASSUME NEW h, HostFsync(c, h) PROVE CountsOK'
    <2>1. PICK a : a = <<Do("on_write", descs[h].path, 0), Do("on_fsync", descs[h].path, descs[h].fd)>>
        OBVIOUS
    <2>2. PICK q : q = If(descs[h].write, a)
        OBVIOUS
    <2>3. IsSeq(a) /\ Plain(a)
        BY <2>1, TwoArePlain
    <2>4. IsSeq(q) /\ Plain(q)
        BY <2>2, <2>3, IfIsPlain
    <2>5. Then(c, q) /\ UNCHANGED <<leases, descs>>
        BY <1>9, <2>1, <2>2 DEF HostFsync, HostUnchanged, syncVars
    <2> QED BY <2>4, <2>5, HookCall
<1>10. ASSUME NEW base, NEW p, HostMkdir(c, base, p) PROVE CountsOK'
    BY <1>10, LocalCall DEF HostMkdir, HostUnchanged, syncVars
<1>11. ASSUME NEW base, NEW p, NEW dir, HostRemove(c, base, p, dir) PROVE CountsOK'
    <2>1. PICK a : a = <<Do("on_delete", base \o p, 0)>>
        OBVIOUS
    <2>2. PICK q : q = If(~dir, a)
        OBVIOUS
    <2>3. IsSeq(a) /\ Plain(a)
        BY <2>1, OneIsPlain
    <2>4. IsSeq(q) /\ Plain(q)
        BY <2>2, <2>3, IfIsPlain
    <2>5. Then(c, q) /\ UNCHANGED <<leases, descs>>
        BY <1>11, <2>1, <2>2 DEF HostRemove, HostUnchanged, syncVars
    <2> QED BY <2>4, <2>5, HookCall
<1>12. ASSUME NEW base, NEW old, NEW newBase, NEW new, HostRename(c, base, old, newBase, new) PROVE CountsOK'
    BY <1>12, LocalCall DEF HostRename, HostUnchanged, syncVars
<1> QED BY <1>1, <1>2, <1>3, <1>4, <1>5, <1>6, <1>7, <1>8, <1>9, <1>10, <1>11, <1>12, Zenon DEF HostGuest

-----------------------------------------------------------------------------
(***************************************************************************)
(* The theorem                                                             *)
(***************************************************************************)

\* At the start there is nothing to count.
LEMMA InitInv ==
    ASSUME Init
    PROVE  Inv
<1>1. LeasesOK
    BY DEF Init, FilesInit, LeasesOK, LeaseRecords, NoLease
<1>2. descs = <<>> /\ todo = [c \in Clients |-> <<>>]
    BY DEF Init
<1>3. TodoOK /\ \A p : ClaimsAt(p) = {}
    <2>1. Shape(<<>>) /\ \A p : ~Claims(<<>>, p)
        BY EmptyIsPlain, PlainShape
    <2>2. DOMAIN todo = Clients /\ \A c \in Clients : todo[c] = <<>>
        BY <1>2
    <2>3. TodoOK
        BY <2>1, <2>2, Zenon DEF TodoOK
    <2>4. ASSUME NEW p PROVE ClaimsAt(p) = {}
        BY <2>1, <2>2, Zenon DEF ClaimsAt
    <2> QED BY <2>3, <2>4
<1>4. DescsOK /\ \A p : WritersAt(p) = {}
    <2>1. IsSeq(descs) /\ DOMAIN descs = {}
        BY <1>2, EmptyIsPlain
    <2> QED BY <2>1 DEF DescsOK, WritersAt
<1>5. ASSUME NEW p \in Paths PROVE Covered(p)
    <2>1. IsFiniteSet({}) /\ Cardinality({}) = 0
        BY FS_EmptySet
    <2>2. leases[p].refs \in Nat
        BY <1>1 DEF LeasesOK, LeaseRecords
    <2> QED BY <1>3, <1>4, <2>1, <2>2 DEF Covered
<1>6. /\ thread = [state |-> thread.state, closing |-> thread.closing, due |-> thread.due]
      /\ config.frontend # "host" => thread.state = "done"
    BY DEF Init
<1> QED BY <1>1, <1>3, <1>4, <1>5, <1>6 DEF Inv, CountsOK


\* Configuration and thread stay as they are.
LEMMA StaticFrame ==
    ASSUME NEW c, StaticGuest(c)
    PROVE  UNCHANGED <<config, thread>>
<1>1. ASSUME NEW base, NEW o, StaticOpenAt(c, base, o) PROVE UNCHANGED <<config, thread>>
    BY <1>1 DEF StaticOpenAt, StaticUnchanged, history
<1>2. ASSUME NEW h, StaticDropDescriptor(c, h) PROVE UNCHANGED <<config, thread>>
    BY <1>2 DEF StaticDropDescriptor, StaticUnchanged, history
<1>3. ASSUME NEW h, NEW kind, NEW at, StaticOpenStream(c, h, kind, at) PROVE UNCHANGED <<config, thread>>
    BY <1>3 DEF StaticOpenStream, StaticUnchanged, history
<1>4. ASSUME NEW s, StaticStreamWrite(c, s) PROVE UNCHANGED <<config, thread>>
    BY <1>4 DEF StaticStreamWrite, StaticUnchanged, history
<1>5. ASSUME NEW s, StaticDropStream(c, s) PROVE UNCHANGED <<config, thread>>
    BY <1>5 DEF StaticDropStream, StaticUnchanged, history
<1>6. ASSUME NEW h, StaticRead(c, h) PROVE UNCHANGED <<config, thread>>
    BY <1>6 DEF StaticRead, StaticUnchanged, history
<1>7. ASSUME NEW s, StaticStreamRead(c, s) PROVE UNCHANGED <<config, thread>>
    BY <1>7 DEF StaticStreamRead, StaticUnchanged, history
<1>8. ASSUME NEW h, NEW at, StaticWrite(c, h, at) PROVE UNCHANGED <<config, thread>>
    BY <1>8 DEF StaticWrite, StaticUnchanged, history
<1>9. ASSUME NEW h, StaticSetSize(c, h) PROVE UNCHANGED <<config, thread>>
    BY <1>9 DEF StaticSetSize, StaticUnchanged, history
<1>10. ASSUME NEW h, StaticFsync(c, h) PROVE UNCHANGED <<config, thread>>
    BY <1>10 DEF StaticFsync, StaticUnchanged, history
<1>11. ASSUME NEW base, NEW p, StaticMkdir(c, base, p) PROVE UNCHANGED <<config, thread>>
    BY <1>11 DEF StaticMkdir, StaticUnchanged, history
<1>12. ASSUME NEW base, NEW p, NEW dir, StaticRemove(c, base, p, dir) PROVE UNCHANGED <<config, thread>>
    BY <1>12 DEF StaticRemove, StaticUnchanged, history
<1>13. ASSUME NEW base, NEW old, NEW newBase, NEW new, StaticRename(c, base, old, newBase, new) PROVE UNCHANGED <<config, thread>>
    BY <1>13 DEF StaticRename, StaticUnchanged, history
<1> QED BY <1>1, <1>2, <1>3, <1>4, <1>5, <1>6, <1>7, <1>8, <1>9, <1>10, <1>11, <1>12, <1>13, Zenon DEF StaticGuest

LEMMA HostFrame ==
    ASSUME NEW c, HostGuest(c), ~HostDropState(c)
    PROVE  UNCHANGED <<config, thread>>
<1>1. ASSUME NEW base, NEW o, HostOpenAt(c, base, o) PROVE UNCHANGED <<config, thread>>
    BY <1>1 DEF HostOpenAt, HostUnchanged, history
<1>2. ASSUME NEW h, HostDropDescriptor(c, h) PROVE UNCHANGED <<config, thread>>
    BY <1>2 DEF HostDropDescriptor, HostUnchanged, history
<1>3. ASSUME NEW h, NEW kind, NEW at, HostOpenStream(c, h, kind, at) PROVE UNCHANGED <<config, thread>>
    BY <1>3 DEF HostOpenStream, HostUnchanged, history
<1>4. ASSUME NEW s, HostStreamWrite(c, s) PROVE UNCHANGED <<config, thread>>
    BY <1>4 DEF HostStreamWrite, HostUnchanged, history
<1>5. ASSUME NEW s, HostDropStream(c, s) PROVE UNCHANGED <<config, thread>>
    BY <1>5 DEF HostDropStream, HostUnchanged, history
<1>6. ASSUME NEW s, HostStreamRead(c, s) PROVE UNCHANGED <<config, thread>>
    BY <1>6 DEF HostStreamRead, HostUnchanged, history
<1>7. ASSUME NEW h, NEW at, HostWrite(c, h, at) PROVE UNCHANGED <<config, thread>>
    BY <1>7 DEF HostWrite, HostUnchanged, history
<1>8. ASSUME NEW h, HostSetSize(c, h) PROVE UNCHANGED <<config, thread>>
    BY <1>8 DEF HostSetSize, HostUnchanged, history
<1>9. ASSUME NEW h, HostFsync(c, h) PROVE UNCHANGED <<config, thread>>
    BY <1>9 DEF HostFsync, HostUnchanged, history
<1>10. ASSUME NEW base, NEW p, HostMkdir(c, base, p) PROVE UNCHANGED <<config, thread>>
    BY <1>10 DEF HostMkdir, HostUnchanged, history
<1>11. ASSUME NEW base, NEW p, NEW dir, HostRemove(c, base, p, dir) PROVE UNCHANGED <<config, thread>>
    BY <1>11 DEF HostRemove, HostUnchanged, history
<1>12. ASSUME NEW base, NEW old, NEW newBase, NEW new, HostRename(c, base, old, newBase, new) PROVE UNCHANGED <<config, thread>>
    BY <1>12 DEF HostRename, HostUnchanged, history
<1> QED BY <1>1, <1>2, <1>3, <1>4, <1>5, <1>6, <1>7, <1>8, <1>9, <1>10, <1>11, <1>12, Zenon DEF HostGuest

LEMMA GuestFrame ==
    ASSUME NEW c, GuestStep(c)
    PROVE  UNCHANGED <<config, thread>>
<1>1. CASE DoOnOpen(c)
    BY <1>1 DEF DoOnOpen, history
<1>2. CASE DoOpen(c)
    BY <1>2 DEF DoOpen, history
<1>3. CASE DoOnWrite(c)
    BY <1>3 DEF DoOnWrite, history
<1>4. CASE DoOnClose(c)
    BY <1>4 DEF DoOnClose, history
<1>5. CASE DoClose(c)
    BY <1>5 DEF DoClose, history
<1>6. CASE DoEnqueue(c)
    BY <1>6 DEF DoEnqueue, history
<1>7. CASE DoOnFsync(c)
    BY <1>7 DEF DoOnFsync, history
<1>8. CASE DoOnDelete(c)
    BY <1>8 DEF DoOnDelete, history
<1>9. CASE DoOnRead(c)
    BY <1>9 DEF DoOnRead, history
<1>10. CASE DoRead(c)
    BY <1>10 DEF DoRead, history
<1>11. CASE DoMaybeSync(c)
    BY <1>11 DEF DoMaybeSync, history
<1> QED BY <1>1, <1>2, <1>3, <1>4, <1>5, <1>6, <1>7, <1>8, <1>9, <1>10, <1>11 DEF GuestStep

\* All steps of a call after the first
LEMMA GuestStepCounts ==
    ASSUME CountsOK, config.lock, NEW c \in Clients, GuestStep(c)
    PROVE  CountsOK'
<1>1. CASE DoOnOpen(c)
    BY <1>1, DoOnOpenCounts
<1>2. CASE DoOpen(c)
    BY <1>2, DoOpenCounts
<1>3. CASE DoOnClose(c)
    BY <1>3, DoOnCloseCounts
<1>4. CASE \/ DoOnWrite(c) \/ DoClose(c) \/ DoEnqueue(c) \/ DoOnFsync(c) \/ DoOnDelete(c)
           \/ DoOnRead(c) \/ DoRead(c) \/ DoMaybeSync(c)
    BY <1>4, OtherStepCounts
<1> QED BY <1>1, <1>2, <1>3, <1>4 DEF GuestStep

\* One step, with references counted before it.
LEMMA StepInv ==
    ASSUME Inv, [Next]_vars
    PROVE  Inv'
<1>1. ASSUME UNCHANGED <<config, thread>>, CountsOK /\ Counting => CountsOK' PROVE Inv'
    BY <1>1 DEF Inv, Counting, Running
<1>2. ASSUME config' = config, config.frontend = "host", thread'.state # "run",
             \E x, y, z : thread' = [state |-> x, closing |-> y, due |-> z]
      PROVE  Inv'
    BY <1>2 DEF Inv, Counting, Running
<1>3. ASSUME NEW c \in Clients, StaticGuest(c) PROVE Inv'
    BY <1>1, <1>3, StaticFrame, StaticGuestCounts
<1>4. ASSUME NEW c \in Clients, HostGuest(c), ~HostDropState(c) PROVE Inv'
    BY <1>1, <1>4, HostFrame, HostGuestCounts
<1>5. ASSUME NEW c \in Clients, HostDropState(c) PROVE Inv'
    <2>1. config' = config /\ config.frontend = "host"
        BY <1>5 DEF HostDropState, HostUnchanged, Host, May
    <2>2. \E ws : thread' = IF thread.state = "run" THEN [thread EXCEPT !.state = "stop", !.due = ws] ELSE thread
        BY <1>5, Zenon DEF HostDropState
    <2>3. thread'.state # "run" /\ \E x, y, z : thread' = [state |-> x, closing |-> y, due |-> z]
        <3>1. CASE thread.state = "run"
            <4>1. PICK ws : thread' = [thread EXCEPT !.state = "stop", !.due = ws]
                BY <2>2, <3>1
            <4>2. thread' = [state |-> "stop", closing |-> thread.closing, due |-> ws]
                BY <4>1 DEF Inv
            <4> QED BY <4>2
        <3>2. CASE thread.state # "run"
            BY <2>2, <3>2 DEF Inv
        <3> QED BY <3>1, <3>2
    <2> QED BY <1>2, <2>1, <2>3
<1>6. ASSUME NEW c \in Clients, GuestStep(c) PROVE Inv'
    <2>1. ASSUME CountsOK /\ Counting PROVE CountsOK'
        BY <1>6, <2>1, GuestStepCounts DEF Counting
    <2> QED BY <1>1, <1>6, <2>1, GuestFrame
<1>7. CASE HostTick
    <2>1. UNCHANGED <<config, thread, todo, descs>> /\ \E p, ok : FlushOne(p, ok)
        BY <1>7, Zenon DEF HostTick, guestVars, history
    <2>2. ASSUME CountsOK PROVE CountsOK'
        <3>1. LeasesOK' /\ SameRefs
            BY <2>1, <2>2, FlushOneRefs DEF CountsOK
        <3> QED BY <2>1, <2>2, <3>1, NothingCounted
    <2> QED BY <1>1, <2>1, <2>2
<1>8. CASE HostFinalFlush
    <2>1. config' = config /\ thread.state = "stop"
        BY <1>8 DEF HostFinalFlush
    <2>2. thread'.state # "run" /\ \E x, y, z : thread' = [state |-> x, closing |-> y, due |-> z]
        <3>1. PICK ps : thread' = [thread EXCEPT !.state = "release", !.closing = ps] \/ thread' = thread
            BY <1>8, Zenon DEF HostFinalFlush
        <3>2. CASE thread' = [thread EXCEPT !.state = "release", !.closing = ps]
            <4>1. thread' = [state |-> "release", closing |-> ps, due |-> thread.due]
                BY <3>2 DEF Inv
            <4> QED BY <4>1
        <3>3. CASE thread' = thread
            BY <2>1, <3>3 DEF Inv
        <3> QED BY <3>1, <3>2, <3>3
    <2>3. config.frontend = "host"
        BY <2>1 DEF Inv
    <2> QED BY <1>2, <2>1, <2>2, <2>3
<1>9. CASE HostReleaseAll
    <2>1. config' = config /\ thread.state = "release"
        BY <1>9 DEF HostReleaseAll
    <2>2. thread' = [thread EXCEPT !.state = "done"] \/ \E ps : thread' = [thread EXCEPT !.closing = ps]
        BY <1>9, Zenon DEF HostReleaseAll
    <2>3. config.frontend = "host"
        BY <2>1 DEF Inv
    <2>4. thread'.state # "run" /\ \E x, y, z : thread' = [state |-> x, closing |-> y, due |-> z]
        <3>1. PICK x, y, z : thread' = [state |-> x, closing |-> y, due |-> z] /\ x \in {"done", "release"}
            <4>1. CASE thread' = [thread EXCEPT !.state = "done"]
                <5>1. thread' = [state |-> "done", closing |-> thread.closing, due |-> thread.due]
                    BY <4>1 DEF Inv
                <5> QED BY <5>1
            <4>2. ASSUME NEW ps, thread' = [thread EXCEPT !.closing = ps]
                  PROVE  \E x, y, z : thread' = [state |-> x, closing |-> y, due |-> z] /\ x \in {"done", "release"}
                <5>1. thread' = [state |-> "release", closing |-> ps, due |-> thread.due]
                    BY <2>1, <4>2 DEF Inv
                <5> QED BY <5>1
            <4> QED BY <2>2, <4>1, <4>2
        <3> QED BY <3>1
    <2> QED BY <1>2, <2>1, <2>3, <2>4
<1>10. ASSUME NEW p, ForeignRelease(p) PROVE Inv'
    <2>1. UNCHANGED <<config, thread, leases, todo, descs>>
        BY <1>10 DEF ForeignRelease, guestVars, history, syncVars
    <2> QED BY <1>1, <2>1, LocalCall
<1>11. CASE UNCHANGED vars
    <2>1. UNCHANGED <<config, thread, leases, todo, descs>>
        BY <1>11 DEF vars, guestVars, history, syncVars
    <2> QED BY <1>1, <2>1, LocalCall
<1> QED BY <1>3, <1>4, <1>5, <1>6, <1>7, <1>8, <1>9, <1>10, <1>11 DEF Next, HostThread

\* For all guests, paths, configurations and calls of the static adapter and the
\* native host: with file locks, and until the host is shut down, a path counts at
\* least as many lease references as guests have write descriptors on it.
THEOREM LeaseCoversWritersHolds == Spec => []LeaseCoversWriters
<1>1. Init => Inv
    BY InitInv
<1>2. Inv /\ [Next]_vars => Inv'
    BY StepInv
<1>3. Inv => LeaseCoversWriters
    <2>1. SUFFICES ASSUME Inv, Counting, NEW p \in Paths
                   PROVE  leases[p].refs >= Cardinality(WritersAt(p))
        BY DEF LeaseCoversWriters, Counting, Running, WritersAt
    <2>2. LeasesOK /\ DescsOK /\ Covered(p)
        BY <2>1 DEF Inv, CountsOK
    <2>3. IsFiniteSet(WritersAt(p)) /\ IsFiniteSet(ClaimsAt(p))
        BY <2>2, WritersFinite DEF Covered
    <2>4. Cardinality(WritersAt(p)) \in Nat /\ Cardinality(ClaimsAt(p)) \in Nat
        BY <2>3, FS_CardinalityType
    <2>5. leases[p].refs \in Nat
        BY <2>2 DEF LeasesOK, LeaseRecords
    <2> QED BY <2>2, <2>4, <2>5 DEF Covered
<1> QED BY <1>1, <1>2, <1>3, PTL DEF Spec
=============================================================================
