----------------------------- MODULE LeaseSpec -----------------------------
(***************************************************************************)
(* What the lease of one file promises, without lock objects, requests or  *)
(* responses: terms.  A task's term is the time until which it may write;  *)
(* a term that lies ahead is only ever given to a task while no other      *)
(* task's term lies ahead.                                                 *)
(***************************************************************************)
EXTENDS Naturals

CONSTANTS
    Tasks,
    LeaseTime   \* the longest term

VARIABLES
    now,    \* the clock
    term    \* task -> the end of its term; 0 for a task without one

specVars == <<now, term>>

Init ==
    /\ now = 0
    /\ term = [t \in Tasks |-> 0]

\* t gets, or prolongs, a term.  A grant that arrives after it has run out is
\* of no use to t and harms nobody.
Grant(t) ==
    \E end \in 0 .. now + LeaseTime :
        /\ end > now => \A u \in Tasks \ {t} : term[u] <= now
        /\ term' = [term EXCEPT ![t] = end]
        /\ UNCHANGED now

\* t gives its term up, or crashes.
Drop(t) ==
    /\ term' = [term EXCEPT ![t] = 0]
    /\ UNCHANGED now

Tick ==
    /\ now' = now + 1
    /\ UNCHANGED term

Next == Tick \/ \E t \in Tasks : Grant(t) \/ Drop(t)

Spec == Init /\ [][Next]_specVars

=============================================================================
