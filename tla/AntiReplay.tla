----------------------------- MODULE AntiReplay -----------------------------
(***************************************************************************)
(* What the anti-replay guard promises, with no bitmap and no timestamps   *)
(* kept: a bounded memory that maps each sender it remembers to the set of *)
(* counters it accepted and that are still inside the window.  A counter   *)
(* is accepted at most once for as long as its sender is remembered, a     *)
(* sender is forgotten only to make room for one not remembered, and one   *)
(* sender at a time.                                                       *)
(***************************************************************************)
EXTENDS Integers, FiniteSets

CONSTANTS Messages,    \* the messages that can be presented
          Window,      \* counters remembered below the highest one
          Capacity,    \* senders remembered
          Tolerance    \* clock skew tolerated

VARIABLES seen,   \* the remembered senders, each with its counters
          now     \* the receiver's clock

vars == <<seen, now>>

InWindow(S) == {c \in S : \A d \in S : d < c + Window}

New(m) ==
  m.key \in DOMAIN seen =>
    /\ m.counter \notin seen[m.key]
    /\ m.counter \in InWindow(seen[m.key] \cup {m.counter})

Remember(S, m) ==
  [k \in S \cup {m.key} |->
     IF k # m.key THEN seen[k]
     ELSE InWindow((IF k \in S THEN seen[k] ELSE {}) \cup {m.counter})]

\* Accept m; a full memory first forgets one sender when m's is unknown.
Accept(m) ==
  /\ m.timestamp_ms - now \in -Tolerance .. Tolerance
  /\ New(m)
  /\ \/ /\ m.key \in DOMAIN seen \/ Cardinality(DOMAIN seen) < Capacity
        /\ seen' = Remember(DOMAIN seen, m)
     \/ /\ m.key \notin DOMAIN seen
        /\ Cardinality(DOMAIN seen) = Capacity
        /\ \E k \in DOMAIN seen : seen' = Remember(DOMAIN seen \ {k}, m)
  /\ UNCHANGED now

Tick == now' \in Nat /\ now' > now /\ UNCHANGED seen

Init == seen = [k \in {} |-> {}] /\ now \in Nat

Next == Tick \/ \E m \in Messages : Accept(m)

Spec == Init /\ [][Next]_vars
=============================================================================
