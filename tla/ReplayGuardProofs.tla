------------------------- MODULE ReplayGuardProofs -------------------------
(***************************************************************************)
(* Theorems about the anti-replay guard, for every window geometry, table  *)
(* size, freshness window and set of messages.                             *)
(***************************************************************************)
EXTENDS ReplayGuard, ReplayTableProofs

\* A message check_and_admit accepts.
Acceptable(m) == Passes(senders, m.key, m.counter, m.timestamp_ms, now)

\* The saturating bounds of the freshness window lose nothing.
LEMMA FreshExactly ==
  ASSUME TypeOK, NEW m \in Messages
  PROVE  Fresh(m.timestamp_ms, now) <=> StillFresh(m)
<1>1. /\ m.timestamp_ms \in Nat /\ m.timestamp_ms <= U64_MAX
      /\ now \in Nat /\ U64_MAX \in Nat /\ FRESHNESS_WINDOW_MS \in Nat
  BY MessagesAssumption, MachineAssumption, TableAssumption DEF TypeOK, U64
<1> QED
  BY <1>1 DEF Fresh, StillFresh, saturating_add, saturating_sub

\* The window check_and_admit consults is proper.
LEMMA CurrentProper ==
  ASSUME TypeOK, NEW key
  PROVE  Proper(Current(senders, key))
<1>1. NewWindow \in Windows
  BY MachineAssumption DEF NewWindow, Windows, U64, NoBits
<1> QED
  BY <1>1 DEF Proper, Current, TypeOK

\* A step of check_and_admit on m, accepted, the senders in E evicted.
AcceptStep(E, m) ==
  /\ Acceptable(m)
  /\ RecordedAs(senders, E, m.key, m.counter, m.timestamp_ms, senders')
  /\ live' = {x \in live : x.key \notin E} \cup {m}
  /\ lost' = lost \cup {x \in live : x.key \in E /\ StillFresh(x)}
  /\ again' = again \cup ({m} \cap accepted)
  /\ accepted' = accepted \cup {m}
  /\ now' = now

\* Every call of check_and_admit changes nothing or is such a step.
LEMMA CheckShape ==
  ASSUME TypeOK, NEW m \in Messages, Check(m)
  PROVE  \/ UNCHANGED vars
         \/ \E E \in SUBSET DOMAIN senders : AcceptStep(E, m)
<1>1. PICK r \in Verdicts(m) :
        /\ senders' = r.tab
        /\ live' = (live \ {x \in live : x.key \notin DOMAIN r.tab})
                     \cup (IF r.ok THEN {m} ELSE {})
        /\ lost' = lost \cup {x \in {y \in live : y.key \notin DOMAIN r.tab} : StillFresh(x)}
        /\ again' = again \cup ((IF r.ok THEN {m} ELSE {}) \cap accepted)
        /\ accepted' = accepted \cup (IF r.ok THEN {m} ELSE {})
        /\ now' = now
  BY DEF Check
<1>2. \A x \in live : x.key \in DOMAIN senders
  BY DEF TypeOK
<1>3. CASE r.ok = FALSE /\ r.tab = senders
  <2>1. {x \in live : x.key \notin DOMAIN r.tab} = {}
    BY <1>2, <1>3
  <2> QED
    BY <1>1, <1>3, <2>1 DEF vars
<1>4. CASE /\ r.ok = TRUE /\ Acceptable(m)
           /\ \E E \in SUBSET DOMAIN senders :
                RecordedAs(senders, E, m.key, m.counter, m.timestamp_ms, r.tab)
  <2>1. PICK E \in SUBSET DOMAIN senders :
          RecordedAs(senders, E, m.key, m.counter, m.timestamp_ms, r.tab)
    BY <1>4
  <2>2. m.key \notin E /\ DOMAIN r.tab = (DOMAIN senders \ E) \cup {m.key}
    BY <2>1 DEF RecordedAs, TableAfter
  <2>3. \A x \in live : x.key \notin DOMAIN r.tab <=> x.key \in E
    BY <1>2, <2>1, <2>2
  <2>4. live' = {x \in live : x.key \notin E} \cup {m}
    BY <1>1, <1>4, <2>3
  <2>5. lost' = lost \cup {x \in live : x.key \in E /\ StillFresh(x)}
    BY <1>1, <2>3
  <2> QED
    BY <1>1, <1>4, <2>1, <2>4, <2>5 DEF AcceptStep
<1> QED
  BY <1>3, <1>4, VerdictShape DEF Verdicts, Acceptable

\* What the table holds after an accepted message.
LEMMA AcceptTable ==
  ASSUME TypeOK, NEW m \in Messages, NEW E \in SUBSET DOMAIN senders, AcceptStep(E, m)
  PROVE  /\ DOMAIN senders' = (DOMAIN senders \ E) \cup {m.key}
         /\ \A k \in DOMAIN senders' : k # m.key => k \in DOMAIN senders /\ senders'[k] = senders[k]
         /\ senders'[m.key] = SeenAt(admit(Current(senders, m.key), m.counter), m.timestamp_ms)
         /\ admit(Current(senders, m.key), m.counter) \in Windows
         /\ senders'[m.key] \in Windows
         /\ senders'[m.key].started
<1>1. m.counter \in U64 /\ m.timestamp_ms \in U64
  BY MessagesAssumption
<1>2. Admits(Current(senders, m.key), m.counter)
  BY DEF AcceptStep, Acceptable, Passes
<1>3. /\ admit(Current(senders, m.key), m.counter) \in Windows
      /\ admit(Current(senders, m.key), m.counter).started
  BY <1>1, <1>2, CurrentProper, AdmitType
<1>4. /\ DOMAIN senders' = (DOMAIN senders \ E) \cup {m.key}
      /\ \A k \in DOMAIN senders' : k # m.key => k \in DOMAIN senders /\ senders'[k] = senders[k]
      /\ senders'[m.key] = SeenAt(admit(Current(senders, m.key), m.counter), m.timestamp_ms)
  BY DEF AcceptStep, RecordedAs, TableAfter
<1> QED
  BY <1>1, <1>3, <1>4, SeenAtFields

-----------------------------------------------------------------------------
(***************************************************************************)
(* Type correctness.                                                       *)
(***************************************************************************)

\* The guard's table keeps its type under every call of check_and_admit: every
\* tracked window has been started and its bitmap never outgrows its words.
THEOREM TypeCorrect == Spec => []TypeOK
<1>1. Init => TypeOK
  BY MessagesAssumption DEF Init, TypeOK, EmptyMap, U64
<1>2. TypeOK /\ [Next]_vars => TypeOK'
  <2> SUFFICES ASSUME TypeOK, [Next]_vars PROVE TypeOK'
    OBVIOUS
  <2>1. CASE Tick
    BY <2>1, MessagesAssumption DEF Tick, TypeOK, U64
  <2>2. ASSUME NEW m \in Messages, NEW E \in SUBSET DOMAIN senders, AcceptStep(E, m)
        PROVE  TypeOK'
    <3>1. /\ DOMAIN senders' \subseteq Keys
          /\ \A k \in DOMAIN senders' : senders'[k] \in Windows /\ senders'[k].started
      BY <2>2, AcceptTable DEF TypeOK, Keys
    <3>2. /\ accepted' \subseteq Messages
          /\ live' \subseteq {x \in accepted' : x.key \in DOMAIN senders'}
          /\ lost' \subseteq accepted' /\ again' \subseteq accepted'
      <4>1. DOMAIN senders' = (DOMAIN senders \ E) \cup {m.key}
        BY <2>2, AcceptTable
      <4>2. accepted' \subseteq Messages /\ lost' \subseteq accepted' /\ again' \subseteq accepted'
        BY <2>2 DEF TypeOK, AcceptStep
      <4>3. \A x \in live' : x \in accepted' /\ x.key \in DOMAIN senders'
        BY <2>2, <4>1 DEF TypeOK, AcceptStep
      <4> QED
        BY <4>2, <4>3
    <3> QED
      BY <2>2, <3>1, <3>2 DEF TypeOK, AcceptStep
  <2>3. CASE UNCHANGED vars
    BY <2>3 DEF vars, TypeOK
  <2> QED
    BY <2>1, <2>2, <2>3, CheckShape DEF Next
<1> QED
  BY <1>1, <1>2, PTL DEF Spec

-----------------------------------------------------------------------------
(***************************************************************************)
(* Each window is exactly the recent part of what was accepted.            *)
(***************************************************************************)

\* The counters accepted from a sender since it is tracked.
CountersOf(key) == {x.counter : x \in Accounted(key)}

\* The window of each tracked sender against the history of what it accepted: its
\* highest counter is the highest accepted one, and inside the window it remembers
\* the accepted counters and no other.
Exact == \A k \in DOMAIN senders : Tracks(senders[k], CountersOf(k))

\* What is accounted for are messages, so their counters are u64s.
LEMMA CountersType ==
  ASSUME TypeOK, NEW key
  PROVE  CountersOf(key) \in SUBSET U64
  BY MessagesAssumption DEF TypeOK, CountersOf, Accounted

\* Where the windows are exact, a fresh message is accepted exactly when its
\* counter is neither accounted for nor below the window.
LEMMA AcceptableExactly ==
  ASSUME WideUsize, TypeOK, Exact, NEW m \in Messages
  PROVE  Acceptable(m) <=>
           /\ StillFresh(m)
           /\ \A x \in Accounted(m.key) :
                x.counter # m.counter /\ x.counter < m.counter + REPLAY_WINDOW
<1>1. Fresh(m.timestamp_ms, now) <=> StillFresh(m)
  BY FreshExactly
<1>2. m.counter \in U64
  BY MessagesAssumption
<1>3. CASE m.key \notin DOMAIN senders
  <2>1. Accounted(m.key) = {}
    BY <1>3 DEF Accounted, TypeOK
  <2>2. Admits(Current(senders, m.key), m.counter)
    BY <1>3 DEF Current, Admits, NewWindow
  <2> QED
    BY <1>1, <2>1, <2>2 DEF Acceptable, Passes
<1>4. CASE m.key \in DOMAIN senders
  <2>1. /\ senders[m.key] \in Windows /\ senders[m.key].started
        /\ Tracks(senders[m.key], CountersOf(m.key))
    BY <1>4 DEF TypeOK, Exact
  <2>2. Admits(senders[m.key], m.counter)
          <=> \A n \in CountersOf(m.key) : n # m.counter /\ n < m.counter + REPLAY_WINDOW
    BY <1>2, <2>1, CountersType, TracksAdmits
  <2> QED
    BY <1>1, <1>4, <2>2 DEF Acceptable, Passes, Current, CountersOf
<1> QED
  BY <1>3, <1>4

\* An accepted message keeps the windows exact.
LEMMA AcceptExact ==
  ASSUME WideUsize, TypeOK, Exact, NEW m \in Messages,
         NEW E \in SUBSET DOMAIN senders, AcceptStep(E, m)
  PROVE  Exact'
<1> DEFINE c == m.counter
           v == admit(Current(senders, m.key), c)
<1>1. /\ DOMAIN senders' = (DOMAIN senders \ E) \cup {m.key}
      /\ \A k \in DOMAIN senders' : k # m.key => k \in DOMAIN senders /\ senders'[k] = senders[k]
      /\ senders'[m.key] = SeenAt(v, m.timestamp_ms)
      /\ v \in Windows
  BY AcceptTable
<1>2. SUFFICES ASSUME NEW k \in DOMAIN senders' PROVE Tracks(senders'[k], CountersOf(k)')
  BY DEF Exact
<1>3. live' = {x \in live : x.key \notin E} \cup {m} /\ m.key \notin E
  BY DEF AcceptStep, RecordedAs
<1>4. CASE k # m.key
  <2>1. Accounted(k)' = Accounted(k)
    BY <1>1, <1>2, <1>3, <1>4 DEF Accounted
  <2> QED
    BY <1>1, <1>2, <1>4, <2>1 DEF Exact, CountersOf
<1>5. CASE k = m.key
  <2>1. c \in U64 /\ m.timestamp_ms \in U64 /\ Admits(Current(senders, k), c)
    BY <1>5, MessagesAssumption DEF AcceptStep, Acceptable, Passes
  <2>2. CountersOf(k)' = CountersOf(k) \cup {c}
    <3>1. Accounted(k)' = Accounted(k) \cup {m}
      BY <1>3, <1>5 DEF Accounted
    <3> QED
      BY <3>1 DEF CountersOf
  <2>3. Tracks(v, CountersOf(k) \cup {c})
    <3>1. CASE k \notin DOMAIN senders
      <4>1. CountersOf(k) = {}
        BY <3>1 DEF CountersOf, Accounted, TypeOK
      <4>2. v = admit(NewWindow, c)
        BY <1>5, <3>1 DEF Current
      <4> QED
        BY <2>1, <4>1, <4>2, TracksFirst
    <3>2. CASE k \in DOMAIN senders
      <4>1. /\ senders[k] \in Windows /\ senders[k].started
            /\ Tracks(senders[k], CountersOf(k))
        BY <3>2 DEF TypeOK, Exact
      <4>2. v = admit(senders[k], c) /\ Admits(senders[k], c)
        BY <1>5, <2>1, <3>2 DEF Current
      <4> QED
        BY <2>1, <4>1, <4>2, CountersType, TracksAdmit
    <3> QED
      BY <3>1, <3>2
  <2> QED
    BY <1>1, <1>5, <2>1, <2>2, <2>3, TracksSeenAt
<1> QED
  BY <1>4, <1>5

\* On a 64-bit target the bitmap of every tracked sender is, at all times, exactly
\* the set of counters accepted from it inside the window.
THEOREM WindowsExact == ASSUME WideUsize PROVE Spec => []Exact
<1>1. Init => Exact
  BY DEF Init, Exact, EmptyMap
<1>2. TypeOK /\ Exact /\ [Next]_vars => Exact'
  <2> SUFFICES ASSUME TypeOK, Exact, [Next]_vars PROVE Exact'
    OBVIOUS
  <2>1. CASE UNCHANGED <<senders, live>>
    BY <2>1 DEF Exact, CountersOf, Accounted
  <2>2. ASSUME NEW m \in Messages, Check(m) PROVE Exact'
    BY <2>1, <2>2, CheckShape, AcceptExact DEF vars
  <2> QED
    BY <2>1, <2>2 DEF Next, Tick, vars
<1> QED
  BY <1>1, <1>2, TypeCorrect, PTL DEF Spec

\* On a 64-bit target check_and_admit never accepts a counter that is accounted for
\* or below the window, in whatever order the counters come, for every window
\* geometry: the dedup of replay.rs is sound.
THEOREM NeverTwiceHolds == ASSUME WideUsize PROVE Spec => []NeverTwice
<1>1. TypeOK /\ Exact => NeverTwice
  <2> SUFFICES ASSUME TypeOK, Exact, NEW m \in Messages, NEW x \in Accounted(m.key),
                      x.counter = m.counter \/ x.counter >= m.counter + REPLAY_WINDOW,
                      NEW r \in Verdicts(m)
               PROVE  ~r.ok
    BY DEF NeverTwice
  <2>1. x.counter \in Nat /\ m.counter \in Nat /\ REPLAY_WINDOW \in Nat
    BY MessagesAssumption, WindowAssumption DEF Accounted, TypeOK, U64, REPLAY_WINDOW
  <2>2. ~Acceptable(m)
    BY <2>1, AcceptableExactly
  <2> QED
    BY <2>2, VerdictShape DEF Verdicts, Acceptable
<1> QED
  BY <1>1, TypeCorrect, WindowsExact, PTL

\* On a 64-bit target check_and_admit accepts every fresh message whose counter is
\* inside the window and not accounted for: the dedup is also complete.
THEOREM NothingNewRejectedHolds == ASSUME WideUsize PROVE Spec => []NothingNewRejected
<1>1. TypeOK /\ Exact => NothingNewRejected
  <2> SUFFICES ASSUME TypeOK, Exact, NEW m \in Messages, StillFresh(m),
                      \A x \in Accounted(m.key) :
                        x.counter # m.counter /\ x.counter < m.counter + REPLAY_WINDOW,
                      NEW r \in Verdicts(m)
               PROVE  r.ok
    BY DEF NothingNewRejected
  <2>1. Acceptable(m)
    BY AcceptableExactly
  <2> QED
    BY <2>1, VerdictShape DEF Verdicts, Acceptable
<1> QED
  BY <1>1, TypeCorrect, WindowsExact, PTL

-----------------------------------------------------------------------------
(***************************************************************************)
(* A replay needs an eviction.                                             *)
(***************************************************************************)

\* What was accepted is accounted for, was lost while fresh, or has aged out of
\* the freshness window for good.
Ledger ==
  /\ \A x \in accepted : x.timestamp_ms <= now + FRESHNESS_WINDOW_MS
  /\ \A x \in accepted : \/ x \in live \/ x \in lost
                         \/ x.timestamp_ms + FRESHNESS_WINDOW_MS < now
  /\ again \subseteq lost

\* On a 64-bit target a message is accepted a second time only if the eviction of
\* its sender forgot it while it was fresh; with no eviction there is no replay.
THEOREM AgainOnlyIfLostHolds == ASSUME WideUsize PROVE Spec => []AgainOnlyIfLost
<1>1. Init => Ledger
  BY DEF Init, Ledger
<1>2. TypeOK /\ Exact /\ Ledger /\ [Next]_vars => Ledger'
  <2> SUFFICES ASSUME TypeOK, Exact, Ledger, [Next]_vars PROVE Ledger'
    OBVIOUS
  <2>0. /\ now \in Nat /\ FRESHNESS_WINDOW_MS \in Nat
        /\ \A x \in Messages : x.timestamp_ms \in Nat
        /\ accepted \subseteq Messages
    BY MessagesAssumption, TableAssumption DEF TypeOK, U64
  <2>1. CASE Tick
    <3>1. UNCHANGED <<accepted, live, lost, again>> /\ now' = now + 1
      BY <2>1 DEF Tick
    <3> QED
      BY <2>0, <3>1 DEF Ledger
  <2>2. ASSUME NEW m \in Messages, NEW E \in SUBSET DOMAIN senders, AcceptStep(E, m)
        PROVE  Ledger'
    <3>1. StillFresh(m) /\ \A x \in Accounted(m.key) : x.counter # m.counter
      BY <2>2, AcceptableExactly DEF AcceptStep
    <3>2. m \notin live
      BY <3>1 DEF Accounted
    <3>3. m \in accepted => m \in lost
      BY <2>0, <3>1, <3>2 DEF Ledger, StillFresh
    <3>4. again' \subseteq lost'
      BY <2>2, <3>3 DEF AcceptStep, Ledger
    <3>5. \A x \in accepted' : x.timestamp_ms <= now' + FRESHNESS_WINDOW_MS
      BY <2>0, <2>2, <3>1 DEF AcceptStep, Ledger, StillFresh
    <3>6. ASSUME NEW x \in accepted'
          PROVE  \/ x \in live' \/ x \in lost'
                 \/ x.timestamp_ms + FRESHNESS_WINDOW_MS < now'
      <4>1. CASE x = m
        BY <2>2, <4>1 DEF AcceptStep
      <4>2. CASE x \in live
        <5>1. x.timestamp_ms \in Nat /\ x.timestamp_ms <= now + FRESHNESS_WINDOW_MS
          BY <2>0, <4>2 DEF TypeOK, Ledger
        <5>2. StillFresh(x) \/ x.timestamp_ms + FRESHNESS_WINDOW_MS < now
          BY <2>0, <5>1 DEF StillFresh
        <5> QED
          BY <2>2, <4>2, <5>2 DEF AcceptStep
      <4>3. CASE x # m /\ x \notin live
        BY <2>2, <3>6, <4>3 DEF AcceptStep, Ledger
      <4> QED
        BY <4>1, <4>2, <4>3
    <3> QED
      BY <3>4, <3>5, <3>6 DEF Ledger
  <2>3. CASE UNCHANGED vars
    BY <2>3 DEF vars, Ledger
  <2> QED
    BY <2>1, <2>2, <2>3, CheckShape DEF Next
<1>3. Ledger => AgainOnlyIfLost
  BY DEF Ledger, AgainOnlyIfLost
<1> QED
  BY <1>1, <1>2, <1>3, TypeCorrect, WindowsExact, PTL DEF Spec

-----------------------------------------------------------------------------
(***************************************************************************)
(* The table: its size, and whom it evicts.                                *)
(***************************************************************************)

Finite == IsFiniteSet(DOMAIN senders) /\ TableBounded

\* The table stays finite and within its cap: each call enters at most one sender,
\* and only where there was room or one was dropped.
LEMMA StaysFinite == Spec => []Finite
<1>1. Init => Finite
  BY FS_EmptySet, TableAssumption DEF Init, EmptyMap, Finite, TableBounded
<1>2. TypeOK /\ Finite /\ [Next]_vars => Finite'
  <2> SUFFICES ASSUME TypeOK, Finite, [Next]_vars PROVE Finite'
    OBVIOUS
  <2> DEFINE D == DOMAIN senders
             N == MAX_TRACKED_SENDERS
  <2>0. IsFiniteSet(D) /\ Cardinality(D) \in Nat /\ Cardinality(D) <= N /\ N \in Nat \ {0}
    BY FS_CardinalityType, TableAssumption DEF Finite, TableBounded
  <2>1. ASSUME NEW m \in Messages, NEW E \in SUBSET D, AcceptStep(E, m)
        PROVE  Finite'
    <3>1. DOMAIN senders' = (D \ E) \cup {m.key}
      BY <2>1, AcceptTable
    <3>2. CASE E = {} /\ m.key \in D
      BY <2>0, <3>1, <3>2 DEF Finite, TableBounded
    <3>3. CASE E = {} /\ Cardinality(D) < N
      <4>1. /\ IsFiniteSet(D \cup {m.key})
            /\ Cardinality(D \cup {m.key}) \in Nat
            /\ Cardinality(D \cup {m.key}) <= Cardinality(D) + 1
        BY <2>0, AddOne
      <4>2. DOMAIN senders' = D \cup {m.key}
        BY <3>1, <3>3
      <4> QED
        BY <2>0, <3>3, <4>1, <4>2 DEF Finite, TableBounded
    <3>4. CASE \E k \in D : E = {k}
      <4>1. PICK k \in D : E = {k}
        BY <3>4
      <4>2. IsFiniteSet(D \ {k}) /\ Cardinality(D \ {k}) = Cardinality(D) - 1
        BY <2>0, <4>1, FS_RemoveElement
      <4>3. /\ IsFiniteSet((D \ {k}) \cup {m.key})
            /\ Cardinality((D \ {k}) \cup {m.key}) \in Nat
            /\ Cardinality((D \ {k}) \cup {m.key}) <= Cardinality(D \ {k}) + 1
        BY <4>2, AddOne
      <4>4. DOMAIN senders' = (D \ {k}) \cup {m.key}
        BY <3>1, <4>1
      <4> QED
        BY <2>0, <4>2, <4>3, <4>4 DEF Finite, TableBounded
    <3> QED
      BY <2>1, <3>2, <3>3, <3>4 DEF AcceptStep, RecordedAs, Evicts, LeastRecentlySeen
  <2>2. CASE UNCHANGED senders
    BY <2>2 DEF Finite, TableBounded
  <2> QED
    BY <2>1, <2>2, CheckShape DEF Next, Tick, vars
<1> QED
  BY <1>1, <1>2, TypeCorrect, PTL DEF Spec

\* The table never tracks more than MAX_TRACKED_SENDERS senders, however many
\* distinct ones present messages.
THEOREM TableStaysBounded == Spec => []TableBounded
<1>1. Finite => TableBounded
  BY DEF Finite
<1> QED
  BY <1>1, StaysFinite, PTL

\* The recency last_seen_ms stands for: the timestamp of the newest message accepted
\* from the sender since it is tracked, in whatever order the timestamps came.
Recency ==
  \A k \in DOMAIN senders :
    /\ \E x \in Accounted(k) : x.timestamp_ms = senders[k].last_seen_ms
    /\ \A x \in Accounted(k) : x.timestamp_ms <= senders[k].last_seen_ms

\* An accepted message keeps last_seen_ms the newest timestamp of its sender.
LEMMA AcceptRecency ==
  ASSUME TypeOK, Recency, NEW m \in Messages, NEW E \in SUBSET DOMAIN senders,
         AcceptStep(E, m)
  PROVE  Recency'
<1> DEFINE w == Current(senders, m.key)
           v == admit(w, m.counter)
<1>1. /\ DOMAIN senders' = (DOMAIN senders \ E) \cup {m.key}
      /\ \A k \in DOMAIN senders' : k # m.key => k \in DOMAIN senders /\ senders'[k] = senders[k]
      /\ senders'[m.key] = SeenAt(v, m.timestamp_ms)
      /\ v \in Windows
  BY AcceptTable
<1>2. SUFFICES ASSUME NEW k \in DOMAIN senders'
               PROVE  /\ \E x \in Accounted(k)' : x.timestamp_ms = senders'[k].last_seen_ms
                      /\ \A x \in Accounted(k)' : x.timestamp_ms <= senders'[k].last_seen_ms
  BY DEF Recency
<1>3. live' = {x \in live : x.key \notin E} \cup {m} /\ m.key \notin E
  BY DEF AcceptStep, RecordedAs
<1>4. CASE k # m.key
  <2>1. Accounted(k)' = Accounted(k)
    BY <1>1, <1>2, <1>3, <1>4 DEF Accounted
  <2> QED
    BY <1>1, <1>2, <1>4, <2>1 DEF Recency
<1>5. CASE k = m.key
  <2>1. Accounted(k)' = Accounted(k) \cup {m}
    BY <1>3, <1>5 DEF Accounted
  <2>2. /\ m.counter \in U64 /\ m.timestamp_ms \in U64
        /\ Proper(w) /\ Admits(w, m.counter)
    BY MessagesAssumption, CurrentProper DEF AcceptStep, Acceptable, Passes
  <2>3. v.last_seen_ms = w.last_seen_ms
    BY <2>2, AdmitType
  <2>4. senders'[k].last_seen_ms
          = IF w.last_seen_ms < m.timestamp_ms THEN m.timestamp_ms ELSE w.last_seen_ms
    BY <1>1, <1>5, <2>2, <2>3, SeenAtFields
  <2>5. /\ m.timestamp_ms \in Nat /\ w.last_seen_ms \in Nat
        /\ \A x \in live : x.timestamp_ms \in Nat
    BY <2>2, MessagesAssumption DEF TypeOK, Proper, Windows, U64
  <2>6. CASE k \notin DOMAIN senders
    <3>1. Accounted(k) = {} /\ w.last_seen_ms = 0
      BY <1>5, <2>6 DEF Accounted, TypeOK, Current, NewWindow
    <3> QED
      BY <2>1, <2>4, <2>5, <3>1
  <2>7. CASE k \in DOMAIN senders
    <3>1. /\ \E x \in Accounted(k) : x.timestamp_ms = w.last_seen_ms
          /\ \A x \in Accounted(k) : x.timestamp_ms <= w.last_seen_ms
      BY <1>5, <2>7 DEF Recency, Current
    <3>2. \A x \in Accounted(k) : x.timestamp_ms \in Nat
      BY <2>5 DEF Accounted
    <3> QED
      BY <2>1, <2>4, <2>5, <3>1, <3>2
  <2> QED
    BY <2>6, <2>7
<1> QED
  BY <1>4, <1>5

\* The sender that evict_if_full drops has sent nothing newer than any other tracked
\* sender has, on every platform and however the timestamps were ordered: eviction
\* never costs the memory of a more recent sender.
THEOREM EvictsLeastRecentHolds == Spec => EvictsLeastRecent
<1>1. Init => Recency
  BY DEF Init, Recency, EmptyMap
<1>2. TypeOK /\ Recency /\ [Next]_vars => Recency'
  <2> SUFFICES ASSUME TypeOK, Recency, [Next]_vars PROVE Recency'
    OBVIOUS
  <2>1. CASE UNCHANGED <<senders, live>>
    BY <2>1 DEF Recency, Accounted
  <2>2. ASSUME NEW m \in Messages, Check(m) PROVE Recency'
    BY <2>1, <2>2, CheckShape, AcceptRecency DEF vars
  <2> QED
    BY <2>1, <2>2 DEF Next, Tick, vars
<1>3. TypeOK /\ Recency /\ [Next]_vars
        => [\A k \in DOMAIN senders \ DOMAIN senders' :
              \A j \in DOMAIN senders : NotNewerThan(k, j)]_vars
  <2> SUFFICES ASSUME TypeOK, Recency, [Next]_vars,
                      NEW k \in DOMAIN senders \ DOMAIN senders', NEW j \in DOMAIN senders
               PROVE  NotNewerThan(k, j)
    OBVIOUS
  <2>1. PICK m \in Messages, E \in SUBSET DOMAIN senders : AcceptStep(E, m)
    BY CheckShape DEF Next, Tick, vars
  <2>2. DOMAIN senders' = (DOMAIN senders \ E) \cup {m.key}
    BY <2>1, AcceptTable
  <2>3. k \in E /\ k \in LeastRecentlySeen(senders)
    BY <2>1, <2>2 DEF AcceptStep, RecordedAs, Evicts
  <2>4. senders[k].last_seen_ms <= senders[j].last_seen_ms
    BY <2>3 DEF LeastRecentlySeen
  <2>5. /\ senders[k].last_seen_ms \in Nat /\ senders[j].last_seen_ms \in Nat
        /\ \A x \in live : x.timestamp_ms \in Nat
    BY MessagesAssumption DEF TypeOK, Windows, U64
  <2>6. PICK y \in Accounted(j) : y.timestamp_ms = senders[j].last_seen_ms
    BY DEF Recency
  <2>7. \A x \in Accounted(k) : x.timestamp_ms <= y.timestamp_ms
    BY <2>4, <2>5, <2>6 DEF Recency, Accounted
  <2> QED
    BY <2>7 DEF NotNewerThan
<1> QED
  BY <1>1, <1>2, <1>3, TypeCorrect, PTL DEF Spec, EvictsLeastRecent

\* Where the table has room for every sender that can present a message, nothing is
\* ever evicted and, on a 64-bit target, no message is accepted twice: an eviction
\* is the only way past the guard.
THEOREM NoReplayWithRoom ==
  ASSUME WideUsize, IsFiniteSet(Keys), Cardinality(Keys) <= MAX_TRACKED_SENDERS
  PROVE  Spec => []NoReplay
<1> DEFINE NothingLost == lost = {}
<1>1. Init => NothingLost
  BY DEF Init
<1>2. TypeOK /\ NothingLost /\ [Next]_vars => NothingLost'
  <2> SUFFICES ASSUME TypeOK, NothingLost, [Next]_vars PROVE NothingLost'
    OBVIOUS
  <2>1. ASSUME NEW m \in Messages, NEW E \in SUBSET DOMAIN senders, AcceptStep(E, m)
        PROVE  NothingLost'
    <3>1. E = {}
      <4>1. SUFFICES ASSUME m.key \notin DOMAIN senders,
                            ~(Cardinality(DOMAIN senders) < MAX_TRACKED_SENDERS)
                     PROVE  FALSE
        BY <2>1 DEF AcceptStep, RecordedAs, Evicts
      <4>2. DOMAIN senders \cup {m.key} \subseteq Keys
        BY DEF TypeOK, Keys
      <4>3. IsFiniteSet(DOMAIN senders)
        BY <4>2, FS_Subset
      <4>4. Cardinality(DOMAIN senders \cup {m.key}) = Cardinality(DOMAIN senders) + 1
        BY <4>1, <4>3, FS_AddElement
      <4>5. Cardinality(DOMAIN senders \cup {m.key}) <= Cardinality(Keys)
        BY <4>2, FS_Subset
      <4>6. Cardinality(DOMAIN senders) \in Nat /\ Cardinality(Keys) \in Nat
        BY <4>3, FS_CardinalityType
      <4> QED
        BY <4>1, <4>4, <4>5, <4>6, TableAssumption
    <3> QED
      BY <2>1, <3>1 DEF AcceptStep
  <2>2. CASE UNCHANGED lost
    BY <2>2
  <2> QED
    BY <2>1, <2>2, CheckShape DEF Next, Tick, vars
<1>3. AgainOnlyIfLost /\ NothingLost => NoReplay
  BY DEF AgainOnlyIfLost, NoReplay
<1> QED
  BY <1>1, <1>2, <1>3, TypeCorrect, AgainOnlyIfLostHolds, PTL DEF Spec

-----------------------------------------------------------------------------
(***************************************************************************)
(* The guard implements the bounded memory of AntiReplay.                  *)
(***************************************************************************)

\* The counters the bitmap of a window in use stands for are those it holds.
LEMMA RememberedHolds ==
  ASSUME NEW w \in Windows, w.started
  PROVE  Remembered(w) = {n \in Int : Holds(w, n)}
<1>1. w.highest \in Nat /\ w.bits \in Bitmaps /\ Offsets \subseteq Int
  BY WindowAssumption DEF Windows, U64, Bitmaps, Offsets, REPLAY_WINDOW
<1>2. \A o \in Offsets : get_bit(w.bits, o) <=> BitAt(w.bits, o)
  BY <1>1, GetBit
<1>3. Remembered(w) = {w.highest - o : o \in {i \in Offsets : BitAt(w.bits, i)}}
  BY <1>2 DEF Remembered, Offsets
<1>4. ASSUME NEW n \in Int, Holds(w, n) PROVE n \in Remembered(w)
  <2>1. w.highest - n \in Offsets /\ BitAt(w.bits, w.highest - n)
    BY <1>4 DEF Holds
  <2>2. n = w.highest - (w.highest - n)
    BY <1>1
  <2> QED
    BY <1>3, <2>1, <2>2
<1>5. ASSUME NEW n \in Remembered(w) PROVE n \in Int /\ Holds(w, n)
  <2>1. PICK o \in Offsets : BitAt(w.bits, o) /\ n = w.highest - o
    BY <1>3
  <2>2. n \in Int /\ w.highest - n = o
    BY <1>1, <2>1
  <2> QED
    BY <2>1, <2>2 DEF Holds
<1> QED
  BY <1>4, <1>5

\* A window that tracks S remembers the part of S inside it, its highest counter
\* included.
LEMMA RememberedTracks ==
  ASSUME NEW w \in Windows, w.started, NEW S \in SUBSET U64, Tracks(w, S)
  PROVE  /\ Remembered(w) = {n \in S : w.highest - n \in Offsets}
         /\ w.highest \in Remembered(w)
<1>1. U64 \subseteq Int /\ w.highest \in Int /\ 0 \in Offsets
  BY WindowAssumption DEF U64, Windows, Offsets, REPLAY_WINDOW
<1>2. w.highest - w.highest \in Offsets
  BY <1>1
<1> QED
  BY <1>1, <1>2, RememberedHolds DEF Tracks

\* The recent part of S and one more counter is the recent part of both.
LEMMA RecentPart ==
  ASSUME NEW S \in SUBSET Nat, NEW h \in S, \A n \in S : n <= h,
         NEW c \in Nat, NEW g, g = IF c <= h THEN h ELSE c
  PROVE  Promise!InWindow({n \in S : h - n \in Offsets} \cup {c})
           = {n \in S \cup {c} : g - n \in Offsets}
<1> DEFINE R == {n \in S : h - n \in Offsets}
<1>1. REPLAY_WINDOW \in Nat \ {0} /\ g \in Nat
  BY WindowAssumption DEF REPLAY_WINDOW
<1>2. \A n \in S \cup {c} : n <= g /\ (g - n \in Offsets <=> g < n + REPLAY_WINDOW)
  BY <1>1 DEF Offsets
<1>3. h \in R
  BY <1>1 DEF Offsets
<1>4. \A n \in S : h - n \in Offsets <=> h < n + REPLAY_WINDOW
  BY <1>1 DEF Offsets
<1>5. ASSUME NEW n \in Promise!InWindow(R \cup {c})
      PROVE  n \in S \cup {c} /\ g - n \in Offsets
  <2>1. n \in R \cup {c} /\ \A d \in R \cup {c} : d < n + REPLAY_WINDOW
    BY <1>5 DEF Promise!InWindow
  <2>2. g \in R \cup {c}
    BY <1>3
  <2> QED
    BY <1>2, <2>1, <2>2
<1>6. ASSUME NEW n \in S \cup {c}, g - n \in Offsets
      PROVE  n \in Promise!InWindow(R \cup {c})
  <2>1. n \in Nat /\ g < n + REPLAY_WINDOW
    BY <1>2, <1>6
  <2>2. n \in R \cup {c}
    BY <1>1, <1>4, <2>1
  <2>3. \A d \in R \cup {c} : d < n + REPLAY_WINDOW
    BY <1>1, <1>2, <2>1
  <2> QED
    BY <2>2, <2>3 DEF Promise!InWindow
<1> QED
  BY <1>5, <1>6

\* The memory the table stands for.
Memory == [k \in DOMAIN senders |-> Remembered(senders[k])]

\* A counter the window of a tracked sender admits is new to the memory.
LEMMA AcceptedIsNew ==
  ASSUME WideUsize, TypeOK, Exact, NEW m \in Messages, Acceptable(m)
  PROVE  Promise!New(m)
<1>1. SUFFICES ASSUME m.key \in DOMAIN senders
               PROVE  LET R == Remembered(senders[m.key])
                      IN  m.counter \notin R /\ m.counter \in Promise!InWindow(R \cup {m.counter})
  BY DEF Promise!New
<1> DEFINE w == senders[m.key]
           S == CountersOf(m.key)
<1>2. w \in Windows /\ w.started /\ Tracks(w, S) /\ S \in SUBSET U64
  BY <1>1, CountersType DEF TypeOK, Exact
<1>3. m.counter \in U64 /\ m.counter \in Nat /\ S \subseteq Nat /\ REPLAY_WINDOW \in Nat \ {0}
  BY <1>2, MessagesAssumption, WindowAssumption DEF U64, REPLAY_WINDOW
<1>4. \A n \in S : n # m.counter /\ n < m.counter + REPLAY_WINDOW
  <2>1. Admits(w, m.counter)
    BY <1>1 DEF Acceptable, Passes, Current
  <2> QED
    BY <1>2, <1>3, <2>1, TracksAdmits
<1>5. Remembered(w) \subseteq S
  BY <1>2, RememberedTracks
<1> QED
  BY <1>3, <1>4, <1>5 DEF Promise!InWindow

\* An accepted message adds its counter to the memory of its sender and forgets
\* what the window slid past; the other senders that stay keep theirs.
LEMMA AcceptRemembers ==
  ASSUME WideUsize, TypeOK, Exact, NEW m \in Messages,
         NEW E \in SUBSET DOMAIN senders, AcceptStep(E, m)
  PROVE  Memory' = Promise!Remember(DOMAIN senders \ E, m)
<1> DEFINE c == m.counter
           w == Current(senders, m.key)
           v == admit(w, c)
           D == DOMAIN senders \ E
           Old == IF m.key \in D THEN Remembered(senders[m.key]) ELSE {}
<1>1. /\ DOMAIN senders' = D \cup {m.key}
      /\ \A k \in DOMAIN senders' : k # m.key => k \in DOMAIN senders /\ senders'[k] = senders[k]
      /\ senders'[m.key] \in Windows /\ senders'[m.key].started
      /\ senders'[m.key] = SeenAt(v, m.timestamp_ms)
      /\ v \in Windows
  BY AcceptTable
<1>2. m.key \notin E /\ live' = {x \in live : x.key \notin E} \cup {m}
  BY DEF AcceptStep, RecordedAs
<1>3. c \in U64 /\ c \in Nat /\ m.timestamp_ms \in U64 /\ Proper(w) /\ Admits(w, c)
  BY MessagesAssumption, CurrentProper DEF AcceptStep, Acceptable, Passes, U64
<1>4. Remembered(senders'[m.key]) = Promise!InWindow(Old \cup {c})
  <2>1. senders'[m.key].highest = v.highest
    BY <1>1, <1>3, SeenAtFields
  <2>2. v.highest = IF w.started /\ c <= w.highest THEN w.highest ELSE c
    BY <1>3, AdmitType
  <2>3. Tracks(senders'[m.key], CountersOf(m.key)')
    BY <1>1, AcceptExact DEF Exact
  <2>4. CountersOf(m.key)' = CountersOf(m.key) \cup {c}
    <3>1. Accounted(m.key)' = Accounted(m.key) \cup {m}
      BY <1>2 DEF Accounted
    <3> QED
      BY <3>1 DEF CountersOf
  <2>5. CountersOf(m.key) \in SUBSET U64 /\ U64 \subseteq Nat
    BY CountersType DEF U64
  <2>6. Remembered(senders'[m.key])
          = {n \in CountersOf(m.key) \cup {c} : v.highest - n \in Offsets}
    BY <1>1, <1>3, <2>1, <2>3, <2>4, <2>5, RememberedTracks
  <2>7. CASE m.key \notin DOMAIN senders
    <3>1. CountersOf(m.key) = {} /\ Old = {} /\ v.highest = c
      BY <2>2, <2>7 DEF CountersOf, Accounted, TypeOK, Current, NewWindow
    <3>2. Promise!InWindow({c}) = {c}
      BY <1>3, WindowAssumption DEF Promise!InWindow, REPLAY_WINDOW
    <3>3. {n \in {c} : c - n \in Offsets} = {c}
      BY <1>3, WindowAssumption DEF Offsets, REPLAY_WINDOW
    <3> QED
      BY <2>6, <3>1, <3>2, <3>3
  <2>8. CASE m.key \in DOMAIN senders
    <3>1. /\ w = senders[m.key] /\ w \in Windows /\ w.started
          /\ Tracks(w, CountersOf(m.key)) /\ w.highest \in Nat
      BY <2>8 DEF TypeOK, Exact, Current, Windows, U64
    <3>2. Old = {n \in CountersOf(m.key) : w.highest - n \in Offsets}
      BY <1>2, <2>5, <2>8, <3>1, RememberedTracks
    <3>3. /\ w.highest \in CountersOf(m.key)
          /\ \A n \in CountersOf(m.key) : n <= w.highest
          /\ CountersOf(m.key) \in SUBSET Nat
      BY <2>5, <3>1 DEF Tracks
    <3>4. Promise!InWindow(Old \cup {c})
            = {n \in CountersOf(m.key) \cup {c} : v.highest - n \in Offsets}
      <4>1. v.highest = IF c <= w.highest THEN w.highest ELSE c
        BY <2>2, <3>1
      <4>2. Promise!InWindow({n \in CountersOf(m.key) : w.highest - n \in Offsets} \cup {c})
              = {n \in CountersOf(m.key) \cup {c} : v.highest - n \in Offsets}
        <5> HIDE DEF w, v, c
        <5> QED
          BY <1>3, <3>3, <4>1, RecentPart
      <4> QED
        BY <3>2, <4>2
    <3> QED
      BY <2>6, <3>4
  <2> QED
    BY <2>7, <2>8
<1>5. Memory' = [k \in D \cup {m.key} |-> Remembered(senders'[k])]
  BY <1>1 DEF Memory, Remembered
<1>6. Promise!Remember(D, m)
        = [k \in D \cup {m.key} |->
             IF k # m.key THEN Memory[k]
             ELSE Promise!InWindow((IF k \in D THEN Memory[k] ELSE {}) \cup {c})]
  BY DEF Promise!Remember, Memory
<1>7. \A k \in D : Memory[k] = Remembered(senders[k])
  BY DEF Memory
<1>8. ASSUME NEW k \in D \cup {m.key}
      PROVE  Remembered(senders'[k])
               = IF k # m.key THEN Memory[k]
                 ELSE Promise!InWindow((IF k \in D THEN Memory[k] ELSE {}) \cup {c})
  <2>1. CASE k # m.key
    BY <1>1, <1>7, <2>1
  <2>2. CASE k = m.key
    BY <1>4, <1>7, <2>2
  <2> QED
    BY <2>1, <2>2
<1> QED
  BY <1>5, <1>6, <1>8

\* An accepted call of check_and_admit is an Accept of the promise.
LEMMA AcceptRefines ==
  ASSUME WideUsize, TypeOK, Exact, Finite, NEW m \in Messages,
         NEW E \in SUBSET DOMAIN senders, AcceptStep(E, m)
  PROVE  Promise!Accept(m)
<1>1. Promise!New(m)
  BY AcceptedIsNew DEF AcceptStep
<1>2. m.timestamp_ms - now \in -FRESHNESS_WINDOW_MS .. FRESHNESS_WINDOW_MS /\ now' = now
  BY FreshExactly DEF AcceptStep, Acceptable, Passes, StillFresh
<1>3. Memory' = Promise!Remember(DOMAIN senders \ E, m)
  BY AcceptRemembers
<1>4. DOMAIN Memory = DOMAIN senders /\ Promise!Cardinality(DOMAIN senders) = Cardinality(DOMAIN senders)
  <2>1. Promise!Cardinality(DOMAIN senders) = Cardinality(DOMAIN senders)
    BY DEF Promise!Cardinality, Cardinality
  <2> QED
    BY <2>1 DEF Memory
<1>5. CASE /\ E = {}
           /\ m.key \in DOMAIN senders \/ Cardinality(DOMAIN senders) < MAX_TRACKED_SENDERS
  <2>1. Memory' = Promise!Remember(DOMAIN senders, m)
    BY <1>3, <1>5
  <2> QED
    BY <1>1, <1>2, <1>4, <1>5, <2>1 DEF Promise!Accept, Memory
<1>6. CASE /\ m.key \notin DOMAIN senders
           /\ ~(Cardinality(DOMAIN senders) < MAX_TRACKED_SENDERS)
           /\ \E k \in LeastRecentlySeen(senders) : E = {k}
  <2>1. PICK k \in DOMAIN senders : E = {k}
    BY <1>6 DEF LeastRecentlySeen
  <2>2. Memory' = Promise!Remember(DOMAIN senders \ {k}, m)
    BY <1>3, <2>1
  <2>3. Cardinality(DOMAIN senders) = MAX_TRACKED_SENDERS
    BY <1>6, FS_CardinalityType, TableAssumption DEF Finite, TableBounded
  <2> QED
    BY <1>1, <1>2, <1>4, <1>6, <2>2, <2>3 DEF Promise!Accept, Memory
<1> QED
  BY <1>5, <1>6 DEF AcceptStep, RecordedAs, Evicts

\* On a 64-bit target the bitmaps and the LRU table implement the bounded memory
\* of AntiReplay: every call of check_and_admit accepts a message the memory does
\* not hold, forgetting at most one sender and only to make room, or changes
\* nothing the memory can tell.
THEOREM GuardKeepsPromise == ASSUME WideUsize PROVE Spec => ImplementsPromise
<1>1. Init => Promise!Init
  BY DEF Init, Promise!Init, EmptyMap
<1>2. TypeOK /\ Exact /\ Finite /\ [Next]_vars => [Promise!Next]_(Promise!vars)
  <2> SUFFICES ASSUME TypeOK, Exact, Finite, [Next]_vars
               PROVE  [Promise!Next]_(Promise!vars)
    OBVIOUS
  <2>1. CASE Tick
    <3>1. now \in Nat /\ now' = now + 1 /\ senders' = senders
      BY <2>1 DEF Tick, TypeOK
    <3>2. Promise!Tick
      BY <3>1 DEF Promise!Tick, Remembered
    <3> QED
      BY <3>2 DEF Promise!Next
  <2>2. ASSUME NEW m \in Messages, NEW E \in SUBSET DOMAIN senders, AcceptStep(E, m)
        PROVE  [Promise!Next]_(Promise!vars)
    BY <2>2, AcceptRefines DEF Promise!Next
  <2>3. CASE UNCHANGED vars
    BY <2>3 DEF vars, Promise!vars, Remembered
  <2> QED
    BY <2>1, <2>2, <2>3, CheckShape DEF Next
<1> QED
  BY <1>1, <1>2, TypeCorrect, WindowsExact, StaysFinite, PTL
  DEF Spec, ImplementsPromise, Promise!Spec
=============================================================================
