---------------------------- MODULE ReplayTable ----------------------------
(***************************************************************************)
(* src/src/replay.rs, struct ReplayGuard: the bounded table of sender      *)
(* windows, as operators on the table.  The table is a function whose      *)
(* domain is the set of tracked keys; a key is a (sender DID, epoch) pair. *)
(* The state machines that own a table (ReplayGuard, StreamEndpoint) apply *)
(* these operators to their state.                                         *)
(***************************************************************************)
EXTENDS SenderWindow, FiniteSets, HashMap

CONSTANTS FRESHNESS_WINDOW_MS,   \* largest |timestamp_ms - now_ms| accepted
          MAX_TRACKED_SENDERS    \* cap on the number of windows kept

ASSUME TableAssumption ==
  /\ FRESHNESS_WINDOW_MS \in Nat
  /\ MAX_TRACKED_SENDERS \in Nat \ {0}

\* Faulty: old timestamps pass.
Fresh_no_lower_bound(timestamp_ms, now_ms) ==
  timestamp_ms <= saturating_add(now_ms, FRESHNESS_WINDOW_MS)

\* The freshness test, with its saturating bounds.
Fresh(timestamp_ms, now_ms) ==
  /\ timestamp_ms >= saturating_sub(now_ms, FRESHNESS_WINDOW_MS)
  /\ timestamp_ms <= saturating_add(now_ms, FRESHNESS_WINDOW_MS)

\* The keys min_by_key may pick: HashMap iteration order decides among ties.
LeastRecentlySeen(tab) ==
  {k \in DOMAIN tab : \A j \in DOMAIN tab : tab[k].last_seen_ms <= tab[j].last_seen_ms}

\* Faulty: room is made one sender too late.
evict_if_full_late(tab) ==
  IF Cardinality(DOMAIN tab) <= MAX_TRACKED_SENDERS
    THEN {tab}
    ELSE {Remove(tab, k) : k \in LeastRecentlySeen(tab)}

\* The tables evict_if_full may leave.
evict_if_full(tab) ==
  IF Cardinality(DOMAIN tab) < MAX_TRACKED_SENDERS
    THEN {tab}
    ELSE {Remove(tab, k) : k \in LeastRecentlySeen(tab)}

\* Faulty: room is made for a sender that is tracked already.
Entered_always_evict(tab, key) ==
  {IF key \in DOMAIN t THEN t ELSE Insert(t, key, NewWindow) : t \in evict_if_full(tab)}

\* HashMap::entry(key).or_insert_with(SenderWindow::new), once room was made.
Entered(tab, key) ==
  IF key \in DOMAIN tab
    THEN {tab}
    ELSE {Insert(t, key, NewWindow) : t \in evict_if_full(tab)}

\* Faulty: the last timestamp is kept instead of the latest.
SeenAt_last(w, timestamp_ms) == [w EXCEPT !.last_seen_ms = timestamp_ms]

\* window.last_seen_ms = window.last_seen_ms.max(timestamp_ms)
SeenAt(w, timestamp_ms) ==
  [w EXCEPT !.last_seen_ms = IF @ < timestamp_ms THEN timestamp_ms ELSE @]

Recorded(tab, key, counter, timestamp_ms) ==
  [tab EXCEPT ![key] = SeenAt(admit(@, counter), timestamp_ms)]

\* The (verdict, table) pairs check_and_admit may return.
check_and_admit(tab, key, counter, timestamp_ms, now_ms) ==
  IF ~Fresh(timestamp_ms, now_ms)
    THEN {[ok |-> FALSE, tab |-> tab]}
    ELSE {IF Admits(t[key], counter)
            THEN [ok |-> TRUE, tab |-> Recorded(t, key, counter, timestamp_ms)]
            ELSE [ok |-> FALSE, tab |-> t] : t \in Entered(tab, key)}
=============================================================================
