----------------------------- MODULE ReplayGuard -----------------------------
(***************************************************************************)
(* One receiver's anti-replay guard (src/src/replay.rs) against a network  *)
(* that presents the signed messages in existence in any order and any     *)
(* number of times, while the receiver's clock advances.                   *)
(*                                                                         *)
(* `senders` is the guard's state and `now` the clock its caller reads;    *)
(* the other variables are history, read by no guard: what was accepted,   *)
(* what of it the guard still accounts for (its sender was tracked ever    *)
(* since), what was forgotten by an eviction while still fresh, and what   *)
(* was accepted again.                                                     *)
(***************************************************************************)
EXTENDS ReplayTable

CONSTANTS Messages,   \* [key, counter, timestamp_ms] of the signed messages
          MaxNow      \* bound on the clock

ASSUME MessagesAssumption ==
  /\ MaxNow \in U64
  /\ \A m \in Messages : m.counter \in U64 /\ m.timestamp_ms \in U64

VARIABLES senders, now, accepted, live, lost, again

vars == <<senders, now, accepted, live, lost, again>>

Keys == {m.key : m \in Messages}

Verdicts(m) == check_and_admit(senders, m.key, m.counter, m.timestamp_ms, now)

Init ==
  /\ senders = EmptyMap
  /\ now = 0
  /\ accepted = {} /\ live = {} /\ lost = {} /\ again = {}

\* The freshness rule, with unbounded integers: a reference for Fresh.
StillFresh(m) == m.timestamp_ms - now \in -FRESHNESS_WINDOW_MS .. FRESHNESS_WINDOW_MS

\* ReplayGuard::check_and_admit on a presented message.
Check(m) ==
  \E r \in Verdicts(m) :
    LET evicted == {x \in live : x.key \notin DOMAIN r.tab}
        admitted == IF r.ok THEN {m} ELSE {}
    IN  /\ senders' = r.tab
        /\ live' = (live \ evicted) \cup admitted
        /\ lost' = lost \cup {x \in evicted : StillFresh(x)}
        /\ again' = again \cup (admitted \cap accepted)
        /\ accepted' = accepted \cup admitted
        /\ UNCHANGED now

Tick ==
  /\ now < MaxNow
  /\ now' = now + 1
  /\ UNCHANGED <<senders, accepted, live, lost, again>>

Next == Tick \/ \E m \in Messages : Check(m)

Spec == Init /\ [][Next]_vars
-----------------------------------------------------------------------------
\* The type invariant; a tracked window has been started, and what is accounted
\* for has a tracked sender.
TypeOK ==
  /\ DOMAIN senders \subseteq Keys
  /\ \A k \in DOMAIN senders : senders[k] \in Windows /\ senders[k].started
  /\ now \in 0 .. MaxNow
  /\ accepted \subseteq Messages
  /\ live \subseteq {m \in accepted : m.key \in DOMAIN senders}
  /\ lost \subseteq accepted
  /\ again \subseteq accepted

\* evict_if_full keeps the table at its cap whatever keys are presented.
TableBounded == Cardinality(DOMAIN senders) <= MAX_TRACKED_SENDERS

Accounted(key) == {x \in live : x.key = key}

\* check_and_admit never accepts a counter the guard still accounts for, nor
\* one that has fallen below the window of what it accepted.
NeverTwice ==
  \A m \in Messages :
    (\E x \in Accounted(m.key) :
        x.counter = m.counter \/ x.counter >= m.counter + REPLAY_WINDOW)
    => \A r \in Verdicts(m) : ~r.ok

\* check_and_admit rejects nothing else: a fresh message with a counter inside
\* the window and not accepted since its sender is tracked is accepted, in
\* whatever order the counters came and however far they jumped.
NothingNewRejected ==
  \A m \in Messages :
    /\ StillFresh(m)
    /\ \A x \in Accounted(m.key) :
         x.counter # m.counter /\ x.counter < m.counter + REPLAY_WINDOW
    => \A r \in Verdicts(m) : r.ok

\* A message is accepted a second time only if an eviction forgot its sender
\* while the message was still inside the freshness window.
AgainOnlyIfLost == again \subseteq lost

\* No message is ever accepted twice.
NoReplay == again = {}

NotNewerThan(k, j) ==
  \A x \in Accounted(k) : \E y \in Accounted(j) : x.timestamp_ms <= y.timestamp_ms

\* The sender evict_if_full drops has sent nothing newer than any other tracked
\* sender has, timestamps arriving in any order.
EvictsLeastRecent ==
  [][\A k \in DOMAIN senders \ DOMAIN senders' :
       \A j \in DOMAIN senders : NotNewerThan(k, j)]_vars

\* The counters the bitmap of a window stands for.
Remembered(w) ==
  {w.highest - i : i \in {o \in 0 .. REPLAY_WINDOW - 1 : get_bit(w.bits, o)}}

Promise == INSTANCE AntiReplay WITH
             seen <- [k \in DOMAIN senders |-> Remembered(senders[k])],
             Window <- REPLAY_WINDOW,
             Capacity <- MAX_TRACKED_SENDERS,
             Tolerance <- FRESHNESS_WINDOW_MS

\* The bitmaps and the LRU table implement the bounded memory of AntiReplay:
\* every call of check_and_admit is an Accept or changes nothing.
ImplementsPromise == Promise!Spec
=============================================================================
