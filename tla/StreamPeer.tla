----------------------------- MODULE StreamPeer -----------------------------
(***************************************************************************)
(* One StreamEndpoint against whatever may be presented to it: any frame   *)
(* its authenticated peer might seal, in any order and with any counter,   *)
(* also malformed ones; frames of another authenticated sender whose key   *)
(* the caller's resolver happens to find; and frames nobody sealed.  The   *)
(* local application calls any method in any state and may open a          *)
(* correlation id again.                                                   *)
(*                                                                         *)
(* What the application could know is kept as history, from the results it *)
(* was given alone: which streams are live (told), what it granted on them *)
(* and how many chunks it got.  seen is every counter of an authentic,     *)
(* fresh and unexpired message presented so far.                           *)
(***************************************************************************)
EXTENDS StreamEndpoint

CONSTANTS Local, Remote, Stranger,   \* DIDs: of the endpoint, its peer, another sender
          Cids,            \* correlation ids
          MaxConcurrent,   \* the stream cap
          Grants,          \* windows and credit grants of the application
          PeerSeqs,        \* sequence numbers in the peer's frames
          PeerWindows,     \* windows in the peer's frames
          MaxCalls,        \* bound on the frames sealed before the last call
          MaxCounter,      \* bound on the senders' counters
          Now              \* the wall clock, which stands still

ASSUME PeerAssumption ==
  /\ Cardinality({Local, Remote, Stranger}) = 3
  /\ MAX_TRACKED_SENDERS >= 2   \* as many as there are resolvable senders
  /\ Grants \cup PeerWindows \subseteq U32
  /\ PeerSeqs \subseteq U64 \ {U64_MAX}   \* no stream carries 2^64 chunks
  /\ MaxConcurrent \in Nat /\ {MaxCalls, MaxCounter} \subseteq U64
  /\ Now \in U64 \ {0, 1}   \* so that an expires_at can have passed

VARIABLES ep,     \* the endpoint
          seen,   \* the (sender, counter) pairs presented so far
          told    \* what the application knows of each stream

vars == <<ep, seen, told>>

Unknown == [live |-> FALSE, ready |-> FALSE, closed |-> FALSE, peer_closed |-> FALSE,
            granted |-> 0, chunks |-> 0]

Init ==
  /\ ep = NewEndpoint(Local, 0, Remote, MaxConcurrent)
  /\ seen = {}
  /\ told = [c \in Cids |-> Unknown]
-----------------------------------------------------------------------------
\* The local application's calls.

Call(r, c, knows) ==
  /\ ep.send_counter < MaxCalls
  /\ ep' = r.ep
  /\ told' = [told EXCEPT ![c] = knows]
  /\ UNCHANGED seen

Open(c, w) ==
  /\ CanOpen(ep, c)
  /\ Call(open(ep, c, w, Now, 0, TRUE), c, [Unknown EXCEPT !.live = TRUE, !.granted = w])

OpenAck(c, w) ==
  /\ c \in Live(ep) /\ CanOpenAck(ep.sessions[c])
  /\ Call(open_ack(ep, c, w, Now, 0, TRUE), c,
          [told[c] EXCEPT !.ready = TRUE, !.granted = w])

SendData(c) ==
  /\ c \in Live(ep) /\ CanSendData(ep.sessions[c])
  /\ Call(send_data(ep, c, 1, Now, 0, TRUE), c, told[c])

GrantCredit(c, n) ==
  /\ c \in Live(ep) /\ CanGrantCredit(ep.sessions[c])
  /\ Call(grant_credit(ep, c, n, Now, 0, TRUE), c, [told[c] EXCEPT !.granted = @ + n])

Close(c) ==
  /\ c \in Live(ep) /\ CanClose(ep.sessions[c])
  /\ Call(close(ep, c, Now, 0, TRUE), c,
          IF told[c].peer_closed THEN Unknown ELSE [told[c] EXCEPT !.closed = TRUE])

Cancel(c) ==
  /\ c \in Live(ep)
  /\ Call(reset(ep, c, Now, 0, TRUE), c, Unknown)
-----------------------------------------------------------------------------
\* What is presented.

Counters == 0 .. MaxCounter

\* A frame as the code of the peer would seal it now, legal or not.
FrameOf(c, frame, seq, window, counter) ==
  [authentic |-> TRUE, sender |-> Remote, sender_epoch |-> 0, shape |-> "StreamFrame",
   correlation_id |-> c, stream |-> header(frame, seq, window), counter |-> counter,
   timestamp_ms |-> Now, expires_at |-> 0, payload |-> 1]

\* The same, wrong in a way that is noticed only after the guard was advanced:
\* of another shape, without a header, with an unknown frame kind, or with a
\* payload that does not decompress.
Odd(env) ==
  {[env EXCEPT !.shape = "Request"],
   [env EXCEPT !.stream = NoStream],
   [env EXCEPT !.stream.frame = RESET + 1],
   [env EXCEPT !.payload = BadPayload]}

\* Not the peer's, not authentic, with too long a TTL, expired, or not fresh.
Foul(env) ==
  {[env EXCEPT !.sender = Stranger],
   [env EXCEPT !.authentic = FALSE],
   [env EXCEPT !.expires_at = Now + MAX_MESSAGE_TTL_MS + 1],
   [env EXCEPT !.timestamp_ms = Now - 1, !.expires_at = Now - 1],
   [env EXCEPT !.timestamp_ms = Now + FRESHNESS_WINDOW_MS + 1]}

\* Every kind of frame; one that is wrong is a RESET or a chunk, and a foul one
\* has the first counter.
PlainFrames ==
  {FrameOf(c, f, q, w, k) :
     c \in Cids, f \in KnownFrames, q \in PeerSeqs, w \in PeerWindows, k \in Counters}
OddFrames ==
  UNION {Odd(env) : env \in {f \in PlainFrames : f.stream.frame \in {DATA, RESET}}}
FoulFrames ==
  UNION {Foul(env) : env \in {f \in PlainFrames : f.stream.frame \in {DATA, RESET}
                                                /\ f.counter = 0}}

Presentable == PlainFrames \cup OddFrames \cup FoulFrames

\* What the application learns from the outcome of an accept.
Learns(known, env, r) ==
  CASE r.why = "Opened"       -> [Unknown EXCEPT !.live = TRUE]
    [] r.why = "Established"  -> [known EXCEPT !.ready = TRUE]
    [] r.why = "Data"         -> [known EXCEPT !.chunks = @ + 1]
    [] r.why = "RemoteClosed" -> IF known.closed THEN Unknown
                                 ELSE [known EXCEPT !.peer_closed = TRUE]
    [] r.why \in {"PeerReset", "DuplicateOpen", "StreamProtocol"} -> Unknown
    [] OTHER                  -> known

\* The guard is asked about this message.
ReachesGuard(env) ==
  /\ env.authentic /\ ~TtlTooLong(env) /\ ~Expired(env, Now)
  /\ Fresh(env.timestamp_ms, Now)

Accept(env) ==
  \E r \in accept(ep, env, Now, TRUE) :
    /\ ep.send_counter < MaxCalls \/ r.kind # "Reset"
    /\ ep' = r.ep
    /\ told' = [told EXCEPT ![env.correlation_id] = Learns(@, env, r)]
    /\ seen' = IF ReachesGuard(env) THEN seen \cup {<<env.sender, env.counter>>} ELSE seen

Next ==
  \/ \E c \in Cids : \/ \E w \in Grants : Open(c, w) \/ OpenAck(c, w) \/ GrantCredit(c, w)
                     \/ SendData(c) \/ Close(c) \/ Cancel(c)
  \/ \E env \in Presentable : Accept(env)

Spec == Init /\ [][Next]_vars
-----------------------------------------------------------------------------
\* The type invariant.
TypeOK ==
  /\ ep.send_counter \in 0 .. MaxCalls
  /\ Live(ep) \subseteq Cids
  /\ \A c \in Live(ep) : ep.sessions[c] \in Sessions
  /\ \A k \in DOMAIN ep.guard : ep.guard[k] \in Windows
  /\ seen \subseteq {Remote, Stranger} \X Counters

\* The streams stay below the cap, whatever the peer and the application open.
StreamsBounded == Cardinality(Live(ep)) <= MaxConcurrent

\* The application knows from the results of its calls and the events it was
\* given which streams are live: no stream is dropped, replaced or kept behind
\* its back.
ApplicationKnows == \A c \in Cids : told[c].live <=> c \in Live(ep)

\* A chunk is handed over only on a stream that the application knows to be
\* established and not closed by the peer, in sequence, and within what the
\* application has granted in this life of the stream, whatever the peer sends.
ChunksAsGranted ==
  \A env \in Presentable : \A r \in accept(ep, env, Now, TRUE) :
    r.why = "Data" =>
      LET known == told[env.correlation_id]
      IN  /\ known.live /\ known.ready /\ ~known.peer_closed
          /\ env.stream.seq = known.chunks
          /\ known.chunks < known.granted

\* A RESET is sent only in answer to a frame of the authenticated peer that was
\* never presented before and is no RESET itself: nothing a relay or another
\* sender can present, and no exchange of RESETs, provokes one.
NoReflection ==
  \A env \in Presentable : \A r \in accept(ep, env, Now, TRUE) :
    r.kind = "Reset" =>
      /\ env.authentic /\ env.sender = Remote
      /\ env.stream.frame # RESET
      /\ <<env.sender, env.counter>> \notin seen

\* A frame that was presented before, although it may have been refused only
\* by the decompression or for its header, is not processed again, and no frame
\* that is dropped changes a session.
RefusedIsInert ==
  \A env \in Presentable : \A r \in accept(ep, env, Now, TRUE) :
    /\ (ReachesGuard(env) /\ <<env.sender, env.counter>> \in seen) => r.why = "Replay"
    /\ r.kind = "Dropped" => r.ep.sessions = ep.sessions

\* A new frame of the peer is not taken for a replay because of what another
\* sender's messages did to the endpoint's guard.
PeerUndisturbed ==
  \A env \in Presentable :
    (env.sender = Remote /\ ReachesGuard(env) /\ <<Remote, env.counter>> \notin seen)
      => \A r \in accept(ep, env, Now, TRUE) : r.why # "Replay"
=============================================================================
