-------------------------- MODULE StreamPeerProofs --------------------------
(***************************************************************************)
(* Theorems about one StreamEndpoint against an arbitrary peer, for every  *)
(* set of streams, stream cap, set of grants, window geometry and bound.   *)
(***************************************************************************)
EXTENDS StreamPeer, StreamEndpointProofs

DIDs == {Local, Remote, Stranger}
Senders == {Remote, Stranger}

Knowledge == [live : BOOLEAN, ready : BOOLEAN, closed : BOOLEAN, peer_closed : BOOLEAN,
              granted : Nat, chunks : Nat]

\* An endpoint e and what the application knows, k, are well typed.
Typed(e, k) ==
  /\ e \in Endpoints(DIDs, Cids)
  /\ e.peer_did = Remote /\ e.max_concurrent = MaxConcurrent
  /\ e.send_counter <= MaxCalls
  /\ k \in [Cids -> Knowledge]

\* A session s against what the application knows of its stream, n frames having
\* been sealed: the two agree on the handshake and on the closed directions, the
\* session has delivered what the application got, and what it still permits is
\* covered by the grants.
Matches(s, k, n) ==
  /\ k.live
  /\ k.ready <=> Established(s)
  /\ k.closed <=> s.local_closed
  /\ k.peer_closed <=> s.remote_closed
  /\ ~s.reset /\ ~(s.local_closed /\ s.remote_closed)
  /\ k.chunks = s.recv_seq
  /\ s.recv_window_remaining + k.chunks <= k.granted
  /\ ~Established(s) => s.recv_seq = 0
  /\ s.send_seq <= n

\* The application's view and the session table correspond, stream by stream.
InStep(e, k) ==
  \A c \in Cids : IF c \in Live(e) THEN Matches(e.sessions[c], k[c], e.send_counter)
                                   ELSE ~k[c].live

\* The streams are finitely many and below the cap.
Capped(e) == IsFiniteSet(Live(e)) /\ Cardinality(Live(e)) <= MaxConcurrent

Sound(e, k) == Typed(e, k) /\ InStep(e, k) /\ Capped(e)

\* The inductive invariant behind everything that does not depend on the guard.
Inv == Sound(ep, told) /\ seen \subseteq Senders \X Counters

\* The counters in messages of sender d, S being the pairs presented.
SeenFrom(d, S) == {n \in Counters : <<d, n>> \in S}

\* The guard has a window for each sender heard of and for no one else, and that
\* window tracks all that was presented, what it refused included.
GuardTracks(g, S) ==
  /\ DOMAIN g \subseteq Senders \X {0}
  /\ \A d \in Senders :
       IF <<d, 0>> \in DOMAIN g THEN Tracks(g[<<d, 0>>], SeenFrom(d, S))
                                ELSE SeenFrom(d, S) = {}

\* The inductive invariant with the guard's part.
GuardInv == Inv /\ GuardTracks(ep.guard, seen)
-----------------------------------------------------------------------------
(***************************************************************************)
(* What is presented.                                                      *)
(***************************************************************************)

\* Remote, Stranger and Local are three DIDs.
LEMMA ThreeDIDs == Remote # Stranger /\ Local # Remote /\ Local # Stranger
<1>1. ASSUME NEW a, NEW b PROVE Cardinality({a, b}) <= 2
  <2>1. IsFiniteSet({a}) /\ Cardinality({a}) = 1
    BY FS_Singleton
  <2>2. Cardinality({a} \cup {b}) \in Nat /\ Cardinality({a} \cup {b}) <= 1 + 1
    BY <2>1, AddOne
  <2>3. {a} \cup {b} = {a, b}
    OBVIOUS
  <2> QED
    BY <2>2, <2>3
<1>2. ASSUME NEW a, NEW b, {Local, Remote, Stranger} = {a, b} PROVE FALSE
  <2>1. Cardinality({a, b}) = 3
    BY <1>2, PeerAssumption
  <2>2. Cardinality({a, b}) <= 2
    BY <1>1
  <2> QED
    BY <2>1, <2>2
<1>3. Remote = Stranger => {Local, Remote, Stranger} = {Local, Remote}
  OBVIOUS
<1>4. Local = Remote => {Local, Remote, Stranger} = {Local, Stranger}
  OBVIOUS
<1>5. Local = Stranger => {Local, Remote, Stranger} = {Local, Remote}
  OBVIOUS
<1> QED
  BY <1>2, <1>3, <1>4, <1>5

\* The fields of a frame that can be presented.
Fields(env) ==
  /\ env.correlation_id \in Cids
  /\ env.sender \in Senders /\ env.sender_epoch = 0
  /\ env.counter \in Counters
  /\ env.timestamp_ms \in Nat
  /\ env.stream # NoStream => env.stream.window \in PeerWindows /\ env.stream.seq \in PeerSeqs

\* They are the same in the wrong frames.
LEMMA PresentedFields ==
  ASSUME NEW env \in Presentable
  PROVE  Fields(env)
<1>0. Now \in Nat /\ Now - 1 \in Nat /\ Now + FRESHNESS_WINDOW_MS + 1 \in Nat /\ 0 \in Counters
  BY PeerAssumption, TableAssumption DEF U64, Counters
<1> DEFINE Built(frame, c, f, q, w, k) ==
             /\ c \in Cids /\ q \in PeerSeqs /\ w \in PeerWindows /\ k \in Counters
             /\ frame = FrameOf(c, f, q, w, k)
<1>1. ASSUME NEW c, NEW f, NEW q, NEW w, NEW k, NEW frame, Built(frame, c, f, q, w, k)
      PROVE  Fields(frame)
  BY <1>0, <1>1 DEF FrameOf, header, Senders, Fields
<1>2. ASSUME NEW c, NEW f, NEW q, NEW w, NEW k, NEW frame, Built(frame, c, f, q, w, k),
             NEW wrong \in Odd(frame)
      PROVE  Fields(wrong)
  BY <1>0, <1>2 DEF Odd, FrameOf, header, Senders, Fields
<1>3. ASSUME NEW c, NEW f, NEW q, NEW w, NEW k, NEW frame, Built(frame, c, f, q, w, k),
             NEW wrong \in Foul(frame)
      PROVE  Fields(wrong)
  <2>1. CASE wrong = [frame EXCEPT !.sender = Stranger]
    BY <1>0, <1>3, <2>1 DEF FrameOf, header, Senders, Fields
  <2>2. CASE wrong = [frame EXCEPT !.authentic = FALSE]
    BY <1>0, <1>3, <2>2 DEF FrameOf, header, Senders, Fields
  <2>3. CASE wrong = [frame EXCEPT !.expires_at = Now + MAX_MESSAGE_TTL_MS + 1]
    BY <1>0, <1>3, <2>3 DEF FrameOf, header, Senders, Fields
  <2>4. CASE wrong = [frame EXCEPT !.timestamp_ms = Now - 1, !.expires_at = Now - 1]
    BY <1>0, <1>3, <2>4 DEF FrameOf, header, Senders, Fields
  <2>5. CASE wrong = [frame EXCEPT !.timestamp_ms = Now + FRESHNESS_WINDOW_MS + 1]
    BY <1>0, <1>3, <2>5 DEF FrameOf, header, Senders, Fields
  <2> QED
    BY <1>3, <2>1, <2>2, <2>3, <2>4, <2>5 DEF Foul
<1>4. ASSUME NEW frame \in PlainFrames
      PROVE  \E c, f, q, w, k : Built(frame, c, f, q, w, k)
  BY <1>4 DEF PlainFrames
<1>5. CASE env \in PlainFrames
  BY <1>1, <1>4, <1>5
<1>6. CASE env \in OddFrames
  <2>1. PICK frame \in PlainFrames : env \in Odd(frame)
    BY <1>6 DEF OddFrames
  <2> QED
    BY <1>2, <1>4, <2>1
<1>7. CASE env \in FoulFrames
  <2>1. PICK frame \in PlainFrames : env \in Foul(frame)
    BY <1>7 DEF FoulFrames
  <2> QED
    BY <1>3, <1>4, <2>1
<1> QED
  BY <1>5, <1>6, <1>7 DEF Presentable

\* What AcceptShape asks of an envelope holds of all that can be presented.
LEMMA PresentedSane ==
  ASSUME NEW env \in Presentable
  PROVE  /\ env.correlation_id \in Cids
         /\ env.stream # NoStream => SaneHeader(env.stream)
         /\ ReplayKey(env.sender, env.sender_epoch) = <<env.sender, 0>>
         /\ <<env.sender, 0>> \in DIDs \X {0}
         /\ env.counter \in U64 /\ env.timestamp_ms \in Nat /\ Now \in U64
<1>1. /\ PeerWindows \subseteq U32 /\ \A q \in PeerSeqs : q < U64_MAX
      /\ Counters \subseteq U64 /\ Now \in U64
  BY PeerAssumption, MachineAssumption DEF Counters, U64
<1> QED
  BY <1>1, PresentedFields DEF Fields, SaneHeader, ReplayKey, DIDs, Senders
-----------------------------------------------------------------------------
(***************************************************************************)
(* The three things that can happen to a stream.                           *)
(***************************************************************************)

\* The application's knowledge of one stream changes and nothing else of it.
LEMMA ToldOne ==
  ASSUME NEW k \in [Cids -> Knowledge], NEW c \in Cids, NEW v \in Knowledge
  PROVE  /\ [k EXCEPT ![c] = v] \in [Cids -> Knowledge]
         /\ [k EXCEPT ![c] = v][c] = v
         /\ \A d \in Cids : d # c => [k EXCEPT ![c] = v][d] = k[d]
  OBVIOUS

\* More frames sealed do not disturb a session.
LEMMA MatchesLater ==
  ASSUME NEW s \in Sessions, NEW k, NEW m \in Nat, NEW n \in Nat, m <= n, Matches(s, k, m)
  PROVE  Matches(s, k, n)
<1>1. s.send_seq \in Nat
  BY DEF Sessions, U64
<1>2. s.send_seq <= n
  BY <1>1 DEF Matches
<1> QED
  BY <1>2 DEF Matches

\* A stream is entered or goes on, with a session that matches what the
\* application now knows; a new one only below the cap.
LEMMA Stored ==
  ASSUME NEW e, NEW k, Sound(e, k), NEW c \in Cids, NEW s \in Sessions,
         NEW v \in Knowledge, NEW n \in Nat, e.send_counter <= n, n <= MaxCalls,
         Matches(s, v, n), c \in Live(e) \/ ~Full(e), NEW g, NEW f,
         g \in Maps(DIDs \X {0}, UsedWindows), f = With(e, Insert(e.sessions, c, s), n, g)
  PROVE  Sound(f, [k EXCEPT ![c] = v])
<1> DEFINE t == Insert(e.sessions, c, s)
<1>1. e \in Endpoints(DIDs, Cids) /\ k \in [Cids -> Knowledge]
  BY DEF Sound, Typed
<1>2. e.sessions \in Maps(Cids, Sessions) /\ e.send_counter \in Nat /\ e.max_concurrent \in Nat
  BY <1>1, EndpointType
<1>3. /\ t \in Maps(Cids, Sessions) /\ DOMAIN t = Live(e) \cup {c} /\ t[c] = s
      /\ \A d \in Live(e) : d # c => t[d] = e.sessions[d]
  <2>1. t \in Maps(Cids, Sessions)
    BY <1>2, InsertMap
  <2>2. DOMAIN t = DOMAIN e.sessions \cup {c} /\ t[c] = s
        /\ \A d \in DOMAIN e.sessions : d # c => t[d] = e.sessions[d]
    BY DEF Insert
  <2> QED
    BY <2>1, <2>2 DEF Live
<1>4. f \in Endpoints(DIDs, Cids)
  BY <1>1, <1>3, WithType
<1>5. /\ f.sessions = t /\ f.send_counter = n /\ f.peer_did = e.peer_did
      /\ f.max_concurrent = e.max_concurrent
  BY <1>1, WithFields
<1>6. Live(f) = Live(e) \cup {c}
  BY <1>3, <1>5 DEF Live
<1>7. Typed(f, [k EXCEPT ![c] = v])
  BY <1>1, <1>4, <1>5, ToldOne DEF Sound, Typed
<1>8. ASSUME NEW d \in Cids
      PROVE  IF d \in Live(f) THEN Matches(f.sessions[d], [k EXCEPT ![c] = v][d], f.send_counter)
                              ELSE ~[k EXCEPT ![c] = v][d].live
  <2>1. CASE d = c
    BY <1>1, <1>3, <1>5, <1>6, <2>1, ToldOne
  <2>2. CASE d # c
    <3>1. [k EXCEPT ![c] = v][d] = k[d]
      BY <1>1, <2>2, ToldOne
    <3>2. CASE d \in Live(e)
      <4>1. e.sessions[d] \in Sessions
        BY <1>2, <3>2, MapType DEF Live
      <4>2. Matches(e.sessions[d], k[d], e.send_counter)
        BY <3>2 DEF Sound, InStep
      <4>3. Matches(e.sessions[d], k[d], n)
        BY <1>2, <4>1, <4>2, MatchesLater
      <4> QED
        BY <1>3, <1>5, <1>6, <2>2, <3>1, <3>2, <4>3
    <3>3. CASE d \notin Live(e)
      BY <1>6, <2>2, <3>1, <3>3 DEF Sound, InStep
    <3> QED
      BY <3>2, <3>3
  <2> QED
    BY <2>1, <2>2
<1>9. Capped(f)
  <2>1. IsFiniteSet(Live(e)) /\ Cardinality(Live(e)) \in Nat /\ Cardinality(Live(e)) <= MaxConcurrent
    BY FS_CardinalityType DEF Sound, Capped
  <2>2. CASE c \in Live(e)
    <3>1. Live(f) = Live(e)
      BY <1>6, <2>2
    <3> QED
      BY <2>1, <3>1 DEF Capped
  <2>3. CASE ~Full(e)
    <3>1. Cardinality(Live(e)) + 1 <= MaxConcurrent
      BY <1>2, <2>1, <2>3 DEF Full, Sound, Typed
    <3>2. /\ IsFiniteSet(Live(e) \cup {c}) /\ Cardinality(Live(e) \cup {c}) \in Nat
          /\ Cardinality(Live(e) \cup {c}) <= Cardinality(Live(e)) + 1
      BY <2>1, AddOne
    <3>3. Cardinality(Live(e) \cup {c}) <= MaxConcurrent
      BY <2>1, <3>1, <3>2, PeerAssumption
    <3> QED
      BY <1>6, <3>2, <3>3 DEF Capped
  <2> QED
    BY <2>2, <2>3
<1> QED
  BY <1>7, <1>8, <1>9 DEF Sound, InStep

\* A stream is gone and the application knows it.
LEMMA Gone ==
  ASSUME NEW e, NEW k, Sound(e, k), NEW c \in Cids, NEW v \in Knowledge, ~v.live,
         NEW n \in Nat, e.send_counter <= n, n <= MaxCalls, NEW g, NEW f,
         g \in Maps(DIDs \X {0}, UsedWindows), f = With(e, Remove(e.sessions, c), n, g)
  PROVE  Sound(f, [k EXCEPT ![c] = v])
<1> DEFINE t == Remove(e.sessions, c)
<1>1. e \in Endpoints(DIDs, Cids) /\ k \in [Cids -> Knowledge]
  BY DEF Sound, Typed
<1>2. e.sessions \in Maps(Cids, Sessions) /\ e.send_counter \in Nat /\ e.max_concurrent \in Nat
  BY <1>1, EndpointType
<1>3. /\ t \in Maps(Cids, Sessions) /\ DOMAIN t = Live(e) \ {c}
      /\ \A d \in Live(e) \ {c} : t[d] = e.sessions[d]
  <2>1. t \in Maps(Cids, Sessions)
    BY <1>2, RemoveMap
  <2>2. /\ DOMAIN t = DOMAIN e.sessions \ {c}
        /\ \A d \in DOMAIN e.sessions \ {c} : t[d] = e.sessions[d]
    BY DEF Remove, Restrict
  <2> QED
    BY <2>1, <2>2 DEF Live
<1>4. f \in Endpoints(DIDs, Cids)
  BY <1>1, <1>3, WithType
<1>5. /\ f.sessions = t /\ f.send_counter = n /\ f.peer_did = e.peer_did
      /\ f.max_concurrent = e.max_concurrent
  BY <1>1, WithFields
<1>6. Live(f) = Live(e) \ {c}
  BY <1>3, <1>5 DEF Live
<1>7. Typed(f, [k EXCEPT ![c] = v])
  BY <1>1, <1>4, <1>5, ToldOne DEF Sound, Typed
<1>8. ASSUME NEW d \in Cids
      PROVE  IF d \in Live(f) THEN Matches(f.sessions[d], [k EXCEPT ![c] = v][d], f.send_counter)
                              ELSE ~[k EXCEPT ![c] = v][d].live
  <2>1. CASE d = c
    BY <1>1, <1>6, <2>1, ToldOne
  <2>2. CASE d # c
    <3>1. [k EXCEPT ![c] = v][d] = k[d]
      BY <1>1, <2>2, ToldOne
    <3>2. CASE d \in Live(e)
      <4>1. e.sessions[d] \in Sessions
        BY <1>2, <3>2, MapType DEF Live
      <4>2. Matches(e.sessions[d], k[d], e.send_counter)
        BY <3>2 DEF Sound, InStep
      <4>3. Matches(e.sessions[d], k[d], n)
        BY <1>2, <4>1, <4>2, MatchesLater
      <4> QED
        BY <1>3, <1>5, <1>6, <2>2, <3>1, <3>2, <4>3
    <3>3. CASE d \notin Live(e)
      BY <1>6, <2>2, <3>1, <3>3 DEF Sound, InStep
    <3> QED
      BY <3>2, <3>3
  <2> QED
    BY <2>1, <2>2
<1>9. Capped(f)
  <2>1. IsFiniteSet(Live(e)) /\ Cardinality(Live(e)) <= MaxConcurrent
    BY DEF Sound, Capped
  <2>2. /\ IsFiniteSet(Live(f)) /\ Cardinality(Live(f)) \in Nat
        /\ Cardinality(Live(f)) <= Cardinality(Live(e)) /\ Cardinality(Live(e)) \in Nat
    <3>1. Live(f) \subseteq Live(e)
      BY <1>6
    <3>2. IsFiniteSet(Live(f)) /\ Cardinality(Live(f)) <= Cardinality(Live(e))
      BY <2>1, <3>1, FS_Subset
    <3> QED
      BY <2>1, <3>2, FS_CardinalityType
  <2>3. Cardinality(Live(f)) <= MaxConcurrent
    BY <2>1, <2>2, PeerAssumption
  <2> QED
    BY <2>2, <2>3 DEF Capped
<1> QED
  BY <1>7, <1>8, <1>9 DEF Sound, InStep

\* No stream is touched, whatever happens to the counter and the guard.
LEMMA Untouched ==
  ASSUME NEW e, NEW k, Sound(e, k), NEW n \in Nat, e.send_counter <= n, n <= MaxCalls,
         NEW g \in Maps(DIDs \X {0}, UsedWindows), NEW f, f = With(e, e.sessions, n, g)
  PROVE  Sound(f, k)
<1>1. e \in Endpoints(DIDs, Cids) /\ k \in [Cids -> Knowledge]
  BY DEF Sound, Typed
<1>2. e.sessions \in Maps(Cids, Sessions) /\ e.send_counter \in Nat
  BY <1>1, EndpointType
<1>3. f \in Endpoints(DIDs, Cids)
  BY <1>1, <1>2, WithType
<1>4. /\ f.sessions = e.sessions /\ f.send_counter = n /\ f.peer_did = e.peer_did
      /\ f.max_concurrent = e.max_concurrent
  BY <1>1, WithFields
<1>5. Live(f) = Live(e)
  BY <1>4 DEF Live
<1>6. ASSUME NEW d \in Cids, d \in Live(e) PROVE Matches(e.sessions[d], k[d], n)
  <2>1. e.sessions[d] \in Sessions
    BY <1>2, <1>6, MapType DEF Live
  <2>2. Matches(e.sessions[d], k[d], e.send_counter)
    BY <1>6 DEF Sound, InStep
  <2> QED
    BY <1>2, <2>1, <2>2, MatchesLater
<1> QED
  BY <1>3, <1>4, <1>5, <1>6 DEF Sound, Typed, InStep, Capped
-----------------------------------------------------------------------------
(***************************************************************************)
(* The calls of the application.                                           *)
(***************************************************************************)

\* What a call leaves alone.
Quiet == ep'.guard = ep.guard /\ seen' = seen

\* Unknown is knowledge, of no live stream.
LEMMA UnknownType == Unknown \in Knowledge /\ ~Unknown.live
  BY DEF Unknown, Knowledge

\* What is known of a stream the peer has just opened.
LEMMA OpenedKnowledge ==
  ASSUME NEW v, v = [Unknown EXCEPT !.live = TRUE]
  PROVE  /\ v \in Knowledge /\ v.live /\ ~v.ready /\ ~v.closed /\ ~v.peer_closed
         /\ v.granted = 0 /\ v.chunks = 0
  BY DEF Unknown, Knowledge

\* The types a call finds.
LEMMA InvTypes ==
  ASSUME Inv
  PROVE  /\ ep \in Endpoints(DIDs, Cids) /\ told \in [Cids -> Knowledge]
         /\ ep.sessions \in Maps(Cids, Sessions) /\ ep.send_counter \in Nat
         /\ ep.guard \in Maps(DIDs \X {0}, UsedWindows)
         /\ \A c \in Cids : told[c] \in Knowledge
         /\ \A c \in Live(ep) : /\ c \in Cids /\ ep.sessions[c] \in Sessions
                                /\ Matches(ep.sessions[c], told[c], ep.send_counter)
<1>1. ep \in Endpoints(DIDs, Cids) /\ told \in [Cids -> Knowledge]
  BY DEF Inv, Sound, Typed
<1>2. /\ ep.sessions \in Maps(Cids, Sessions) /\ ep.send_counter \in Nat
      /\ ep.guard \in Maps(DIDs \X {0}, UsedWindows)
  BY <1>1, EndpointType
<1>3. Live(ep) \subseteq Cids /\ \A c \in Live(ep) : ep.sessions[c] \in Sessions
  BY <1>2, MapType DEF Live
<1>4. \A c \in Live(ep) : Matches(ep.sessions[c], told[c], ep.send_counter)
  BY <1>3 DEF Inv, Sound, InStep
<1> QED
  BY <1>1, <1>2, <1>3, <1>4

\* One frame is sealed by every call, within the bound on calls.
LEMMA OneMore ==
  ASSUME Inv, ep.send_counter < MaxCalls
  PROVE  /\ ep.send_counter + 1 \in Nat
         /\ ep.send_counter <= ep.send_counter + 1
         /\ ep.send_counter + 1 <= MaxCalls /\ ep.send_counter + 1 <= U64_MAX
<1>1. ep.send_counter \in Nat
  BY InvTypes
<1>2. MaxCalls \in U64
  BY PeerAssumption
<1> QED
  BY <1>1, <1>2, MachineAssumption DEF U64

\* A call that stores a session and seals a frame.
LEMMA CallStores ==
  ASSUME Inv, NEW r, NEW c \in Cids, NEW s \in Sessions, NEW v \in Knowledge, Call(r, c, v),
         r.ep = With(ep, Insert(ep.sessions, c, s), ep.send_counter + 1, ep.guard),
         Matches(s, v, ep.send_counter + 1), c \in Live(ep) \/ ~Full(ep)
  PROVE  Inv' /\ Quiet
<1>1. ep' = r.ep /\ told' = [told EXCEPT ![c] = v] /\ seen' = seen
  BY DEF Call
<1>2. /\ ep.send_counter + 1 \in Nat /\ ep.send_counter <= ep.send_counter + 1
      /\ ep.send_counter + 1 <= MaxCalls
  BY OneMore DEF Call
<1>3. Sound(r.ep, [told EXCEPT ![c] = v])
  BY <1>2, InvTypes, Stored DEF Inv
<1>4. r.ep.guard = ep.guard
  BY InvTypes, WithFields
<1> QED
  BY <1>1, <1>3, <1>4 DEF Inv, Quiet

\* A call that drops a session and seals a frame.
LEMMA CallDrops ==
  ASSUME Inv, NEW r, NEW c \in Cids, Call(r, c, Unknown),
         r.ep = With(ep, Remove(ep.sessions, c), ep.send_counter + 1, ep.guard)
  PROVE  Inv' /\ Quiet
<1>1. ep' = r.ep /\ told' = [told EXCEPT ![c] = Unknown] /\ seen' = seen
  BY DEF Call
<1>2. /\ ep.send_counter + 1 \in Nat /\ ep.send_counter <= ep.send_counter + 1
      /\ ep.send_counter + 1 <= MaxCalls
  BY OneMore DEF Call
<1>3. Sound(r.ep, [told EXCEPT ![c] = Unknown])
  BY <1>2, InvTypes, UnknownType, Gone DEF Inv
<1>4. r.ep.guard = ep.guard
  BY InvTypes, WithFields
<1> QED
  BY <1>1, <1>3, <1>4 DEF Inv, Quiet

\* open enters a new stream below the cap.
LEMMA OpenKeeps ==
  ASSUME Inv, NEW c \in Cids, NEW w \in Grants, Open(c, w)
  PROVE  Inv' /\ Quiet
<1> DEFINE r == open(ep, c, w, Now, 0, TRUE)
           v == [Unknown EXCEPT !.live = TRUE, !.granted = w]
<1>a. ep \in Endpoints(DIDs, Cids)
  BY InvTypes
<1>1. w \in U64 /\ w \in Nat /\ 0 \in U64
  BY PeerAssumption, MachineAssumption DEF U32, U64
<1>2. initiator(w) \in Sessions
  BY <1>1 DEF initiator, NewSession, Sessions
<1>3. v \in Knowledge
  BY <1>1 DEF Unknown, Knowledge
<1>4. Matches(initiator(w), v, ep.send_counter + 1)
  <2>1. ep.send_counter + 1 \in Nat
    BY OneMore DEF Open, Call
  <2> QED
    BY <1>1, <2>1 DEF Matches, initiator, NewSession, Unknown, Established
<1>5. r.ep = With(ep, Insert(ep.sessions, c, initiator(w)), ep.send_counter + 1, ep.guard)
  BY <1>a DEF open, seal_frame, WithSession, With, Endpoints
<1>6. Call(r, c, v) /\ ~Full(ep)
  BY DEF Open, CanOpen
<1> QED
  BY <1>2, <1>3, <1>4, <1>5, <1>6, CallStores

\* open_ack establishes a stream the peer opened, once.
LEMMA OpenAckKeeps ==
  ASSUME Inv, NEW c \in Cids, NEW w \in Grants, OpenAck(c, w)
  PROVE  Inv' /\ Quiet
<1> DEFINE r == open_ack(ep, c, w, Now, 0, TRUE)
           s == ep.sessions[c]
           v == [told[c] EXCEPT !.ready = TRUE, !.granted = w]
<1>a. ep \in Endpoints(DIDs, Cids)
  BY InvTypes
<1>1. w \in U64 /\ w \in Nat
  BY PeerAssumption, MachineAssumption DEF U32, U64
<1>2. /\ c \in Live(ep) /\ CanOpenAck(s) /\ s \in Sessions /\ told[c] \in Knowledge
      /\ Matches(s, told[c], ep.send_counter) /\ ep.send_counter \in Nat
  BY InvTypes DEF OpenAck
<1>3. build_open_ack(s, w) \in Sessions
  BY <1>1, <1>2 DEF build_open_ack, Sessions
<1>4. v \in Knowledge
  BY <1>1, <1>2 DEF Knowledge
<1>5. Matches(build_open_ack(s, w), v, ep.send_counter + 1)
  BY <1>1, <1>2 DEF Matches, CanOpenAck, build_open_ack, Established, Sessions, Knowledge, U64
<1>6. r.ep = With(ep, Insert(ep.sessions, c, build_open_ack(s, w)), ep.send_counter + 1, ep.guard)
  BY <1>a DEF open_ack, seal_frame, WithSession, With, Endpoints
<1>7. Call(r, c, v)
  BY DEF OpenAck
<1> QED
  BY <1>2, <1>3, <1>4, <1>5, <1>6, <1>7, CallStores

\* send_data spends a credit and a sequence number.
LEMMA SendDataKeeps ==
  ASSUME Inv, NEW c \in Cids, SendData(c)
  PROVE  Inv' /\ Quiet
<1> DEFINE r == send_data(ep, c, 1, Now, 0, TRUE)
           s == ep.sessions[c]
<1>a. ep \in Endpoints(DIDs, Cids)
  BY InvTypes
<1>1. /\ c \in Live(ep) /\ CanSendData(s) /\ s \in Sessions /\ told[c] \in Knowledge
      /\ Matches(s, told[c], ep.send_counter) /\ ep.send_counter \in Nat
  BY InvTypes DEF SendData
<1>2. ep.send_counter + 1 <= U64_MAX
  BY OneMore DEF SendData, Call
<1>3. s.send_credit - 1 \in U64 /\ s.send_seq + 1 \in U64
  BY <1>1, <1>2, MachineAssumption DEF CanSendData, Matches, Sessions, U64
<1>4. build_data(s) \in Sessions
  BY <1>1, <1>3 DEF build_data, Sessions
<1>5. Matches(build_data(s), told[c], ep.send_counter + 1)
  BY <1>1 DEF Matches, build_data, Established, Sessions, U64
<1>6. r.ep = With(ep, Insert(ep.sessions, c, build_data(s)), ep.send_counter + 1, ep.guard)
  BY <1>a DEF send_data, seal_frame, WithSession, With, Endpoints
<1>7. Call(r, c, told[c])
  BY DEF SendData
<1> QED
  BY <1>1, <1>4, <1>5, <1>6, <1>7, CallStores

\* grant_credit never permits more than was granted, even where it saturates.
LEMMA GrantCreditKeeps ==
  ASSUME Inv, NEW c \in Cids, NEW n \in Grants, GrantCredit(c, n)
  PROVE  Inv' /\ Quiet
<1> DEFINE r == grant_credit(ep, c, n, Now, 0, TRUE)
           s == ep.sessions[c]
           v == [told[c] EXCEPT !.granted = @ + n]
<1>a. ep \in Endpoints(DIDs, Cids)
  BY InvTypes
<1>1. n \in Nat
  BY PeerAssumption, MachineAssumption DEF U32, U64
<1>2. /\ c \in Live(ep) /\ s \in Sessions /\ told[c] \in Knowledge
      /\ Matches(s, told[c], ep.send_counter) /\ ep.send_counter \in Nat
  BY InvTypes DEF GrantCredit
<1>3. /\ saturating_add(s.recv_window_remaining, n) \in U64
      /\ saturating_add(s.recv_window_remaining, n) <= s.recv_window_remaining + n
  BY <1>1, <1>2, MachineAssumption DEF saturating_add, Sessions, U64
<1>4. build_credit(s, n) \in Sessions
  BY <1>2, <1>3 DEF build_credit, Sessions
<1>5. v \in Knowledge
  BY <1>1, <1>2 DEF Knowledge
<1>6. Matches(build_credit(s, n), v, ep.send_counter + 1)
  <2> DEFINE m == saturating_add(s.recv_window_remaining, n)
  <2> HIDE DEF m
  <2>1. build_credit(s, n) = [s EXCEPT !.recv_window_remaining = m]
    BY DEF build_credit, m
  <2>2. m \in U64 /\ m <= s.recv_window_remaining + n
    BY <1>3 DEF m
  <2> QED
    BY <1>1, <1>2, <2>1, <2>2 DEF Matches, Established, Sessions, Knowledge, U64
<1>7. r.ep = With(ep, Insert(ep.sessions, c, build_credit(s, n)), ep.send_counter + 1, ep.guard)
  BY <1>a DEF grant_credit, seal_frame, WithSession, With, Endpoints
<1>8. Call(r, c, v)
  BY DEF GrantCredit
<1> QED
  BY <1>2, <1>4, <1>5, <1>6, <1>7, <1>8, CallStores

\* close keeps the stream half closed, or drops it where the peer closed before.
LEMMA CloseKeeps ==
  ASSUME Inv, NEW c \in Cids, Close(c)
  PROVE  Inv' /\ Quiet
<1> DEFINE r == close(ep, c, Now, 0, TRUE)
           s == build_close(ep.sessions[c])
           v == [told[c] EXCEPT !.closed = TRUE]
<1>a. ep \in Endpoints(DIDs, Cids)
  BY InvTypes
<1>1. /\ c \in Live(ep) /\ ep.sessions[c] \in Sessions /\ told[c] \in Knowledge
      /\ Matches(ep.sessions[c], told[c], ep.send_counter) /\ ep.send_counter \in Nat
  BY InvTypes DEF Close
<1>2. s \in Sessions
  BY <1>1 DEF build_close, Sessions
<1>3. r.ep = With(ep, Settled(ep.sessions, c, s), ep.send_counter + 1, ep.guard)
  <2>1. Seals(ep, c, header(CLOSE, 0, 0), Now, 0, TRUE, Settled(ep.sessions, c, s),
              Insert(ep.sessions, c, s), r)
    BY <1>a, <1>2, CloseShape
  <2> QED
    BY <2>1 DEF Seals
<1>4. is_closed(s) <=> told[c].peer_closed
  BY <1>1 DEF is_closed, build_close, Matches, Sessions
<1>5. CASE told[c].peer_closed
  <2>1. Call(r, c, Unknown)
    BY <1>5 DEF Close
  <2>2. r.ep = With(ep, Remove(ep.sessions, c), ep.send_counter + 1, ep.guard)
    BY <1>3, <1>4, <1>5 DEF Settled
  <2> QED
    BY <2>1, <2>2, CallDrops
<1>6. CASE ~told[c].peer_closed
  <2>1. Call(r, c, v)
    BY <1>6 DEF Close
  <2>2. r.ep = With(ep, Insert(ep.sessions, c, s), ep.send_counter + 1, ep.guard)
    BY <1>3, <1>4, <1>6 DEF Settled
  <2>3. v \in Knowledge
    BY <1>1 DEF Knowledge
  <2>4. Matches(s, v, ep.send_counter + 1)
    BY <1>1, <1>6 DEF Matches, build_close, Established, Sessions, Knowledge, U64
  <2> QED
    BY <1>1, <1>2, <2>1, <2>2, <2>3, <2>4, CallStores
<1> QED
  BY <1>5, <1>6

\* reset drops the stream.
LEMMA CancelKeeps ==
  ASSUME Inv, NEW c \in Cids, Cancel(c)
  PROVE  Inv' /\ Quiet
<1> DEFINE r == reset(ep, c, Now, 0, TRUE)
<1>a. ep \in Endpoints(DIDs, Cids)
  BY InvTypes
<1>1. r.ep = With(ep, Remove(ep.sessions, c), ep.send_counter + 1, ep.guard)
  <2>1. Seals(ep, c, header(RESET, 0, 0), Now, 0, TRUE, Remove(ep.sessions, c),
              Insert(ep.sessions, c, build_reset(ep.sessions[c])), r)
    BY <1>a, ResetShape
  <2> QED
    BY <2>1 DEF Seals
<1>2. Call(r, c, Unknown)
  BY DEF Cancel
<1> QED
  BY <1>1, <1>2, CallDrops
-----------------------------------------------------------------------------
(***************************************************************************)
(* accept: what the sessions and the application get to know of a frame.   *)
(***************************************************************************)

\* The causes of a drop before the frame is looked at.
Verdicts == {"Unauthentic", "TtlTooLong", "Expired", "Replay", "Decompression"}

\* Nothing is learnt from a frame that is dropped, refused for the cap, or
\* about the sending direction.
LEMMA LearnsNothing ==
  ASSUME NEW known, NEW env, NEW r,
         r.why \in Verdicts \cup Refusals \cup {"StreamLimit", "CreditGranted", "CloseAcked"}
  PROVE  Learns(known, env, r) = known
  BY DEF Learns, Verdicts, Refusals

\* The stream is known to be gone after these.
LEMMA LearnsGone ==
  ASSUME NEW known, NEW env, NEW r, r.why \in {"PeerReset", "DuplicateOpen", "StreamProtocol"}
  PROVE  Learns(known, env, r) = Unknown
  BY DEF Learns

\* What the other events say.
LEMMA LearnsEvent ==
  ASSUME NEW known, NEW env, NEW r
  PROVE  /\ r.why = "Opened" => Learns(known, env, r) = [Unknown EXCEPT !.live = TRUE]
         /\ r.why = "Established" => Learns(known, env, r) = [known EXCEPT !.ready = TRUE]
         /\ r.why = "Data" => Learns(known, env, r) = [known EXCEPT !.chunks = @ + 1]
         /\ r.why = "RemoteClosed" =>
              Learns(known, env, r) = IF known.closed THEN Unknown
                                      ELSE [known EXCEPT !.peer_closed = TRUE]
  BY DEF Learns

\* The application after an outcome r for stream c.
Informed(k, env, r) == [k EXCEPT ![env.correlation_id] = Learns(@, env, r)]

\* A drop changes no stream and tells the application nothing.
LEMMA DropSound ==
  ASSUME NEW f, NEW k, Sound(f, k), NEW env \in Presentable, NEW r, r.ep = f,
         r.why \in Verdicts \cup Refusals
  PROVE  Sound(r.ep, Informed(k, env, r))
<1>1. Learns(k[env.correlation_id], env, r) = k[env.correlation_id]
  BY LearnsNothing
<1>2. k \in [Cids -> Knowledge] /\ env.correlation_id \in Cids
  BY PresentedSane DEF Sound, Typed
<1>3. Informed(k, env, r) = k
  BY <1>1, <1>2 DEF Informed
<1> QED
  BY <1>3

\* A stream is taken away, by a RESET received or sent.
LEMMA GoneSound ==
  ASSUME NEW f, NEW k, Sound(f, k), NEW env \in Presentable, NEW r, NEW n \in Nat,
         f.send_counter <= n, n <= MaxCalls,
         r.ep = With(f, Remove(f.sessions, env.correlation_id), n, f.guard),
         r.why \in {"PeerReset", "DuplicateOpen", "StreamProtocol"}
  PROVE  Sound(r.ep, Informed(k, env, r))
<1>1. Learns(k[env.correlation_id], env, r) = Unknown
  BY LearnsGone
<1>2. env.correlation_id \in Cids
  BY PresentedSane
<1>3. f.guard \in Maps(DIDs \X {0}, UsedWindows)
  BY EndpointType DEF Sound, Typed
<1>4. Sound(r.ep, [k EXCEPT ![env.correlation_id] = Unknown])
  BY <1>2, <1>3, UnknownType, Gone
<1> QED
  BY <1>1, <1>4 DEF Informed

\* A stream goes on in session s, which matches what the application now knows.
LEMMA GoesOnSound ==
  ASSUME NEW f, NEW k, Sound(f, k), NEW env \in Presentable, NEW r, NEW s \in Sessions,
         r.ep = With(f, Insert(f.sessions, env.correlation_id, s), f.send_counter, f.guard),
         env.correlation_id \in Live(f) \/ ~Full(f),
         Learns(k[env.correlation_id], env, r) \in Knowledge,
         Matches(s, Learns(k[env.correlation_id], env, r), f.send_counter)
  PROVE  Sound(r.ep, Informed(k, env, r))
<1> DEFINE v == Learns(k[env.correlation_id], env, r)
<1> HIDE DEF v
<1>1. env.correlation_id \in Cids /\ v \in Knowledge /\ Matches(s, v, f.send_counter)
  BY PresentedSane DEF v
<1>2. f.guard \in Maps(DIDs \X {0}, UsedWindows) /\ f.send_counter \in Nat
  BY EndpointType DEF Sound, Typed
<1>3. f.send_counter <= f.send_counter /\ f.send_counter <= MaxCalls
  BY <1>2 DEF Sound, Typed
<1>4. Sound(r.ep, [k EXCEPT ![env.correlation_id] = v])
  BY <1>1, <1>2, <1>3, Stored
<1> QED
  BY <1>4 DEF Informed, v

\* A legal frame for a live stream: the session it leaves and what the
\* application learns agree again.
LEMMA LegalSound ==
  ASSUME NEW f, NEW k, Sound(f, k), NEW env \in Presentable, NEW r,
         env.correlation_id \in Live(f), env.stream.frame \in KnownFrames \ {OPEN, RESET},
         env.stream # NoStream, Legal(f.sessions[env.correlation_id], env.stream),
         Reports(f, r, to_event(env.stream.frame),
                 Settled(f.sessions, env.correlation_id,
                         on_recv(f.sessions[env.correlation_id], env.stream)))
  PROVE  Sound(r.ep, Informed(k, env, r))
<1> DEFINE c == env.correlation_id
           hdr == env.stream
           s == f.sessions[c]
           known == k[c]
           n == f.send_counter
           t == on_recv(s, hdr)
<1>1. c \in Cids /\ SaneHeader(hdr)
  BY PresentedSane
<1>2. f \in Endpoints(DIDs, Cids) /\ known \in Knowledge
  BY <1>1 DEF Sound, Typed
<1>3. f.sessions \in Maps(Cids, Sessions) /\ n \in Nat
  BY <1>2, EndpointType
<1>4. s \in Sessions /\ Matches(s, known, n)
  <2>1. s \in Sessions
    BY <1>3, MapType DEF Live
  <2> QED
    BY <1>1, <2>1 DEF Sound, InStep
<1>5. t \in Sessions
  BY <1>1, <1>4, RecvType DEF SaneHeader
<1>6. r.ep = With(f, Settled(f.sessions, c, t), n, f.guard) /\ r.why = to_event(hdr.frame)
  BY DEF Reports
<1>7. ASSUME ~is_closed(t), Learns(known, env, r) \in Knowledge,
             Matches(t, Learns(known, env, r), n)
      PROVE  Sound(r.ep, Informed(k, env, r))
  <2>1. r.ep = With(f, Insert(f.sessions, c, t), n, f.guard)
    BY <1>6, <1>7 DEF Settled
  <2> QED
    BY <1>5, <1>7, <2>1, GoesOnSound
<1>8. hdr.frame \in {OPEN_ACK, DATA, CREDIT, CLOSE, CLOSE_ACK}
  BY DEF KnownFrames, OPEN, OPEN_ACK, DATA, CREDIT, CLOSE, CLOSE_ACK, RESET
<1> HIDE DEF t, s, known, n, hdr
<1> USE DEF OPEN, OPEN_ACK, DATA, CREDIT, CLOSE, CLOSE_ACK, RESET
<1>h. hdr = env.stream /\ t = on_recv(s, hdr) /\ Legal(s, hdr)
  BY DEF t, s, hdr
<1>9. CASE hdr.frame = OPEN_ACK
  <2>1. r.why = "Established" /\ t = [s EXCEPT !.handshake = "Established", !.send_credit = hdr.window]
    BY <1>6, <1>9, <1>h DEF to_event, on_recv
  <2>2. Learns(known, env, r) = [known EXCEPT !.ready = TRUE]
    BY <2>1, LearnsEvent
  <2>3. Learns(known, env, r) \in Knowledge
    BY <1>2, <2>2 DEF Knowledge, known
  <2>4. Matches(t, [known EXCEPT !.ready = TRUE], n) /\ ~is_closed(t)
    BY <1>2, <1>4, <2>1 DEF Matches, Established, Sessions, Knowledge, is_closed, known, s
  <2> QED
    BY <1>7, <2>2, <2>3, <2>4
<1>10. CASE hdr.frame = DATA
  <2>1. r.why = "Data" /\ t = [s EXCEPT !.recv_window_remaining = s.recv_window_remaining - 1,
                                        !.recv_seq = s.recv_seq + 1]
    BY <1>6, <1>10, <1>h DEF to_event, on_recv
  <2>2. Learns(known, env, r) = [known EXCEPT !.chunks = known.chunks + 1]
    BY <2>1, LearnsEvent
  <2>3. Learns(known, env, r) \in Knowledge
    BY <1>2, <2>2 DEF Knowledge, known
  <2>4. Established(s)
    BY <1>10, <1>h DEF Legal
  <2>5. Matches(t, [known EXCEPT !.chunks = known.chunks + 1], n) /\ ~is_closed(t)
    BY <1>2, <1>4, <2>1, <2>4
       DEF Matches, Established, Sessions, Knowledge, is_closed, U64, known, s
  <2> QED
    BY <1>7, <2>2, <2>3, <2>5
<1>11. CASE hdr.frame = CREDIT
  <2>1. r.why = "CreditGranted"
        /\ t = [s EXCEPT !.send_credit = saturating_add(s.send_credit, hdr.window)]
    BY <1>6, <1>11, <1>h DEF to_event, on_recv
  <2>2. Learns(known, env, r) = known
    BY <2>1, LearnsNothing
  <2>3. Matches(t, known, n) /\ ~is_closed(t)
    BY <1>2, <1>4, <2>1 DEF Matches, Established, Sessions, Knowledge, is_closed, known, s
  <2> QED
    BY <1>2, <1>7, <2>2, <2>3 DEF known
<1>12. CASE hdr.frame = CLOSE
  <2>1. r.why = "RemoteClosed" /\ t = [s EXCEPT !.remote_closed = TRUE]
    BY <1>6, <1>12, <1>h DEF to_event, on_recv
  <2>2. Learns(known, env, r) = IF known.closed THEN Unknown
                                ELSE [known EXCEPT !.peer_closed = TRUE]
    BY <2>1, LearnsEvent
  <2>3. is_closed(t) <=> known.closed
    BY <1>4, <2>1 DEF Matches, Sessions, is_closed, s
  <2>4. CASE known.closed
    <3>1. Learns(known, env, r) = Unknown
      BY <2>2, <2>4
    <3>2. r.ep = With(f, Remove(f.sessions, c), n, f.guard)
      BY <1>6, <2>3, <2>4 DEF Settled, t, s, hdr
    <3>3. f.guard \in Maps(DIDs \X {0}, UsedWindows)
      BY <1>2, EndpointType
    <3>4. n <= n /\ n <= MaxCalls /\ n = f.send_counter
      BY <1>3 DEF Sound, Typed, n
    <3>5. Sound(r.ep, [k EXCEPT ![c] = Unknown])
      BY <1>1, <1>3, <3>2, <3>3, <3>4, UnknownType, Gone
    <3> QED
      BY <3>1, <3>5 DEF Informed, known
  <2>5. CASE ~known.closed
    <3>1. Learns(known, env, r) = [known EXCEPT !.peer_closed = TRUE]
      BY <2>2, <2>5
    <3>2. Learns(known, env, r) \in Knowledge
      BY <1>2, <3>1 DEF Knowledge, known
    <3>3. Matches(t, [known EXCEPT !.peer_closed = TRUE], n)
      BY <1>2, <1>4, <2>1, <2>5 DEF Matches, Established, Sessions, Knowledge, known, s
    <3> QED
      BY <1>7, <2>3, <2>5, <3>1, <3>2, <3>3
  <2> QED
    BY <2>4, <2>5
<1>13. CASE hdr.frame = CLOSE_ACK
  <2>1. r.why = "CloseAcked" /\ t = s
    BY <1>6, <1>13, <1>h DEF to_event, on_recv
  <2>2. Learns(known, env, r) = known
    BY <2>1, LearnsNothing
  <2>3. ~is_closed(s)
    BY <1>4 DEF Matches, is_closed
  <2> QED
    BY <1>2, <1>4, <1>7, <2>1, <2>2, <2>3 DEF known
<1> QED
  BY <1>8, <1>9, <1>10, <1>11, <1>12, <1>13 DEF hdr

\* A verified frame for an endpoint whose guard has been advanced.
LEMMA ReactionSound ==
  ASSUME NEW f, NEW k, Sound(f, k), NEW env \in Presentable, NEW r, FromPeer(f, env),
         \/ OnReset(f, env, r) \/ OnOpen(f, env, Now, TRUE, r)
         \/ OnOther(f, env, Now, TRUE, r),
         f.send_counter < MaxCalls \/ r.kind # "Reset"
  PROVE  Sound(r.ep, Informed(k, env, r)) /\ r.ep.guard = f.guard
<1> DEFINE c == env.correlation_id
           n == f.send_counter
<1>1. f \in Endpoints(DIDs, Cids) /\ n <= MaxCalls
  BY DEF Sound, Typed
<1>2. n \in Nat /\ f.sessions \in Maps(Cids, Sessions) /\ f.guard \in Maps(DIDs \X {0}, UsedWindows)
  BY <1>1, EndpointType
<1>3. c \in Cids /\ SaneHeader(env.stream)
  BY PresentedSane DEF FromPeer
<1>4. r.kind = "Reset" => n + 1 \in Nat /\ n <= n + 1 /\ n + 1 <= MaxCalls
  BY <1>2, PeerAssumption DEF U64
<1>5. CASE OnReset(f, env, r)
  <2>1. r.why = "PeerReset" /\ r.ep = With(f, Remove(f.sessions, c), n, f.guard)
    BY <1>5 DEF OnReset, Reports
  <2>2. n <= n
    BY <1>2
  <2>3. Sound(r.ep, Informed(k, env, r))
    BY <1>1, <1>2, <2>1, <2>2, GoneSound
  <2> QED
    BY <1>1, <2>1, <2>3, WithFields
<1>6. CASE OnOpen(f, env, Now, TRUE, r)
  <2>1. CASE Rejects(f, env, Now, TRUE, r, "DuplicateOpen", Remove(f.sessions, c))
    <3>1. /\ r.why = "DuplicateOpen" /\ r.kind = "Reset"
          /\ r.ep = With(f, Remove(f.sessions, c), n + 1, f.guard)
      BY <2>1 DEF Rejects
    <3>2. Sound(r.ep, Informed(k, env, r))
      BY <1>4, <3>1, GoneSound
    <3> QED
      BY <1>1, <3>1, <3>2, WithFields
  <2>2. CASE Rejects(f, env, Now, TRUE, r, "StreamLimit", f.sessions)
    <3>1. /\ r.why = "StreamLimit" /\ r.kind = "Reset"
          /\ r.ep = With(f, f.sessions, n + 1, f.guard)
      BY <2>2 DEF Rejects
    <3>2. Sound(r.ep, k)
      BY <1>2, <1>4, <3>1, Untouched
    <3>3. Learns(k[c], env, r) = k[c]
      BY <3>1, LearnsNothing
    <3>4. Informed(k, env, r) = k
      BY <1>3, <3>3 DEF Informed, Sound, Typed
    <3> QED
      BY <1>1, <3>1, <3>2, <3>4, WithFields
  <2>3. CASE /\ c \notin Live(f) /\ ~Full(f)
             /\ Reports(f, r, "Opened", Insert(f.sessions, c, responder(env.stream.window)))
    <3> DEFINE s == responder(env.stream.window)
               v == [Unknown EXCEPT !.live = TRUE]
    <3>1. r.why = "Opened" /\ r.ep = With(f, Insert(f.sessions, c, s), n, f.guard)
      BY <2>3 DEF Reports
    <3>2. env.stream.window \in U64 /\ 0 \in U64
      BY <1>3, MachineAssumption DEF SaneHeader, U32, U64
    <3>3. s \in Sessions
      BY <3>2 DEF responder, NewSession, Sessions
    <3>4. Learns(k[c], env, r) = v
      BY <3>1 DEF Learns
    <3>5. v \in Knowledge /\ Matches(s, v, n)
      <4>1. /\ v \in Knowledge /\ v.live /\ ~v.ready /\ ~v.closed /\ ~v.peer_closed
            /\ v.granted = 0 /\ v.chunks = 0
        BY OpenedKnowledge
      <4>2. s = [role |-> "Responder", handshake |-> "Opening", send_seq |-> 0, recv_seq |-> 0,
                 send_credit |-> env.stream.window, recv_window_remaining |-> 0,
                 local_closed |-> FALSE, remote_closed |-> FALSE, reset |-> FALSE]
        BY DEF responder, NewSession
      <4> HIDE DEF v, s
      <4> QED
        BY <1>2, <4>1, <4>2 DEF Knowledge, Matches, Established
    <3>6. Sound(r.ep, Informed(k, env, r))
      BY <2>3, <3>1, <3>3, <3>4, <3>5, GoesOnSound
    <3> QED
      BY <1>1, <3>1, <3>6, WithFields
  <2> QED
    BY <1>6, <2>1, <2>2, <2>3 DEF OnOpen
<1>7. CASE OnOther(f, env, Now, TRUE, r)
  <2>1. CASE /\ Legal(f.sessions[c], env.stream)
             /\ Reports(f, r, to_event(env.stream.frame),
                        Settled(f.sessions, c, on_recv(f.sessions[c], env.stream)))
    <3>1. c \in Live(f) /\ env.stream.frame \in KnownFrames \ {OPEN, RESET} /\ env.stream # NoStream
      BY <1>7 DEF OnOther, FromPeer
    <3>2. Sound(r.ep, Informed(k, env, r))
      BY <2>1, <3>1, LegalSound
    <3>3. r.ep = With(f, Settled(f.sessions, c, on_recv(f.sessions[c], env.stream)), n, f.guard)
      BY <2>1 DEF Reports
    <3> QED
      BY <1>1, <3>2, <3>3, WithFields
  <2>2. CASE Rejects(f, env, Now, TRUE, r, "StreamProtocol", Remove(f.sessions, c))
    <3>1. /\ r.why = "StreamProtocol" /\ r.kind = "Reset"
          /\ r.ep = With(f, Remove(f.sessions, c), n + 1, f.guard)
      BY <2>2 DEF Rejects
    <3>2. Sound(r.ep, Informed(k, env, r))
      BY <1>4, <3>1, GoneSound
    <3> QED
      BY <1>1, <3>1, <3>2, WithFields
  <2> QED
    BY <1>7, <2>1, <2>2 DEF OnOther
<1> QED
  BY <1>5, <1>6, <1>7

\* The outcome of accept, for what is presented here.
Outcomes(env, o, r) ==
  /\ o \in open_message(ep.guard, env, Now)
  /\ Advanced(ep, o) \in Endpoints(DIDs, Cids)
  /\ AcceptedAs(ep, env, Now, TRUE, o, r)

\* Every result of accept comes from a verdict of open_message.
LEMMA PresentedOutcome ==
  ASSUME Inv, NEW env \in Presentable, NEW r \in accept(ep, env, Now, TRUE)
  PROVE  \E o : Outcomes(env, o, r)
<1>1. ep \in Endpoints(DIDs, Cids)
  BY InvTypes
<1>2. /\ env.correlation_id \in Cids
      /\ FromPeer(ep, env) => SaneHeader(env.stream)
      /\ ReplayKey(env.sender, env.sender_epoch) \in DIDs \X {0}
      /\ env.counter \in U64 /\ env.timestamp_ms \in Nat /\ Now \in U64
  BY PresentedSane DEF FromPeer
<1> QED
  BY <1>1, <1>2, AcceptShape DEF Outcomes

\* Advancing the guard touches no stream.
LEMMA AdvancedSound ==
  ASSUME Inv, NEW env, NEW o, NEW r, Outcomes(env, o, r)
  PROVE  /\ Sound(Advanced(ep, o), told)
         /\ Advanced(ep, o).sessions = ep.sessions /\ Advanced(ep, o).guard = o.guard
         /\ Advanced(ep, o).send_counter = ep.send_counter
         /\ Advanced(ep, o).peer_did = Remote
<1>1. ep \in Endpoints(DIDs, Cids) /\ ep.send_counter \in Nat
  BY InvTypes
<1>2. /\ Advanced(ep, o).guard = o.guard /\ Advanced(ep, o).sessions = ep.sessions
      /\ Advanced(ep, o).send_counter = ep.send_counter
      /\ Advanced(ep, o).peer_did = ep.peer_did
  BY <1>1, WithFields DEF Advanced
<1>3. o.guard \in Maps(DIDs \X {0}, UsedWindows)
  BY <1>2, EndpointType DEF Outcomes
<1>4. ep.send_counter <= ep.send_counter /\ ep.send_counter <= MaxCalls
  BY <1>1 DEF Inv, Sound, Typed
<1>5. Sound(Advanced(ep, o), told)
  BY <1>1, <1>3, <1>4, Untouched DEF Inv, Advanced
<1> QED
  BY <1>2, <1>5 DEF Inv, Sound, Typed

\* The verdicts other than "Opened".
LEMMA VerdictKinds ==
  ASSUME NEW tab, NEW env, NEW o \in open_message(tab, env, Now), o.verdict # "Opened"
  PROVE  o.verdict \in Verdicts
<1>1. CASE RefusedAt(tab, env, Now, o)
  BY <1>1 DEF RefusedAt, Verdicts
<1>2. CASE \E E \in SUBSET DOMAIN tab : AdmittedAt(tab, env, Now, E, o)
  BY <1>2 DEF AdmittedAt, Verdicts
<1> QED
  BY <1>1, <1>2, OpenVerdict

\* What accept leaves: sessions in step with the application, and the guard as
\* open_message left it.
LEMMA AcceptKeeps ==
  ASSUME Inv, NEW env \in Presentable, Accept(env)
  PROVE  /\ Inv'
         /\ \E o \in open_message(ep.guard, env, Now) : ep'.guard = o.guard
         /\ seen' = IF ReachesGuard(env) THEN seen \cup {<<env.sender, env.counter>>} ELSE seen
<1>1. PICK r \in accept(ep, env, Now, TRUE) :
        /\ ep.send_counter < MaxCalls \/ r.kind # "Reset"
        /\ ep' = r.ep /\ told' = Informed(told, env, r)
        /\ seen' = IF ReachesGuard(env) THEN seen \cup {<<env.sender, env.counter>>} ELSE seen
  BY DEF Accept, Informed
<1>2. PICK o : Outcomes(env, o, r)
  BY PresentedOutcome
<1> DEFINE f == Advanced(ep, o)
<1>3. /\ Sound(f, told) /\ f.guard = o.guard
      /\ f.send_counter < MaxCalls \/ r.kind # "Reset"
  BY <1>1, <1>2, AdvancedSound
<1>4. Sound(r.ep, Informed(told, env, r)) /\ r.ep.guard = f.guard
  <2>1. CASE o.verdict # "Opened" /\ r = Dropped(f, o.verdict)
    <3>1. r.ep = f /\ r.why = o.verdict
      BY <2>1 DEF Dropped, Outcome
    <3>2. r.why \in Verdicts
      BY <1>2, <2>1, <3>1, VerdictKinds DEF Outcomes
    <3> QED
      BY <1>3, <3>1, <3>2, DropSound
  <2>2. CASE Ignores(f, env, r)
    <3>1. r.ep = f /\ r.why \in Refusals
      BY <2>2 DEF Ignores
    <3> QED
      BY <1>3, <3>1, DropSound
  <2>3. CASE /\ FromPeer(f, env)
             /\ \/ OnReset(f, env, r) \/ OnOpen(f, env, Now, TRUE, r)
                \/ OnOther(f, env, Now, TRUE, r)
    BY <1>3, <2>3, ReactionSound
  <2> QED
    BY <1>2, <2>1, <2>2, <2>3 DEF Outcomes, AcceptedAs
<1>5. seen' \subseteq Senders \X Counters
  <2>1. env.sender \in Senders /\ env.counter \in Counters
    BY PresentedFields DEF Fields
  <2> QED
    BY <1>1, <2>1 DEF Inv
<1> QED
  BY <1>1, <1>2, <1>3, <1>4, <1>5 DEF Inv, Outcomes
-----------------------------------------------------------------------------
(***************************************************************************)
(* The streams.                                                            *)
(***************************************************************************)

\* A new endpoint has no stream and the application knows of none.
LEMMA InitInv ==
  ASSUME Init
  PROVE  Inv /\ DOMAIN ep.guard = {} /\ seen = {}
<1>1. EmptyMap \in Maps(Cids, Sessions) /\ EmptyMap \in Maps(DIDs \X {0}, UsedWindows)
  BY EmptyMapType
<1>2. DOMAIN EmptyMap = {}
  BY DEF EmptyMap
<1>3. /\ ep = [local_did |-> Local, local_epoch |-> 0, peer_did |-> Remote, send_counter |-> 0,
               sessions |-> EmptyMap, max_concurrent |-> MaxConcurrent, guard |-> EmptyMap]
      /\ seen = {} /\ told = [c \in Cids |-> Unknown]
  BY DEF Init, NewEndpoint
<1>4. ep \in Endpoints(DIDs, Cids)
  BY <1>1, <1>3, PeerAssumption DEF Endpoints, DIDs
<1>5. told \in [Cids -> Knowledge] /\ \A c \in Cids : ~told[c].live
  BY <1>3, UnknownType
<1>6. Typed(ep, told)
  <2>1. 0 <= MaxCalls
    BY PeerAssumption DEF U64
  <2> QED
    BY <1>3, <1>4, <1>5, <2>1 DEF Typed
<1>7. Live(ep) = {}
  BY <1>2, <1>3 DEF Live
<1>8. Capped(ep)
  BY <1>7, FS_EmptySet, PeerAssumption DEF Capped
<1> QED
  BY <1>2, <1>3, <1>5, <1>6, <1>7, <1>8 DEF Inv, Sound, InStep

\* What the guard goes through in a step.
GuardStep ==
  \/ Quiet
  \/ \E env \in Presentable :
       /\ \E o \in open_message(ep.guard, env, Now) : ep'.guard = o.guard
       /\ seen' = IF ReachesGuard(env) THEN seen \cup {<<env.sender, env.counter>>} ELSE seen

\* Every step keeps the streams in step with the application's view.
LEMMA NextInv ==
  ASSUME Inv, [Next]_vars
  PROVE  Inv' /\ GuardStep
<1>1. CASE Next
  <2>1. ASSUME NEW c \in Cids, NEW w \in Grants, Open(c, w) PROVE Inv' /\ GuardStep
    BY <2>1, OpenKeeps DEF GuardStep
  <2>2. ASSUME NEW c \in Cids, NEW w \in Grants, OpenAck(c, w) PROVE Inv' /\ GuardStep
    BY <2>2, OpenAckKeeps DEF GuardStep
  <2>3. ASSUME NEW c \in Cids, NEW w \in Grants, GrantCredit(c, w) PROVE Inv' /\ GuardStep
    BY <2>3, GrantCreditKeeps DEF GuardStep
  <2>4. ASSUME NEW c \in Cids, SendData(c) PROVE Inv' /\ GuardStep
    BY <2>4, SendDataKeeps DEF GuardStep
  <2>5. ASSUME NEW c \in Cids, Close(c) PROVE Inv' /\ GuardStep
    BY <2>5, CloseKeeps DEF GuardStep
  <2>6. ASSUME NEW c \in Cids, Cancel(c) PROVE Inv' /\ GuardStep
    BY <2>6, CancelKeeps DEF GuardStep
  <2>7. ASSUME NEW env \in Presentable, Accept(env) PROVE Inv' /\ GuardStep
    BY <2>7, AcceptKeeps DEF GuardStep
  <2> QED
    BY <1>1, <2>1, <2>2, <2>3, <2>4, <2>5, <2>6, <2>7 DEF Next
<1>2. CASE UNCHANGED vars
  BY <1>2 DEF vars, Inv, GuardStep, Quiet
<1> QED
  BY <1>1, <1>2

\* StreamEndpoint's streams and the application's view of them stay in step.
THEOREM InStepAlways == Spec => []Inv
<1>1. Init => Inv
  BY InitInv
<1>2. Inv /\ [Next]_vars => Inv'
  BY NextInv
<1> QED
  BY <1>1, <1>2, PTL DEF Spec

\* The fields of StreamEndpoint keep their types: no session counter leaves u64
\* and no window of the guard is malformed.
THEOREM TypeCorrect == Spec => []TypeOK
<1>1. Inv => TypeOK
  <2> SUFFICES ASSUME Inv PROVE TypeOK
    OBVIOUS
  <2>1. ep.send_counter \in 0 .. MaxCalls
    <3>1. ep.send_counter \in Nat /\ ep.send_counter <= MaxCalls
      BY InvTypes DEF Inv, Sound, Typed
    <3> QED
      BY <3>1, PeerAssumption DEF U64
  <2>2. \A k \in DOMAIN ep.guard : ep.guard[k] \in Windows
    <3>1. ep.guard \in Maps(DIDs \X {0}, UsedWindows)
      BY InvTypes
    <3>2. \A k \in DOMAIN ep.guard : ep.guard[k] \in UsedWindows
      BY <3>1, MapType
    <3> QED
      BY <3>2 DEF UsedWindows
  <2>3. Live(ep) \subseteq Cids /\ \A c \in Live(ep) : ep.sessions[c] \in Sessions
    BY InvTypes
  <2> QED
    BY <2>1, <2>2, <2>3 DEF TypeOK, Inv, Senders
<1> QED
  BY <1>1, InStepAlways, PTL

\* open and accept_open never let the sessions exceed max_concurrent, whatever
\* the peer and the application do.
THEOREM StreamsStayBounded == Spec => []StreamsBounded
<1>1. Inv => StreamsBounded
  BY DEF Inv, Sound, Capped, StreamsBounded
<1> QED
  BY <1>1, InStepAlways, PTL

\* No stream is dropped, replaced or kept without the result of a call or an event
\* of accept saying so.
THEOREM ApplicationAlwaysKnows == Spec => []ApplicationKnows
<1>1. Inv => ApplicationKnows
  BY DEF Inv, Sound, InStep, ApplicationKnows, Matches
<1> QED
  BY <1>1, InStepAlways, PTL

\* accept hands over a chunk only on an established stream, in sequence, and
\* within what grant_credit and the handshake granted, whatever the peer sends.
THEOREM ChunksOnlyAsGranted == Spec => []ChunksAsGranted
<1>1. ASSUME Inv, NEW env \in Presentable, NEW r \in accept(ep, env, Now, TRUE), r.why = "Data"
      PROVE  /\ told[env.correlation_id].live /\ told[env.correlation_id].ready
             /\ ~told[env.correlation_id].peer_closed
             /\ env.stream.seq = told[env.correlation_id].chunks
             /\ told[env.correlation_id].chunks < told[env.correlation_id].granted
  <2> DEFINE c == env.correlation_id
             s == ep.sessions[c]
  <2>1. PICK o : Outcomes(env, o, r)
    BY <1>1, PresentedOutcome
  <2> DEFINE f == Advanced(ep, o)
  <2>2. f.sessions = ep.sessions
    BY <1>1, <2>1, AdvancedSound
  <2>3. ~(o.verdict # "Opened" /\ r = Dropped(f, o.verdict))
    <3>1. SUFFICES ASSUME o.verdict # "Opened", r = Dropped(f, o.verdict) PROVE FALSE
      OBVIOUS
    <3>2. r.why \in Verdicts
      BY <2>1, <3>1, VerdictKinds DEF Outcomes, Dropped, Outcome
    <3> QED
      BY <1>1, <3>2 DEF Verdicts
  <2>4. ~Ignores(f, env, r) /\ ~OnReset(f, env, r) /\ ~OnOpen(f, env, Now, TRUE, r)
    BY <1>1 DEF Ignores, Refusals, OnReset, OnOpen, Reports, Rejects
  <2>5. OnOther(f, env, Now, TRUE, r)
    BY <2>1, <2>3, <2>4 DEF Outcomes, AcceptedAs
  <2>6. c \in Live(ep) /\ Legal(s, env.stream) /\ to_event(env.stream.frame) = "Data"
        /\ env.stream.frame \in KnownFrames \ {OPEN, RESET}
    BY <1>1, <2>2, <2>5 DEF OnOther, Reports, Rejects, Live
  <2>7. env.stream.frame = DATA
    <3> USE DEF OPEN, OPEN_ACK, DATA, CREDIT, CLOSE, CLOSE_ACK, RESET
    <3>1. env.stream.frame \in {OPEN_ACK, DATA, CREDIT, CLOSE, CLOSE_ACK}
      BY <2>6 DEF KnownFrames
    <3> QED
      BY <2>6, <3>1 DEF to_event
  <2>8. /\ Established(s) /\ ~s.remote_closed /\ NextInOrder(s, env.stream)
        /\ s.recv_window_remaining > 0
    <3>1. ASSUME NEW z, NEW hdr, Legal(z, hdr), hdr.frame = DATA
          PROVE  /\ Established(z) /\ ~z.remote_closed /\ NextInOrder(z, hdr)
                 /\ z.recv_window_remaining > 0
      BY <3>1 DEF Legal, OPEN, OPEN_ACK, DATA, CREDIT, CLOSE, CLOSE_ACK, RESET
    <3> QED
      BY <2>6, <2>7, <3>1
  <2>9. s \in Sessions /\ Matches(s, told[c], ep.send_counter) /\ told[c] \in Knowledge
    BY <1>1, <2>6, InvTypes
  <2> QED
    BY <2>8, <2>9 DEF Matches, NextInOrder, Sessions, Knowledge, U64
<1>2. Inv => ChunksAsGranted
  BY <1>1 DEF ChunksAsGranted
<1> QED
  BY <1>2, InStepAlways, PTL
-----------------------------------------------------------------------------
(***************************************************************************)
(* The endpoint's replay guard.                                            *)
(***************************************************************************)

\* There is room for all resolvable senders, so evict_if_full drops none.
LEMMA NothingEvicted ==
  ASSUME NEW tab, DOMAIN tab \subseteq Senders \X {0}, NEW d \in Senders,
         NEW E, Evicts(tab, E, <<d, 0>>)
  PROVE  E = {}
<1> SUFFICES ASSUME <<d, 0>> \notin DOMAIN tab,
                    ~(Cardinality(DOMAIN tab) < MAX_TRACKED_SENDERS)
             PROVE  FALSE
  BY DEF Evicts
<1>1. PICK b \in Senders : DOMAIN tab \subseteq {<<b, 0>>}
  <2>1. CASE d = Remote
    BY <2>1 DEF Senders
  <2>2. CASE d = Stranger
    BY <2>2 DEF Senders
  <2> QED
    BY <2>1, <2>2 DEF Senders
<1>2. IsFiniteSet({<<b, 0>>}) /\ Cardinality({<<b, 0>>}) = 1
  BY FS_Singleton
<1>3. IsFiniteSet(DOMAIN tab) /\ Cardinality(DOMAIN tab) <= Cardinality({<<b, 0>>})
  BY <1>1, <1>2, FS_Subset
<1>4. Cardinality(DOMAIN tab) \in Nat
  BY <1>3, FS_CardinalityType
<1> QED
  BY <1>2, <1>3, <1>4, PeerAssumption, TableAssumption

\* The window of a sender heard of is in use, its counters are u64.
LEMMA TrackedWindow ==
  ASSUME NEW g \in Maps(DIDs \X {0}, UsedWindows), NEW d, <<d, 0>> \in DOMAIN g
  PROVE  g[<<d, 0>>] \in Windows /\ g[<<d, 0>>].started
<1>1. g[<<d, 0>>] \in UsedWindows
  BY MapType
<1> QED
  BY <1>1 DEF UsedWindows

\* The counters presented fit a u64.
LEMMA SeenFromType ==
  ASSUME NEW d, NEW S
  PROVE  SeenFrom(d, S) \in SUBSET U64
  BY PeerAssumption, MachineAssumption DEF SeenFrom, Counters, U64

\* open_message keeps the guard's windows tracking all that was presented.
LEMMA GuardTracksStep ==
  ASSUME WideUsize, NEW g \in Maps(DIDs \X {0}, UsedWindows), NEW S, GuardTracks(g, S),
         NEW env \in Presentable, NEW o \in open_message(g, env, Now), NEW T,
         T = IF ReachesGuard(env) THEN S \cup {<<env.sender, env.counter>>} ELSE S
  PROVE  GuardTracks(o.guard, T)
<1> DEFINE a == env.sender
           n == env.counter
           key == <<env.sender, 0>>
<1>1. /\ ReplayKey(env.sender, env.sender_epoch) = key /\ key \in DIDs \X {0}
      /\ n \in U64 /\ env.timestamp_ms \in Nat /\ Now \in U64
  BY PresentedSane
<1>2. a \in Senders /\ n \in Counters
  BY PresentedFields DEF Fields
<1>3. ReachesGuard(env) <=> Reaches(env, Now)
  BY DEF ReachesGuard, Reaches
<1>4. \A d : SeenFrom(d, S) \in SUBSET U64
  BY SeenFromType
<1>5. ReachesGuard(env) =>
        \A d : SeenFrom(d, T) = IF d = a THEN SeenFrom(d, S) \cup {n} ELSE SeenFrom(d, S)
  <2> SUFFICES ASSUME ReachesGuard(env), NEW d
               PROVE  SeenFrom(d, T) = IF d = a THEN SeenFrom(d, S) \cup {n} ELSE SeenFrom(d, S)
    OBVIOUS
  <2>1. T = S \cup {<<a, n>>}
    OBVIOUS
  <2>2. n \in Counters
    BY <1>2
  <2> HIDE DEF a, n
  <2> QED
    BY <2>1, <2>2 DEF SeenFrom
<1>6. CASE RefusedAt(g, env, Now, o)
  <2>1. o.guard = g
    BY <1>6 DEF RefusedAt
  <2>2. CASE ~ReachesGuard(env)
    BY <2>1, <2>2
  <2>3. CASE ReachesGuard(env)
    <3>1. ~Admits(Current(g, key), n)
      BY <1>1, <1>3, <1>6, <2>3 DEF RefusedAt
    <3>2. key \in DOMAIN g
      BY <3>1 DEF Current, Admits, NewWindow
    <3>3. ~Admits(g[key], n)
      BY <3>1, <3>2 DEF Current
    <3>4. g[key] \in Windows /\ g[key].started
      BY <3>2, TrackedWindow
    <3>5. Tracks(g[key], SeenFrom(a, S))
      BY <1>2, <3>2 DEF GuardTracks
    <3>6. Tracks(g[key], SeenFrom(a, S) \cup {n})
      BY <1>1, <1>4, <3>3, <3>4, <3>5, TracksRefuse
    <3>7. SeenFrom(a, T) = SeenFrom(a, S) \cup {n} /\ \A d : d # a => SeenFrom(d, T) = SeenFrom(d, S)
      BY <1>5, <2>3
    <3> QED
      BY <2>1, <3>2, <3>6, <3>7 DEF GuardTracks
  <2> QED
    BY <2>2, <2>3
<1>7. CASE \E E \in SUBSET DOMAIN g : AdmittedAt(g, env, Now, E, o)
  <2>1. PICK E \in SUBSET DOMAIN g : AdmittedAt(g, env, Now, E, o)
    BY <1>7
  <2> DEFINE w == Current(g, key)
             v == admit(w, n)
  <2>2. ReachesGuard(env) /\ Admits(w, n) /\ Evicts(g, E, key)
    BY <1>1, <1>3, <2>1 DEF AdmittedAt, RecordedAs
  <2>3. E = {}
    BY <1>2, <2>2, NothingEvicted DEF GuardTracks
  <2>4. /\ DOMAIN o.guard = (DOMAIN g \ E) \cup {key}
        /\ \A k \in DOMAIN g \ E : k # key => o.guard[k] = g[k]
        /\ o.guard[key] = SeenAt(v, env.timestamp_ms)
        /\ v \in Windows /\ env.timestamp_ms \in U64
    BY <1>1, <2>1, AdmittedGuard
  <2>5. Tracks(v, SeenFrom(a, S) \cup {n})
    <3>1. CASE key \in DOMAIN g
      <4>1. w = g[key] /\ w \in Windows /\ w.started
        BY <3>1, TrackedWindow DEF Current
      <4>2. Tracks(w, SeenFrom(a, S))
        BY <1>2, <3>1, <4>1 DEF GuardTracks
      <4> HIDE DEF w
      <4> QED
        BY <1>1, <1>4, <2>2, <4>1, <4>2, TracksAdmit
    <3>2. CASE key \notin DOMAIN g
      <4>1. w = NewWindow
        BY <3>2 DEF Current
      <4>2. SeenFrom(a, S) \cup {n} = {n}
        BY <1>2, <3>2 DEF GuardTracks
      <4> HIDE DEF w
      <4> QED
        BY <1>1, <4>1, <4>2, TracksFirst
    <3> QED
      BY <3>1, <3>2
  <2>6. Tracks(o.guard[key], SeenFrom(a, S) \cup {n})
    BY <2>4, <2>5, TracksSeenAt
  <2>7. SeenFrom(a, T) = SeenFrom(a, S) \cup {n} /\ \A d : d # a => SeenFrom(d, T) = SeenFrom(d, S)
    BY <1>5, <2>2
  <2>8. ASSUME NEW d \in Senders
        PROVE  IF <<d, 0>> \in DOMAIN o.guard THEN Tracks(o.guard[<<d, 0>>], SeenFrom(d, T))
                                              ELSE SeenFrom(d, T) = {}
    <3>1. CASE d = a
      <4>1. key \in DOMAIN o.guard
        BY <2>4
      <4> QED
        BY <2>6, <2>7, <3>1, <4>1
    <3>2. CASE d # a
      <4>1. <<d, 0>> # key
        BY <3>2
      <4>2. <<d, 0>> \in DOMAIN o.guard <=> <<d, 0>> \in DOMAIN g
        BY <2>3, <2>4, <4>1
      <4>3. <<d, 0>> \in DOMAIN g => o.guard[<<d, 0>>] = g[<<d, 0>>]
        BY <2>3, <2>4, <4>1
      <4> QED
        BY <2>7, <3>2, <4>2, <4>3 DEF GuardTracks
    <3> QED
      BY <3>1, <3>2
  <2>9. DOMAIN o.guard \subseteq Senders \X {0}
    BY <1>2, <2>4 DEF GuardTracks
  <2> QED
    BY <2>8, <2>9 DEF GuardTracks
<1> QED
  BY <1>6, <1>7, OpenVerdict

\* The endpoint's guard tracks all that was presented to accept, on a target whose
\* usize holds a u64.
THEOREM GuardAlwaysTracks == ASSUME WideUsize PROVE Spec => []GuardInv
<1>1. Init => GuardInv
  <2> SUFFICES ASSUME Init PROVE GuardInv
    OBVIOUS
  <2>1. Inv /\ DOMAIN ep.guard = {} /\ seen = {}
    BY InitInv
  <2> QED
    BY <2>1 DEF GuardInv, GuardTracks, SeenFrom
<1>2. GuardInv /\ [Next]_vars => GuardInv'
  <2> SUFFICES ASSUME GuardInv, [Next]_vars PROVE GuardInv'
    OBVIOUS
  <2>1. Inv' /\ GuardStep
    BY NextInv DEF GuardInv
  <2>2. ep.guard \in Maps(DIDs \X {0}, UsedWindows)
    BY InvTypes DEF GuardInv
  <2>3. CASE Quiet
    <3>1. GuardTracks(ep', seen') = GuardTracks(ep', seen)
      BY <2>3 DEF Quiet
    <3> QED
      BY <2>1, <2>3 DEF GuardInv, Quiet
  <2>4. ASSUME NEW env \in Presentable, NEW o \in open_message(ep.guard, env, Now),
               ep'.guard = o.guard,
               seen' = IF ReachesGuard(env) THEN seen \cup {<<env.sender, env.counter>>} ELSE seen
        PROVE  GuardInv'
    <3>1. GuardTracks(o.guard, seen')
      BY <2>2, <2>4, GuardTracksStep DEF GuardInv
    <3> QED
      BY <2>1, <2>4, <3>1 DEF GuardInv
  <2> QED
    BY <2>1, <2>3, <2>4 DEF GuardStep
<1> QED
  BY <1>1, <1>2, PTL DEF Spec

\* A frame whose counter was presented before is not admitted.
LEMMA SeenIsRefused ==
  ASSUME WideUsize, GuardInv, NEW env \in Presentable, <<env.sender, env.counter>> \in seen
  PROVE  ~Admits(Current(ep.guard, <<env.sender, 0>>), env.counter)
<1> DEFINE a == env.sender
           n == env.counter
           w == ep.guard[<<env.sender, 0>>]
<1>1. n \in U64 /\ a \in Senders /\ n \in Counters
  BY PresentedSane, PresentedFields DEF Fields
<1>2. n \in SeenFrom(a, seen)
  BY <1>1 DEF SeenFrom
<1>3. <<a, 0>> \in DOMAIN ep.guard /\ Tracks(w, SeenFrom(a, seen))
  BY <1>1, <1>2 DEF GuardInv, GuardTracks
<1>4. ep.guard \in Maps(DIDs \X {0}, UsedWindows)
  BY InvTypes DEF GuardInv
<1>5. w \in Windows /\ w.started
  BY <1>3, <1>4, TrackedWindow
<1>6. SeenFrom(a, seen) \in SUBSET U64
  BY SeenFromType
<1>7. ~Admits(w, n)
  BY <1>1, <1>2, <1>3, <1>5, <1>6, TracksAdmits
<1> QED
  BY <1>3, <1>7 DEF Current

\* A frame that leads to anything but a drop was admitted by the guard.
LEMMA OpenedIsAdmitted ==
  ASSUME NEW tab, NEW env \in Presentable, NEW o \in open_message(tab, env, Now),
         o.verdict = "Opened"
  PROVE  env.authentic /\ Admits(Current(tab, <<env.sender, 0>>), env.counter)
<1>1. ~RefusedAt(tab, env, Now, o)
  BY DEF RefusedAt
<1>2. PICK E \in SUBSET DOMAIN tab : AdmittedAt(tab, env, Now, E, o)
  BY <1>1, OpenVerdict
<1> QED
  BY <1>2, PresentedSane DEF AdmittedAt, Reaches

\* accept answers with a RESET only a frame of the authenticated peer that was never
\* presented before and is no RESET: no relay, stranger or RESET provokes one.
THEOREM NoReflectionHolds == ASSUME WideUsize PROVE Spec => []NoReflection
<1>1. ASSUME GuardInv, NEW env \in Presentable, NEW r \in accept(ep, env, Now, TRUE),
             r.kind = "Reset"
      PROVE  /\ env.authentic /\ env.sender = Remote
             /\ env.stream.frame # RESET
             /\ <<env.sender, env.counter>> \notin seen
  <2>0. Inv
    BY <1>1 DEF GuardInv
  <2>1. PICK o : Outcomes(env, o, r)
    BY <1>1, <2>0, PresentedOutcome
  <2> DEFINE f == Advanced(ep, o)
  <2>2. f.peer_did = Remote
    BY <2>0, <2>1, AdvancedSound
  <2>3. ~(r = Dropped(f, o.verdict)) /\ ~Ignores(f, env, r) /\ ~OnReset(f, env, r)
    BY <1>1 DEF Dropped, Outcome, Ignores, OnReset, Reports
  <2>4. /\ o.verdict = "Opened" /\ FromPeer(f, env)
        /\ OnOpen(f, env, Now, TRUE, r) \/ OnOther(f, env, Now, TRUE, r)
    BY <2>1, <2>3 DEF Outcomes, AcceptedAs
  <2>5. env.stream.frame # RESET
    <3>1. env.stream.frame = OPEN \/ env.stream.frame \in KnownFrames \ {OPEN, RESET}
      BY <2>4 DEF OnOpen, OnOther
    <3> QED
      BY <3>1 DEF OPEN, RESET
  <2>6. env.authentic /\ Admits(Current(ep.guard, <<env.sender, 0>>), env.counter)
    BY <2>1, <2>4, OpenedIsAdmitted DEF Outcomes
  <2>7. <<env.sender, env.counter>> \notin seen
    BY <1>1, <2>6, SeenIsRefused
  <2> QED
    BY <2>2, <2>4, <2>5, <2>6, <2>7 DEF FromPeer
<1>2. GuardInv => NoReflection
  BY <1>1 DEF NoReflection
<1> QED
  BY <1>2, GuardAlwaysTracks, PTL

\* accept does not process a frame again that was presented before, even where it
\* was refused only after the guard was advanced, and a drop changes no session.
THEOREM RefusedStaysInert == ASSUME WideUsize PROVE Spec => []RefusedIsInert
<1>1. ASSUME GuardInv, NEW env \in Presentable, NEW r \in accept(ep, env, Now, TRUE)
      PROVE  /\ (ReachesGuard(env) /\ <<env.sender, env.counter>> \in seen) => r.why = "Replay"
             /\ r.kind = "Dropped" => r.ep.sessions = ep.sessions
  <2>0. Inv
    BY <1>1 DEF GuardInv
  <2>1. PICK o : Outcomes(env, o, r)
    BY <1>1, <2>0, PresentedOutcome
  <2> DEFINE f == Advanced(ep, o)
  <2>2. f.sessions = ep.sessions
    BY <2>0, <2>1, AdvancedSound
  <2>3. ASSUME ReachesGuard(env), <<env.sender, env.counter>> \in seen PROVE r.why = "Replay"
    <3>1. ~Admits(Current(ep.guard, <<env.sender, 0>>), env.counter)
      BY <1>1, <2>3, SeenIsRefused
    <3>2. \A E : ~AdmittedAt(ep.guard, env, Now, E, o)
      BY <3>1, PresentedSane DEF AdmittedAt
    <3>3. RefusedAt(ep.guard, env, Now, o)
      BY <2>1, <3>2, OpenVerdict DEF Outcomes
    <3>4. o.verdict = "Replay"
      BY <2>3, <3>3 DEF RefusedAt, ReachesGuard, Reaches
    <3>5. r = Dropped(f, o.verdict)
      BY <2>1, <3>4 DEF Outcomes, AcceptedAs
    <3> QED
      BY <3>4, <3>5 DEF Dropped, Outcome
  <2>4. ASSUME r.kind = "Dropped" PROVE r.ep = f
    <3>1. ~OnReset(f, env, r) /\ ~OnOpen(f, env, Now, TRUE, r) /\ ~OnOther(f, env, Now, TRUE, r)
      BY <2>4 DEF OnReset, OnOpen, OnOther, Reports, Rejects
    <3>2. r = Dropped(f, o.verdict) \/ Ignores(f, env, r)
      BY <2>1, <3>1 DEF Outcomes, AcceptedAs
    <3> QED
      BY <3>2 DEF Dropped, Outcome, Ignores
  <2> QED
    BY <2>2, <2>3, <2>4
<1>2. GuardInv => RefusedIsInert
  BY <1>1 DEF RefusedIsInert
<1> QED
  BY <1>2, GuardAlwaysTracks, PTL

\* While the counters stay within one window's reach, no new frame of the peer is
\* taken for a replay, whatever other senders present to the endpoint's guard.
THEOREM PeerStaysUndisturbed ==
  ASSUME WideUsize, MaxCounter < REPLAY_WINDOW
  PROVE  Spec => []PeerUndisturbed
<1>1. ASSUME GuardInv, NEW env \in Presentable, env.sender = Remote, ReachesGuard(env),
             <<Remote, env.counter>> \notin seen, NEW r \in accept(ep, env, Now, TRUE)
      PROVE  r.why # "Replay"
  <2> DEFINE n == env.counter
             w == Current(ep.guard, <<Remote, 0>>)
  <2>0. Inv /\ n \in U64 /\ n \in Counters
    BY <1>1, PresentedSane, PresentedFields DEF GuardInv, Fields
  <2>1. PICK o : Outcomes(env, o, r)
    BY <1>1, <2>0, PresentedOutcome
  <2> DEFINE f == Advanced(ep, o)
  <2>2. Admits(w, n)
    <3>1. CASE <<Remote, 0>> \in DOMAIN ep.guard
      <4>1. w = ep.guard[<<Remote, 0>>]
        BY <3>1 DEF Current
      <4>2. w \in Windows /\ w.started
        BY <2>0, <3>1, <4>1, InvTypes, TrackedWindow
      <4>3. Tracks(w, SeenFrom(Remote, seen))
        BY <1>1, <3>1, <4>1 DEF GuardInv, GuardTracks, Senders
      <4>4. \A m \in SeenFrom(Remote, seen) : m # n /\ m < n + REPLAY_WINDOW
        BY <1>1, <2>0, WindowAssumption, PeerAssumption
           DEF SeenFrom, Counters, REPLAY_WINDOW, U64
      <4>5. SeenFrom(Remote, seen) \in SUBSET U64
        BY SeenFromType
      <4> HIDE DEF w
      <4> QED
        BY <2>0, <4>2, <4>3, <4>4, <4>5, TracksAdmits
    <3>2. CASE <<Remote, 0>> \notin DOMAIN ep.guard
      BY <3>2 DEF Current, Admits, NewWindow
    <3> QED
      BY <3>1, <3>2
  <2>3. ~RefusedAt(ep.guard, env, Now, o)
    BY <1>1, <2>2, PresentedSane DEF RefusedAt, ReachesGuard, Reaches
  <2>4. o.verdict \in {"Opened", "Decompression"}
    BY <2>1, <2>3, OpenVerdict DEF Outcomes, AdmittedAt
  <2>5. CASE r = Dropped(f, o.verdict)
    BY <2>4, <2>5 DEF Dropped, Outcome
  <2>6. CASE Ignores(f, env, r)
    BY <2>6 DEF Ignores, Refusals
  <2>7. CASE OnReset(f, env, r) \/ OnOpen(f, env, Now, TRUE, r)
    BY <2>7 DEF OnReset, OnOpen, Reports, Rejects
  <2>8. CASE OnOther(f, env, Now, TRUE, r)
    <3> USE DEF OPEN, OPEN_ACK, DATA, CREDIT, CLOSE, CLOSE_ACK, RESET
    <3>1. env.stream.frame \in {OPEN_ACK, DATA, CREDIT, CLOSE, CLOSE_ACK}
      BY <2>8 DEF OnOther, KnownFrames
    <3>2. to_event(env.stream.frame) # "Replay"
      BY <3>1 DEF to_event
    <3>3. r.why = to_event(env.stream.frame) \/ r.why = "StreamProtocol"
      BY <2>8 DEF OnOther, Reports, Rejects
    <3> QED
      BY <3>2, <3>3
  <2> QED
    BY <2>1, <2>5, <2>6, <2>7, <2>8 DEF Outcomes, AcceptedAs
<1>2. GuardInv => PeerUndisturbed
  BY <1>1 DEF PeerUndisturbed
<1> QED
  BY <1>2, GuardAlwaysTracks, PTL
=============================================================================
