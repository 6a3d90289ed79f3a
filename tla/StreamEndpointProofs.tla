------------------------ MODULE StreamEndpointProofs ------------------------
(***************************************************************************)
(* Lemmas about StreamEndpoint's operators, for every endpoint: what each  *)
(* of them leaves of the session table, the counter and the guard.  The    *)
(* proofs about the state machines that own endpoints rest on these.       *)
(***************************************************************************)
EXTENDS StreamEndpoint, ReplayTableProofs

(***************************************************************************)
(* Hash maps.                                                              *)
(***************************************************************************)

\* The maps from some of the keys K to values in V.
Maps(K, V) == UNION {[S -> V] : S \in SUBSET K}

\* The keys and the values of a map.
LEMMA MapType ==
  ASSUME NEW K, NEW V, NEW t \in Maps(K, V)
  PROVE  /\ DOMAIN t \subseteq K
         /\ \A k \in DOMAIN t : t[k] \in V
         /\ t = [k \in DOMAIN t |-> t[k]]
<1>1. PICK S \in SUBSET K : t \in [S -> V]
  BY DEF Maps
<1> QED
  BY <1>1

\* What is a map: enough to know its keys and its values.
LEMMA MapIntro ==
  ASSUME NEW K, NEW V, NEW S \in SUBSET K, NEW t \in [S -> V]
  PROVE  t \in Maps(K, V)
  BY DEF Maps

\* The map with no entry is a map over any keys.
LEMMA EmptyMapType ==
  ASSUME NEW K, NEW V
  PROVE  EmptyMap \in Maps(K, V) /\ DOMAIN EmptyMap = {}
<1>1. EmptyMap \in [{} -> V] /\ DOMAIN EmptyMap = {}
  BY DEF EmptyMap
<1> QED
  BY <1>1, MapIntro

\* HashMap::insert sets one entry and leaves the others.
LEMMA InsertMap ==
  ASSUME NEW K, NEW V, NEW t \in Maps(K, V), NEW k \in K, NEW v \in V
  PROVE  /\ Insert(t, k, v) \in Maps(K, V)
         /\ DOMAIN Insert(t, k, v) = DOMAIN t \cup {k}
         /\ Insert(t, k, v)[k] = v
         /\ \A j \in DOMAIN t : j # k => Insert(t, k, v)[j] = t[j]
<1>1. DOMAIN t \subseteq K /\ \A j \in DOMAIN t : t[j] \in V
  BY MapType
<1>2. Insert(t, k, v) \in [DOMAIN t \cup {k} -> V]
  BY <1>1 DEF Insert
<1>3. DOMAIN t \cup {k} \in SUBSET K
  BY <1>1
<1> QED
  BY <1>2, <1>3, MapIntro DEF Insert

\* HashMap::remove takes one entry out and leaves the others.
LEMMA RemoveMap ==
  ASSUME NEW K, NEW V, NEW t \in Maps(K, V), NEW k
  PROVE  /\ Remove(t, k) \in Maps(K, V)
         /\ DOMAIN Remove(t, k) = DOMAIN t \ {k}
         /\ \A j \in DOMAIN t \ {k} : Remove(t, k)[j] = t[j]
<1>1. DOMAIN t \subseteq K /\ \A j \in DOMAIN t : t[j] \in V
  BY MapType
<1>2. Remove(t, k) \in [DOMAIN t \ {k} -> V]
  BY <1>1 DEF Remove, Restrict
<1>3. DOMAIN t \ {k} \in SUBSET K
  BY <1>1
<1> QED
  BY <1>2, <1>3, MapIntro DEF Remove, Restrict

\* Removing what was just inserted is removing what was there.
LEMMA RemoveInserted ==
  ASSUME NEW t, NEW k, NEW v
  PROVE  Remove(Insert(t, k, v), k) = Remove(t, k)
  BY DEF Remove, Insert, Restrict

(***************************************************************************)
(* Endpoints.                                                              *)
(***************************************************************************)

UsedWindows == {w \in Windows : w.started}

\* Endpoints of the DIDs D with streams among C, in epoch 0.
Endpoints(D, C) ==
  [local_did : D, local_epoch : {0}, peer_did : D, send_counter : Nat,
   sessions : Maps(C, Sessions), max_concurrent : Nat,
   guard : Maps(D \X {0}, UsedWindows)]

\* An endpoint with other sessions, another counter or another guard.
With(e, t, n, g) == [e EXCEPT !.sessions = t, !.send_counter = n, !.guard = g]

\* Only these three fields of an endpoint ever change.
LEMMA WithFields ==
  ASSUME NEW D, NEW C, NEW e \in Endpoints(D, C), NEW t, NEW n, NEW g
  PROVE  /\ With(e, t, n, g).sessions = t
         /\ With(e, t, n, g).send_counter = n
         /\ With(e, t, n, g).guard = g
         /\ With(e, t, n, g).local_did = e.local_did
         /\ With(e, t, n, g).local_epoch = e.local_epoch
         /\ With(e, t, n, g).peer_did = e.peer_did
         /\ With(e, t, n, g).max_concurrent = e.max_concurrent
  BY DEF With, Endpoints

\* An endpoint whose changed fields are well typed is an endpoint.
LEMMA WithType ==
  ASSUME NEW D, NEW C, NEW e \in Endpoints(D, C), NEW t \in Maps(C, Sessions),
         NEW n \in Nat, NEW g \in Maps(D \X {0}, UsedWindows)
  PROVE  With(e, t, n, g) \in Endpoints(D, C)
  BY DEF With, Endpoints

\* The fields of an endpoint are well typed.
LEMMA EndpointType ==
  ASSUME NEW D, NEW C, NEW e \in Endpoints(D, C)
  PROVE  /\ e.sessions \in Maps(C, Sessions) /\ e.send_counter \in Nat
         /\ e.guard \in Maps(D \X {0}, UsedWindows) /\ e.max_concurrent \in Nat
         /\ e = With(e, e.sessions, e.send_counter, e.guard)
  BY DEF With, Endpoints

\* Endpoints changed twice.
LEMMA WithWith ==
  ASSUME NEW D, NEW C, NEW e \in Endpoints(D, C), NEW t, NEW n, NEW g, NEW u, NEW m, NEW h
  PROVE  With(With(e, t, n, g), u, m, h) = With(e, u, m, h)
  BY DEF With, Endpoints

\* The session table once a session is stored and dropped if it is closed.
Settled(t, c, s) == IF is_closed(s) THEN Remove(t, c) ELSE Insert(t, c, s)

\* with_session followed by drop_if_closed settles the session.
LEMMA DropSettles ==
  ASSUME NEW D, NEW C, NEW e \in Endpoints(D, C), NEW c \in C, NEW s \in Sessions
  PROVE  drop_if_closed(WithSession(e, c, s), c)
           = With(e, Settled(e.sessions, c, s), e.send_counter, e.guard)
<1> DEFINE f == WithSession(e, c, s)
<1>1. f = With(e, Insert(e.sessions, c, s), e.send_counter, e.guard)
  BY DEF WithSession, With, Endpoints
<1>2. f.sessions = Insert(e.sessions, c, s)
  BY <1>1, WithFields
<1>3. c \in Live(f) /\ f.sessions[c] = s
  BY <1>2 DEF Live, Insert
<1>4. CASE is_closed(s)
  <2>1. WithoutSession(f, c) = With(e, Remove(Insert(e.sessions, c, s), c), e.send_counter, e.guard)
    BY <1>1 DEF WithoutSession, With, Endpoints
  <2> QED
    BY <1>3, <1>4, <2>1, RemoveInserted DEF drop_if_closed, Settled
<1>5. CASE ~is_closed(s)
  BY <1>1, <1>3, <1>5 DEF drop_if_closed, Settled
<1> QED
  BY <1>4, <1>5

(***************************************************************************)
(* The calls of the local application.                                     *)
(***************************************************************************)

\* What is handed to the caller to send.
Sends(e, c, hdr, payload, now_ms, expires_at, sealed) ==
  IF sealed THEN <<Sealed(e, c, hdr, payload, now_ms, expires_at)>> ELSE <<>>

\* A call that stores session s and seals a frame: the counter is used up whether
\* or not sealing succeeds.
LEMMA StoreAndSeal ==
  ASSUME NEW D, NEW C, NEW e \in Endpoints(D, C), NEW c \in C, NEW s,
         NEW hdr, NEW payload, NEW now_ms, NEW x, NEW sealed
  PROVE  LET r == seal_frame(WithSession(e, c, s), c, hdr, payload, now_ms, x, sealed)
         IN  /\ r.ep = With(e, Insert(e.sessions, c, s), e.send_counter + 1, e.guard)
             /\ r.sent = Sends(e, c, hdr, payload, now_ms, x, sealed)
             /\ r = [ep |-> r.ep, sent |-> r.sent]
  BY DEF seal_frame, WithSession, With, Endpoints, Sends, Sealed

\* A call that uses up a counter, seals hdr and leaves the session table t, or u
\* where sealing fails.
Seals(e, c, hdr, now_ms, x, sealed, t, u, r) ==
  /\ sealed => r.ep = With(e, t, e.send_counter + 1, e.guard)
  /\ ~sealed => r.ep = With(e, u, e.send_counter + 1, e.guard)
  /\ r.sent = Sends(e, c, hdr, 0, now_ms, x, sealed)

\* close: the session is stored, and dropped if both directions are now closed
\* and the CLOSE was sealed.
LEMMA CloseShape ==
  ASSUME NEW D, NEW C, NEW e \in Endpoints(D, C), NEW c \in C,
         NEW s \in Sessions, s = build_close(e.sessions[c]),
         NEW now_ms, NEW x, NEW sealed \in BOOLEAN
  PROVE  Seals(e, c, header(CLOSE, 0, 0), now_ms, x, sealed, Settled(e.sessions, c, s),
               Insert(e.sessions, c, s), close(e, c, now_ms, x, sealed))
<1> DEFINE hdr == header(CLOSE, 0, 0)
           q == seal_frame(WithSession(e, c, s), c, hdr, 0, now_ms, x, sealed)
           f == With(e, e.sessions, e.send_counter + 1, e.guard)
<1>1. /\ q.ep = With(e, Insert(e.sessions, c, s), e.send_counter + 1, e.guard)
      /\ q.sent = Sends(e, c, hdr, 0, now_ms, x, sealed)
      /\ q = [ep |-> q.ep, sent |-> q.sent]
  BY StoreAndSeal
<1>2. f \in Endpoints(D, C)
  <2>1. e.send_counter \in Nat
    BY EndpointType
  <2>2. e.send_counter + 1 \in Nat
    BY <2>1
  <2> QED
    BY <2>2, EndpointType, WithType
<1>3. q.ep = WithSession(f, c, s)
  BY <1>1 DEF WithSession, With, Endpoints
<1>4. drop_if_closed(q.ep, c) = With(f, Settled(f.sessions, c, s), f.send_counter, f.guard)
  BY <1>2, <1>3, DropSettles
<1>5. drop_if_closed(q.ep, c) = With(e, Settled(e.sessions, c, s), e.send_counter + 1, e.guard)
  <2>1. f.sessions = e.sessions /\ f.send_counter = e.send_counter + 1 /\ f.guard = e.guard
    BY WithFields
  <2> QED
    BY <1>4, <2>1, WithWith
<1>6. close(e, c, now_ms, x, sealed) = IF sealed THEN [q EXCEPT !.ep = drop_if_closed(@, c)] ELSE q
  BY DEF close
<1> QED
  BY <1>1, <1>5, <1>6 DEF Seals

\* reset: the session is gone once the RESET is sealed.
LEMMA ResetShape ==
  ASSUME NEW D, NEW C, NEW e \in Endpoints(D, C), NEW c \in C, NEW now_ms, NEW x,
         NEW sealed \in BOOLEAN, NEW s, s = build_reset(e.sessions[c])
  PROVE  Seals(e, c, header(RESET, 0, 0), now_ms, x, sealed, Remove(e.sessions, c),
               Insert(e.sessions, c, s), reset(e, c, now_ms, x, sealed))
<1> DEFINE hdr == header(RESET, 0, 0)
           q == seal_frame(WithSession(e, c, s), c, hdr, 0, now_ms, x, sealed)
<1>1. /\ q.ep = With(e, Insert(e.sessions, c, s), e.send_counter + 1, e.guard)
      /\ q.sent = Sends(e, c, hdr, 0, now_ms, x, sealed)
      /\ q = [ep |-> q.ep, sent |-> q.sent]
  BY StoreAndSeal
<1>2. WithoutSession(q.ep, c)
        = With(e, Remove(Insert(e.sessions, c, s), c), e.send_counter + 1, e.guard)
  BY <1>1 DEF WithoutSession, With, Endpoints
<1>3. reset(e, c, now_ms, x, sealed) = IF sealed THEN [q EXCEPT !.ep = WithoutSession(@, c)] ELSE q
  BY DEF reset
<1> QED
  BY <1>1, <1>2, <1>3, RemoveInserted DEF Seals

(***************************************************************************)
(* StreamEndpoint::accept.                                                 *)
(***************************************************************************)

\* A frame for which accept does more than ignore it: the peer's, with a header
\* of a known kind and the right shape.
FromPeer(e, env) ==
  /\ env.sender = e.peer_did /\ env.stream # NoStream
  /\ env.stream.frame \in KnownFrames /\ env.shape = "StreamFrame"

Refusals == {"NotThePeer", "NoStreamHeader", "UnknownFrame", "NonStreamShape", "UnknownStream"}

\* A header whose window and sequence number the counters can take.
SaneHeader(hdr) == hdr.window \in U32 /\ (hdr.frame = DATA => hdr.seq < U64_MAX)

\* The frame is ignored: it is not one of the peer's, or its stream is not there.
Ignores(e, env, r) ==
  /\ r.kind = "Dropped" /\ r.why \in Refusals /\ r.ep = e /\ r.sent = <<>>
  /\ FromPeer(e, env) => env.stream.frame # OPEN /\ env.correlation_id \notin Live(e)

\* An event for the application, the session table being t afterwards.
Reports(e, r, why, t) ==
  /\ r.kind = "Event" /\ r.why = why /\ r.sent = <<>>
  /\ r.ep = With(e, t, e.send_counter, e.guard)

\* A RESET, or an error where it cannot be sealed, the session table being t.
Rejects(e, env, now_ms, sealed, r, why, t) ==
  /\ r.kind = (IF sealed THEN "Reset" ELSE "Err") /\ r.why = why
  /\ r.sent = Sends(e, env.correlation_id, header(RESET, 0, 0), 0, now_ms, 0, sealed)
  /\ r.ep = With(e, t, e.send_counter + 1, e.guard)

\* What accept does with a verified frame of each kind.
OnReset(e, env, r) ==
  /\ env.stream.frame = RESET /\ env.correlation_id \in Live(e)
  /\ Reports(e, r, "PeerReset", Remove(e.sessions, env.correlation_id))

OnOpen(e, env, now_ms, sealed, r) ==
  LET c == env.correlation_id
  IN  /\ env.stream.frame = OPEN
      /\ \/ /\ c \in Live(e)
            /\ Rejects(e, env, now_ms, sealed, r, "DuplicateOpen", Remove(e.sessions, c))
         \/ /\ c \notin Live(e) /\ Full(e)
            /\ Rejects(e, env, now_ms, sealed, r, "StreamLimit", e.sessions)
         \/ /\ c \notin Live(e) /\ ~Full(e)
            /\ Reports(e, r, "Opened", Insert(e.sessions, c, responder(env.stream.window)))

OnOther(e, env, now_ms, sealed, r) ==
  LET c == env.correlation_id
      s == e.sessions[c]
  IN  /\ env.stream.frame \in KnownFrames \ {OPEN, RESET} /\ c \in Live(e)
      /\ \/ /\ Legal(s, env.stream)
            /\ Reports(e, r, to_event(env.stream.frame),
                       Settled(e.sessions, c, on_recv(s, env.stream)))
         \/ /\ ~Legal(s, env.stream)
            /\ Rejects(e, env, now_ms, sealed, r, "StreamProtocol", Remove(e.sessions, c))

\* A RESET is built and sealed with the next counter.
LEMMA ResetResponse ==
  ASSUME NEW D, NEW C, NEW e \in Endpoints(D, C), NEW env, NEW t, NEW f,
         f = With(e, t, e.send_counter, e.guard), NEW now_ms, NEW why, NEW sealed
  PROVE  Rejects(e, env, now_ms, sealed,
                 reset_response(f, env.correlation_id, now_ms, why, sealed), why, t)
<1> DEFINE q == seal_frame(f, env.correlation_id, header(RESET, 0, 0), 0, now_ms, 0, sealed)
<1>1. /\ q.ep = With(e, t, e.send_counter + 1, e.guard)
      /\ q.sent = Sends(e, env.correlation_id, header(RESET, 0, 0), 0, now_ms, 0, sealed)
  BY DEF seal_frame, With, Endpoints, Sends, Sealed
<1> QED
  BY <1>1 DEF reset_response, Outcome, Rejects

\* A legal frame leaves a session of the right type, unless it counts a u64 over.
LEMMA RecvType ==
  ASSUME NEW s \in Sessions, NEW hdr, hdr.frame \in KnownFrames \ {OPEN, RESET},
         hdr.window \in U32, hdr.frame = DATA => hdr.seq < U64_MAX, Legal(s, hdr)
  PROVE  on_recv(s, hdr) \in Sessions
<1>1. U32 \subseteq U64 /\ U64_MAX \in Nat
  BY MachineAssumption DEF U32, U64
<1>2. hdr.frame \in {OPEN_ACK, DATA, CREDIT, CLOSE, CLOSE_ACK}
  BY DEF KnownFrames, OPEN, OPEN_ACK, DATA, CREDIT, CLOSE, CLOSE_ACK, RESET
<1> USE DEF OPEN, OPEN_ACK, DATA, CREDIT, CLOSE, CLOSE_ACK, RESET
<1>3. CASE hdr.frame = OPEN_ACK
  <2>1. on_recv(s, hdr) = [s EXCEPT !.handshake = "Established", !.send_credit = hdr.window]
    BY <1>3 DEF on_recv
  <2> QED
    BY <1>1, <2>1 DEF Sessions
<1>4. CASE hdr.frame = DATA
  <2>1. on_recv(s, hdr) = [s EXCEPT !.recv_window_remaining = s.recv_window_remaining - 1,
                                    !.recv_seq = s.recv_seq + 1]
    BY <1>4 DEF on_recv
  <2>2. s.recv_window_remaining > 0 /\ s.recv_seq < U64_MAX
    BY <1>4 DEF Legal, NextInOrder
  <2>3. s.recv_window_remaining - 1 \in U64 /\ s.recv_seq + 1 \in U64
    BY <1>1, <2>2 DEF Sessions, U64
  <2> QED
    BY <2>1, <2>3 DEF Sessions
<1>5. CASE hdr.frame = CREDIT
  <2>1. saturating_add(s.send_credit, hdr.window) \in U64
    BY <1>1, MachineAssumption DEF saturating_add, U64, U32, Sessions
  <2>2. on_recv(s, hdr) = [s EXCEPT !.send_credit = saturating_add(s.send_credit, hdr.window)]
    BY <1>5 DEF on_recv
  <2> QED
    BY <2>1, <2>2 DEF Sessions
<1>6. CASE hdr.frame = CLOSE
  <2>1. on_recv(s, hdr) = [s EXCEPT !.remote_closed = TRUE]
    BY <1>6 DEF on_recv
  <2> QED
    BY <2>1 DEF Sessions
<1>7. CASE hdr.frame = CLOSE_ACK
  BY <1>7 DEF on_recv
<1> QED
  BY <1>2, <1>3, <1>4, <1>5, <1>6, <1>7

\* accept on a verified envelope ignores it or reacts to the frame.
LEMMA AcceptOpenedShape ==
  ASSUME NEW D, NEW C, NEW e \in Endpoints(D, C), NEW env, env.correlation_id \in C,
         FromPeer(e, env) => SaneHeader(env.stream),
         NEW now_ms, NEW sealed, NEW r, r = AcceptOpened(e, env, now_ms, sealed)
  PROVE  \/ Ignores(e, env, r)
         \/ /\ FromPeer(e, env)
            /\ OnReset(e, env, r) \/ OnOpen(e, env, now_ms, sealed, r)
               \/ OnOther(e, env, now_ms, sealed, r)
<1> DEFINE c == env.correlation_id
           hdr == env.stream
           s == e.sessions[c]
<1>1. CASE Refusal(e, env) # "None"
  <2>1. r = Dropped(e, Refusal(e, env))
    BY <1>1 DEF AcceptOpened
  <2>2. Refusal(e, env) \in Refusals
    BY <1>1 DEF Refusal, Refusals
  <2>3. FromPeer(e, env) => hdr.frame # OPEN /\ c \notin Live(e)
    BY <1>1 DEF Refusal, FromPeer
  <2> QED
    BY <2>1, <2>2, <2>3 DEF Dropped, Outcome, Ignores
<1>2. CASE Refusal(e, env) = "None"
  <2>1. FromPeer(e, env) /\ (hdr.frame # OPEN => c \in Live(e))
    BY <1>2 DEF Refusal, FromPeer
  <2>2. r = CASE hdr.frame = RESET -> Event(WithoutSession(e, c), "PeerReset")
              [] hdr.frame = OPEN  -> accept_open(e, c, hdr, now_ms, sealed)
              [] OTHER             -> Transition(e, c, hdr, now_ms, sealed)
    BY <1>2 DEF AcceptOpened
  <2>3. WithoutSession(e, c) = With(e, Remove(e.sessions, c), e.send_counter, e.guard)
    BY DEF WithoutSession, With, Endpoints
  <2>4. e = With(e, e.sessions, e.send_counter, e.guard)
    BY EndpointType
  <2>5. CASE hdr.frame = RESET
    <3>1. r = Event(WithoutSession(e, c), "PeerReset")
      BY <2>2, <2>5 DEF OPEN, RESET
    <3> QED
      BY <2>1, <2>3, <2>5, <3>1 DEF Event, Outcome, OnReset, Reports, RESET, OPEN
  <2>6. CASE hdr.frame = OPEN
    <3>1. r = accept_open(e, c, hdr, now_ms, sealed)
      BY <2>2, <2>6 DEF OPEN, RESET
    <3>2. CASE c \in Live(e)
      <4>1. r = reset_response(WithoutSession(e, c), c, now_ms, "DuplicateOpen", sealed)
        BY <3>1, <3>2 DEF accept_open
      <4>2. Rejects(e, env, now_ms, sealed, r, "DuplicateOpen", Remove(e.sessions, c))
        BY <2>3, <4>1, ResetResponse
      <4> QED
        BY <2>1, <2>6, <3>2, <4>2 DEF OnOpen
    <3>3. CASE c \notin Live(e) /\ Full(e)
      <4>1. r = reset_response(e, c, now_ms, "StreamLimit", sealed)
        BY <3>1, <3>3 DEF accept_open
      <4>2. Rejects(e, env, now_ms, sealed, r, "StreamLimit", e.sessions)
        BY <2>4, <4>1, ResetResponse
      <4> QED
        BY <2>1, <2>6, <3>3, <4>2 DEF OnOpen
    <3>4. CASE c \notin Live(e) /\ ~Full(e)
      <4>1. r = Event(WithSession(e, c, responder(hdr.window)), "Opened")
        BY <3>1, <3>4 DEF accept_open
      <4>2. WithSession(e, c, responder(hdr.window))
              = With(e, Insert(e.sessions, c, responder(hdr.window)), e.send_counter, e.guard)
        BY DEF WithSession, With, Endpoints
      <4>3. Reports(e, r, "Opened", Insert(e.sessions, c, responder(hdr.window)))
        BY <4>1, <4>2 DEF Event, Outcome, Reports
      <4> QED
        BY <2>1, <2>6, <3>4, <4>3 DEF OnOpen
    <3> QED
      BY <3>2, <3>3, <3>4
  <2>7. CASE hdr.frame # RESET /\ hdr.frame # OPEN
    <3>1. r = Transition(e, c, hdr, now_ms, sealed)
      BY <2>2, <2>7
    <3>2. c \in Live(e) /\ hdr.frame \in KnownFrames \ {OPEN, RESET}
      BY <2>1, <2>7 DEF FromPeer
    <3>3. CASE Legal(s, hdr)
      <4>1. s \in Sessions
        <5>1. e.sessions \in Maps(C, Sessions)
          BY EndpointType
        <5> QED
          BY <3>2, <5>1, MapType DEF Live
      <4>2. on_recv(s, hdr) \in Sessions
        BY <2>1, <3>2, <3>3, <4>1, RecvType DEF SaneHeader
      <4>3. r = Event(drop_if_closed(WithSession(e, c, on_recv(s, hdr)), c), to_event(hdr.frame))
        BY <3>1, <3>3 DEF Transition
      <4>4. drop_if_closed(WithSession(e, c, on_recv(s, hdr)), c)
              = With(e, Settled(e.sessions, c, on_recv(s, hdr)), e.send_counter, e.guard)
        BY <4>2, DropSettles
      <4>5. Reports(e, r, to_event(hdr.frame), Settled(e.sessions, c, on_recv(s, hdr)))
        BY <4>3, <4>4 DEF Event, Outcome, Reports
      <4> QED
        BY <2>1, <3>2, <3>3, <4>5 DEF OnOther
    <3>4. CASE ~Legal(s, hdr)
      <4>1. r = reset_response(WithoutSession(e, c), c, now_ms, "StreamProtocol", sealed)
        BY <3>1, <3>4 DEF Transition
      <4>2. Rejects(e, env, now_ms, sealed, r, "StreamProtocol", Remove(e.sessions, c))
        BY <2>3, <4>1, ResetResponse
      <4> QED
        BY <2>1, <3>2, <3>4, <4>2 DEF OnOther
    <3> QED
      BY <3>3, <3>4
  <2> QED
    BY <2>5, <2>6, <2>7
<1> QED
  BY <1>1, <1>2

(***************************************************************************)
(* open_message and the guard.                                             *)
(***************************************************************************)

\* The guard is asked about this message.
Reaches(env, now_ms) ==
  /\ env.authentic /\ ~TtlTooLong(env) /\ ~Expired(env, now_ms)
  /\ Fresh(env.timestamp_ms, now_ms)

\* open_message refuses an envelope and leaves the guard as it is.
RefusedAt(tab, env, now_ms, o) ==
  /\ o.guard = tab
  /\ o.verdict \in {"Unauthentic", "TtlTooLong", "Expired", "Replay"}
  /\ Reaches(env, now_ms) =>
       /\ o.verdict = "Replay"
       /\ ~Admits(Current(tab, ReplayKey(env.sender, env.sender_epoch)), env.counter)

\* open_message advances the guard, evicting E; the payload may still turn out bad.
AdmittedAt(tab, env, now_ms, E, o) ==
  /\ Reaches(env, now_ms)
  /\ o.verdict = IF env.payload = BadPayload THEN "Decompression" ELSE "Opened"
  /\ Admits(Current(tab, ReplayKey(env.sender, env.sender_epoch)), env.counter)
  /\ RecordedAs(tab, E, ReplayKey(env.sender, env.sender_epoch), env.counter,
                env.timestamp_ms, o.guard)

\* open_message does one or the other, whatever the envelope.
LEMMA OpenVerdict ==
  ASSUME NEW tab, NEW env, NEW now_ms, NEW o \in open_message(tab, env, now_ms)
  PROVE  \/ RefusedAt(tab, env, now_ms, o)
         \/ \E E \in SUBSET DOMAIN tab : AdmittedAt(tab, env, now_ms, E, o)
<1> DEFINE key == ReplayKey(env.sender, env.sender_epoch)
           plain == IF env.payload = BadPayload THEN "Decompression" ELSE "Opened"
<1>1. CASE ~env.authentic
  BY <1>1 DEF open_message, Verdict, RefusedAt, Reaches
<1>2. CASE env.authentic /\ TtlTooLong(env)
  BY <1>2 DEF open_message, admit_verified, Verdict, RefusedAt, Reaches
<1>3. CASE env.authentic /\ ~TtlTooLong(env) /\ Expired(env, now_ms)
  BY <1>3 DEF open_message, admit_verified, Verdict, RefusedAt, Reaches
<1>4. CASE env.authentic /\ ~TtlTooLong(env) /\ ~Expired(env, now_ms)
  <2>1. PICK r \in check_and_admit(tab, key, env.counter, env.timestamp_ms, now_ms) :
          o = Verdict(IF r.ok THEN plain ELSE "Replay", r.tab)
    BY <1>4 DEF open_message, admit_verified
  <2>2. o.verdict = (IF r.ok THEN plain ELSE "Replay") /\ o.guard = r.tab
    BY <2>1 DEF Verdict
  <2>3. CASE /\ r.ok = FALSE /\ r.tab = tab
             /\ ~Passes(tab, key, env.counter, env.timestamp_ms, now_ms)
    BY <2>2, <2>3 DEF RefusedAt, Reaches, Passes
  <2>4. CASE /\ r.ok = TRUE /\ Passes(tab, key, env.counter, env.timestamp_ms, now_ms)
             /\ \E E \in SUBSET DOMAIN tab :
                  RecordedAs(tab, E, key, env.counter, env.timestamp_ms, r.tab)
    <3>1. PICK E \in SUBSET DOMAIN tab :
            RecordedAs(tab, E, key, env.counter, env.timestamp_ms, r.tab)
      BY <2>4
    <3>2. AdmittedAt(tab, env, now_ms, E, o)
      BY <1>4, <2>2, <2>4, <3>1 DEF AdmittedAt, Reaches, Passes
    <3> QED
      BY <3>2
  <2> QED
    BY <2>3, <2>4, VerdictShape
<1> QED
  BY <1>1, <1>2, <1>3, <1>4

\* The guard after an admitted message: one window is advanced, the rest of those
\* not evicted are untouched, and all of them are windows in use.
LEMMA AdmittedGuard ==
  ASSUME NEW K, NEW tab \in Maps(K, UsedWindows), NEW env, NEW now_ms \in U64,
         ReplayKey(env.sender, env.sender_epoch) \in K, env.counter \in U64,
         env.timestamp_ms \in Nat, NEW E, NEW o, AdmittedAt(tab, env, now_ms, E, o)
  PROVE  LET key == ReplayKey(env.sender, env.sender_epoch)
         IN  /\ o.guard \in Maps(K, UsedWindows)
             /\ DOMAIN o.guard = (DOMAIN tab \ E) \cup {key}
             /\ \A k \in DOMAIN tab \ E : k # key => o.guard[k] = tab[k]
             /\ o.guard[key] = SeenAt(admit(Current(tab, key), env.counter), env.timestamp_ms)
             /\ admit(Current(tab, key), env.counter) \in Windows
             /\ env.timestamp_ms \in U64
<1> DEFINE key == ReplayKey(env.sender, env.sender_epoch)
           w == Current(tab, key)
           v == admit(w, env.counter)
           after == TableAfter(tab, E, key, env.counter, env.timestamp_ms)
<1>1. DOMAIN tab \subseteq K /\ \A k \in DOMAIN tab : tab[k] \in UsedWindows
  BY MapType
<1>2. Proper(w) /\ Admits(w, env.counter)
  <2>1. Proper(w)
    BY <1>1, NewWindowProper DEF Current, UsedWindows, Proper
  <2> QED
    BY <2>1 DEF AdmittedAt
<1>3. env.timestamp_ms \in U64
  <2>1. env.timestamp_ms <= saturating_add(now_ms, FRESHNESS_WINDOW_MS)
    BY DEF AdmittedAt, Reaches, Fresh
  <2> QED
    BY <2>1, MachineAssumption, TableAssumption DEF saturating_add, U64
<1>4. v \in Windows /\ v.started
  BY <1>2, AdmitType
<1>5. SeenAt(v, env.timestamp_ms) \in UsedWindows
  BY <1>3, <1>4, SeenAtFields DEF UsedWindows
<1>6. o.guard = after
  BY DEF AdmittedAt, RecordedAs
<1>7. after \in [(DOMAIN tab \ E) \cup {key} -> UsedWindows]
  BY <1>1, <1>5 DEF TableAfter
<1>8. (DOMAIN tab \ E) \cup {key} \in SUBSET K
  BY <1>1
<1>9. o.guard \in Maps(K, UsedWindows)
  BY <1>6, <1>7, <1>8, MapIntro
<1>10. /\ DOMAIN o.guard = (DOMAIN tab \ E) \cup {key}
       /\ \A k \in DOMAIN tab \ E : k # key => o.guard[k] = tab[k]
       /\ o.guard[key] = SeenAt(v, env.timestamp_ms)
  BY <1>6 DEF TableAfter
<1> QED
  BY <1>3, <1>4, <1>9, <1>10

\* The endpoint once open_message has returned.
Advanced(e, o) == With(e, e.sessions, e.send_counter, o.guard)

\* What accept returns: a drop with the verdict of open_message, or the reaction to
\* an opened envelope.
AcceptedAs(e, env, now_ms, sealed, o, r) ==
  LET f == Advanced(e, o)
  IN  \/ o.verdict # "Opened" /\ r = Dropped(f, o.verdict)
      \/ o.verdict = "Opened" /\ Ignores(f, env, r)
      \/ /\ o.verdict = "Opened" /\ FromPeer(f, env)
         /\ \/ OnReset(f, env, r) \/ OnOpen(f, env, now_ms, sealed, r)
            \/ OnOther(f, env, now_ms, sealed, r)

\* accept is open_message followed by the reaction, on an endpoint whose guard has
\* been advanced.
LEMMA AcceptShape ==
  ASSUME NEW D, NEW C, NEW e \in Endpoints(D, C), NEW env, env.correlation_id \in C,
         FromPeer(e, env) => SaneHeader(env.stream),
         ReplayKey(env.sender, env.sender_epoch) \in D \X {0}, env.counter \in U64,
         env.timestamp_ms \in Nat, NEW now_ms \in U64, NEW sealed,
         NEW r \in accept(e, env, now_ms, sealed)
  PROVE  \E o \in open_message(e.guard, env, now_ms) :
           /\ Advanced(e, o) \in Endpoints(D, C)
           /\ AcceptedAs(e, env, now_ms, sealed, o, r)
<1>1. PICK o \in open_message(e.guard, env, now_ms) :
        r = IF o.verdict = "Opened"
              THEN AcceptOpened([e EXCEPT !.guard = o.guard], env, now_ms, sealed)
              ELSE Dropped([e EXCEPT !.guard = o.guard], o.verdict)
  BY DEF accept
<1> DEFINE f == Advanced(e, o)
<1>2. f = [e EXCEPT !.guard = o.guard]
  BY DEF Advanced, With, Endpoints
<1>3. e.guard \in Maps(D \X {0}, UsedWindows) /\ e.sessions \in Maps(C, Sessions)
      /\ e.send_counter \in Nat
  BY EndpointType
<1>4. o.guard \in Maps(D \X {0}, UsedWindows)
  <2>1. CASE RefusedAt(e.guard, env, now_ms, o)
    BY <1>3, <2>1 DEF RefusedAt
  <2>2. CASE \E E \in SUBSET DOMAIN e.guard : AdmittedAt(e.guard, env, now_ms, E, o)
    BY <1>3, <2>2, AdmittedGuard
  <2> QED
    BY <2>1, <2>2, OpenVerdict
<1>5. f \in Endpoints(D, C)
  BY <1>3, <1>4, WithType DEF Advanced
<1>6. f.peer_did = e.peer_did
  BY WithFields DEF Advanced
<1>7. CASE o.verdict # "Opened"
  BY <1>1, <1>2, <1>5, <1>7 DEF AcceptedAs
<1>8. CASE o.verdict = "Opened"
  <2>1. r = AcceptOpened(f, env, now_ms, sealed)
    BY <1>1, <1>2, <1>8
  <2>2. FromPeer(f, env) => SaneHeader(env.stream)
    BY <1>6 DEF FromPeer
  <2>3. \/ Ignores(f, env, r)
        \/ /\ FromPeer(f, env)
           /\ OnReset(f, env, r) \/ OnOpen(f, env, now_ms, sealed, r)
              \/ OnOther(f, env, now_ms, sealed, r)
    BY <1>5, <2>1, <2>2, AcceptOpenedShape
  <2> QED
    BY <1>5, <1>8, <2>3 DEF AcceptedAs
<1> QED
  BY <1>7, <1>8
=============================================================================
