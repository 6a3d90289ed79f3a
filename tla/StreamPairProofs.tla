-------------------------- MODULE StreamPairProofs --------------------------
(***************************************************************************)
(* Theorems about two StreamEndpoints that stream to each other, for every *)
(* set of streams, stream caps, grants, window geometry and bounds, over   *)
(* the ordered transport or an untrusted relay.                            *)
(***************************************************************************)
EXTENDS StreamPair, StreamEndpointProofs, SequenceTheorems

\* An endpoint x that is e's: well typed, below its cap, with its counter and the
\* sequence numbers of its streams in step.
Good(e, x) ==
  /\ x \in Endpoints(Ends, Cids)
  /\ x.local_did = e /\ x.peer_did = Peer(e) /\ x.max_concurrent = MaxConcurrent[e]
  /\ x.send_counter <= U64_MAX
  /\ IsFiniteSet(Live(x)) /\ Cardinality(Live(x)) <= MaxConcurrent[e]
  /\ \A c \in Live(x) : x.sessions[c].send_seq <= x.send_counter

\* The envelopes the two ends send.
Letters ==
  [authentic : {TRUE}, sender : Ends, sender_epoch : {0}, shape : {"StreamFrame"},
   correlation_id : Cids, stream : {h \in Headers : h.seq < U64_MAX}, counter : U64,
   timestamp_ms : U64, expires_at : Nat, payload : Nat]

\* The inductive invariant behind the types and the bounds.
Inv ==
  /\ ep \in [Ends -> Endpoints(Ends, Cids)]
  /\ \A e \in Ends : Good(e, ep[e])
  /\ log \in [Ends -> Seq(Letters)]
  /\ \A e \in Ends : \A i \in DOMAIN log[e] : /\ log[e][i].sender = Peer(e)
                                              /\ log[e][i].timestamp_ms <= now
  /\ delivered \in [Ends -> Nat] /\ \A e \in Ends : delivered[e] <= Len(log[e])
  /\ used \in [Ends -> SUBSET Cids] /\ \A e \in Ends : used[e] \subseteq CidsOf[e]
  /\ got \in [Ends -> [Cids -> Seq(Nat)]]
  /\ now \in 1 .. MaxNow /\ failures \in 0 .. MaxSealFailures
  /\ restarted \subseteq Restartable
-----------------------------------------------------------------------------
(***************************************************************************)
(* The two ends and what is between them.                                  *)
(***************************************************************************)

\* The peer of an end is the other end.
LEMMA PeerOf ==
  ASSUME NEW e \in Ends
  PROVE  /\ Peer(e) \in Ends /\ Peer(e) # e /\ Peer(Peer(e)) = e
         /\ Ends = {e, Peer(e)}
  BY PairAssumption DEF Ends, Peer

\* What the transport carries, once a call has sent nothing or one envelope more.
LEMMA Carried ==
  ASSUME NEW L \in Seq(Letters), NEW q, q = <<>> \/ \E l \in Letters : q = <<l>>
  PROVE  /\ L \o q \in Seq(Letters)
         /\ DOMAIN L = 1 .. Len(L) /\ DOMAIN (L \o q) = 1 .. Len(L \o q)
         /\ Len(L) \in Nat /\ Len(L \o q) \in Nat
         /\ q = <<>> => L \o q = L
         /\ q # <<>> => Len(L \o q) = Len(L) + 1 /\ (L \o q)[Len(L) + 1] = q[1]
         /\ \A i \in 1 .. Len(L) : (L \o q)[i] = L[i]
<1>1. CASE q = <<>>
  <2>1. L \o q = L
    BY <1>1, ConcatEmptySeq
  <2> QED
    BY <1>1, <2>1
<1>2. CASE \E l \in Letters : q = <<l>>
  <2>1. PICK l \in Letters : q = <<l>>
    BY <1>2
  <2>2. L \o q = Append(L, l)
    BY <2>1, AppendIsConcat
  <2>3. q # <<>> /\ q[1] = l
    BY <2>1
  <2> QED
    BY <2>2, <2>3, AppendProperties
<1> QED
  BY <1>1, <1>2

\* The fields of an end, at any time.
LEMMA EndTypes ==
  ASSUME Inv, NEW e \in Ends
  PROVE  /\ Good(e, ep[e]) /\ ep[e] \in Endpoints(Ends, Cids)
         /\ ep[e].sessions \in Maps(Cids, Sessions) /\ ep[e].send_counter \in Nat
         /\ ep[e].guard \in Maps(Ends \X {0}, UsedWindows)
         /\ Live(ep[e]) \subseteq Cids
         /\ \A c \in Live(ep[e]) : ep[e].sessions[c] \in Sessions
         /\ \A c \in Live(ep[e]) : ep[e].sessions[c].send_seq <= ep[e].send_counter
         /\ ep[e].local_did = e /\ ep[e].peer_did = Peer(e)
         /\ log[e] \in Seq(Letters)
<1>1. Good(e, ep[e]) /\ ep[e] \in Endpoints(Ends, Cids) /\ log[e] \in Seq(Letters)
  BY DEF Inv
<1>2. /\ ep[e].sessions \in Maps(Cids, Sessions) /\ ep[e].send_counter \in Nat
      /\ ep[e].guard \in Maps(Ends \X {0}, UsedWindows)
  BY <1>1, EndpointType
<1>3. Live(ep[e]) \subseteq Cids /\ \A c \in Live(ep[e]) : ep[e].sessions[c] \in Sessions
  BY <1>2, MapType DEF Live
<1> QED
  BY <1>1, <1>2, <1>3 DEF Good
-----------------------------------------------------------------------------
(***************************************************************************)
(* What a call or an accepted frame does to the table of streams.          *)
(***************************************************************************)

\* A step that leaves every stream of e but c alone, and everything of its peer.
Touches(e, c, n, g) ==
  /\ ep' \in [Ends -> Endpoints(Ends, Cids)]
  /\ Good(e, ep'[e]) /\ ep'[Peer(e)] = ep[Peer(e)]
  /\ ep'[e].send_counter = n /\ ep'[e].guard = g
  /\ \A d \in Cids \ {c} : /\ d \in Live(ep'[e]) <=> d \in Live(ep[e])
                           /\ d \in Live(ep[e]) => ep'[e].sessions[d] = ep[e].sessions[d]

\* The endpoints after a change of one of them.
LEMMA OneEnd ==
  ASSUME Inv, NEW e \in Ends, NEW f \in Endpoints(Ends, Cids), ep' = [ep EXCEPT ![e] = f]
  PROVE  /\ ep' \in [Ends -> Endpoints(Ends, Cids)]
         /\ ep'[e] = f /\ ep'[Peer(e)] = ep[Peer(e)]
<1>1. ep \in [Ends -> Endpoints(Ends, Cids)]
  BY DEF Inv
<1> QED
  BY <1>1, PeerOf

\* A stream is entered or goes on; a new one only below the cap.
LEMMA StoreStream ==
  ASSUME Inv, NEW e \in Ends, NEW c \in Cids, NEW s \in Sessions, NEW n \in Nat,
         ep[e].send_counter <= n, n <= U64_MAX, s.send_seq <= n,
         NEW g \in Maps(Ends \X {0}, UsedWindows), c \in Live(ep[e]) \/ ~Full(ep[e]),
         ep' = [ep EXCEPT ![e] = With(ep[e], Insert(ep[e].sessions, c, s), n, g)]
  PROVE  Touches(e, c, n, g) /\ c \in Live(ep'[e]) /\ ep'[e].sessions[c] = s
<1> DEFINE x == ep[e]
           t == Insert(x.sessions, c, s)
           f == With(x, t, n, g)
<1>1. /\ x \in Endpoints(Ends, Cids) /\ Good(e, x) /\ x.sessions \in Maps(Cids, Sessions)
      /\ x.send_counter \in Nat /\ Live(x) \subseteq Cids
      /\ \A d \in Live(x) : x.sessions[d] \in Sessions /\ x.sessions[d].send_seq <= x.send_counter
  BY EndTypes
<1>2. /\ t \in Maps(Cids, Sessions) /\ DOMAIN t = DOMAIN x.sessions \cup {c} /\ t[c] = s
      /\ \A d \in DOMAIN x.sessions : d # c => t[d] = x.sessions[d]
  <2>1. t \in Maps(Cids, Sessions)
    BY <1>1, InsertMap
  <2> QED
    BY <2>1 DEF Insert
<1>3. f \in Endpoints(Ends, Cids)
  BY <1>1, <1>2, WithType
<1>4. /\ f.sessions = t /\ f.send_counter = n /\ f.guard = g /\ f.local_did = x.local_did
      /\ f.peer_did = x.peer_did /\ f.max_concurrent = x.max_concurrent
  BY <1>1, WithFields
<1>5. Live(f) = Live(x) \cup {c} /\ f.sessions[c] = s
      /\ \A d \in Live(x) : d # c => f.sessions[d] = x.sessions[d]
  BY <1>2, <1>4 DEF Live
<1>6. ASSUME NEW d \in Live(f) PROVE f.sessions[d].send_seq <= f.send_counter
  <2>1. CASE d = c
    BY <1>4, <1>5, <2>1
  <2>2. CASE d # c
    <3>1. d \in Live(x) /\ f.sessions[d] = x.sessions[d]
      BY <1>5, <2>2
    <3>2. x.sessions[d].send_seq \in Nat /\ x.sessions[d].send_seq <= x.send_counter
      BY <1>1, <3>1 DEF Sessions, U64
    <3> QED
      BY <1>1, <1>4, <3>1, <3>2
  <2> QED
    BY <2>1, <2>2
<1>7. IsFiniteSet(Live(f)) /\ Cardinality(Live(f)) <= MaxConcurrent[e]
  <2>1. /\ IsFiniteSet(Live(x)) /\ Cardinality(Live(x)) \in Nat
        /\ Cardinality(Live(x)) <= MaxConcurrent[e] /\ MaxConcurrent[e] \in Nat
        /\ x.max_concurrent = MaxConcurrent[e]
    BY <1>1, PairAssumption, FS_CardinalityType DEF Good
  <2>2. CASE c \in Live(x)
    <3>1. Live(f) = Live(x)
      BY <1>5, <2>2
    <3> QED
      BY <2>1, <3>1
  <2>3. CASE ~Full(x)
    <3>1. Cardinality(Live(x)) + 1 <= MaxConcurrent[e]
      BY <2>1, <2>3 DEF Full
    <3>2. /\ IsFiniteSet(Live(x) \cup {c}) /\ Cardinality(Live(x) \cup {c}) \in Nat
          /\ Cardinality(Live(x) \cup {c}) <= Cardinality(Live(x)) + 1
      BY <2>1, AddOne
    <3>3. Cardinality(Live(x) \cup {c}) <= MaxConcurrent[e]
      BY <2>1, <3>1, <3>2
    <3> QED
      BY <1>5, <3>2, <3>3
  <2> QED
    BY <2>2, <2>3
<1>8. Good(e, f)
  BY <1>1, <1>3, <1>4, <1>6, <1>7 DEF Good
<1>9. ep' \in [Ends -> Endpoints(Ends, Cids)] /\ ep'[e] = f /\ ep'[Peer(e)] = ep[Peer(e)]
  BY <1>3, OneEnd
<1> HIDE DEF f, t
<1> QED
  BY <1>4, <1>5, <1>8, <1>9 DEF Touches, x

\* A stream is gone.
LEMMA DropStream ==
  ASSUME Inv, NEW e \in Ends, NEW c \in Cids, NEW n \in Nat,
         ep[e].send_counter <= n, n <= U64_MAX, NEW g \in Maps(Ends \X {0}, UsedWindows),
         ep' = [ep EXCEPT ![e] = With(ep[e], Remove(ep[e].sessions, c), n, g)]
  PROVE  Touches(e, c, n, g) /\ c \notin Live(ep'[e])
<1> DEFINE x == ep[e]
           t == Remove(x.sessions, c)
           f == With(x, t, n, g)
<1>1. /\ x \in Endpoints(Ends, Cids) /\ Good(e, x) /\ x.sessions \in Maps(Cids, Sessions)
      /\ x.send_counter \in Nat /\ Live(x) \subseteq Cids
      /\ \A d \in Live(x) : x.sessions[d] \in Sessions /\ x.sessions[d].send_seq <= x.send_counter
  BY EndTypes
<1>2. /\ t \in Maps(Cids, Sessions) /\ DOMAIN t = DOMAIN x.sessions \ {c}
      /\ \A d \in DOMAIN x.sessions \ {c} : t[d] = x.sessions[d]
  <2>1. t \in Maps(Cids, Sessions)
    BY <1>1, RemoveMap
  <2> QED
    BY <2>1 DEF Remove, Restrict
<1>3. f \in Endpoints(Ends, Cids)
  BY <1>1, <1>2, WithType
<1>4. /\ f.sessions = t /\ f.send_counter = n /\ f.guard = g /\ f.local_did = x.local_did
      /\ f.peer_did = x.peer_did /\ f.max_concurrent = x.max_concurrent
  BY <1>1, WithFields
<1>5. Live(f) = Live(x) \ {c} /\ \A d \in Live(f) : f.sessions[d] = x.sessions[d]
  BY <1>2, <1>4 DEF Live
<1>6. ASSUME NEW d \in Live(f) PROVE f.sessions[d].send_seq <= f.send_counter
  <2>1. x.sessions[d].send_seq \in Nat /\ x.sessions[d].send_seq <= x.send_counter
    BY <1>1, <1>5 DEF Sessions, U64
  <2> QED
    BY <1>1, <1>4, <1>5, <2>1
<1>7. IsFiniteSet(Live(f)) /\ Cardinality(Live(f)) <= MaxConcurrent[e]
  <2>1. /\ IsFiniteSet(Live(x)) /\ Cardinality(Live(x)) \in Nat
        /\ Cardinality(Live(x)) <= MaxConcurrent[e] /\ MaxConcurrent[e] \in Nat
    BY <1>1, PairAssumption, FS_CardinalityType DEF Good
  <2>2. Live(f) \subseteq Live(x)
    BY <1>5
  <2>3. IsFiniteSet(Live(f)) /\ Cardinality(Live(f)) <= Cardinality(Live(x))
    BY <2>1, <2>2, FS_Subset
  <2>4. Cardinality(Live(f)) \in Nat
    BY <2>3, FS_CardinalityType
  <2> QED
    BY <2>1, <2>3, <2>4
<1>8. Good(e, f)
  BY <1>1, <1>3, <1>4, <1>6, <1>7 DEF Good
<1>9. ep' \in [Ends -> Endpoints(Ends, Cids)] /\ ep'[e] = f /\ ep'[Peer(e)] = ep[Peer(e)]
  BY <1>3, OneEnd
<1> HIDE DEF f, t
<1> QED
  BY <1>4, <1>5, <1>8, <1>9 DEF Touches, x

\* No stream is touched.
LEMMA LeaveStreams ==
  ASSUME Inv, NEW e \in Ends, NEW c \in Cids, NEW n \in Nat,
         ep[e].send_counter <= n, n <= U64_MAX, NEW g \in Maps(Ends \X {0}, UsedWindows),
         ep' = [ep EXCEPT ![e] = With(ep[e], ep[e].sessions, n, g)]
  PROVE  Touches(e, c, n, g) /\ ep'[e].sessions = ep[e].sessions
<1> DEFINE x == ep[e]
           f == With(x, x.sessions, n, g)
<1>1. /\ x \in Endpoints(Ends, Cids) /\ Good(e, x) /\ x.sessions \in Maps(Cids, Sessions)
      /\ x.send_counter \in Nat /\ Live(x) \subseteq Cids
      /\ \A d \in Live(x) : x.sessions[d] \in Sessions /\ x.sessions[d].send_seq <= x.send_counter
  BY EndTypes
<1>2. f \in Endpoints(Ends, Cids)
  BY <1>1, WithType
<1>3. /\ f.sessions = x.sessions /\ f.send_counter = n /\ f.guard = g
      /\ f.local_did = x.local_did /\ f.peer_did = x.peer_did
      /\ f.max_concurrent = x.max_concurrent
  BY <1>1, WithFields
<1>4. ASSUME NEW d \in Live(x) PROVE x.sessions[d].send_seq <= n
  <2>1. x.sessions[d].send_seq \in Nat /\ x.sessions[d].send_seq <= x.send_counter
    BY <1>1 DEF Sessions, U64
  <2> QED
    BY <1>1, <2>1
<1>5. Live(f) = Live(x)
  BY <1>3 DEF Live
<1>6. Good(e, f)
  BY <1>1, <1>2, <1>3, <1>4, <1>5 DEF Good
<1>7. ep' \in [Ends -> Endpoints(Ends, Cids)] /\ ep'[e] = f /\ ep'[Peer(e)] = ep[Peer(e)]
  BY <1>2, OneEnd
<1> HIDE DEF f
<1> QED
  BY <1>3, <1>5, <1>6, <1>7 DEF Touches, x
-----------------------------------------------------------------------------
(***************************************************************************)
(* What a step of one end does to the stream it is about.                  *)
(***************************************************************************)

\* An envelope e posts on stream c: it uses up one counter.
Posted(e, c, l) ==
  /\ l.sender = e /\ l.correlation_id = c /\ l.timestamp_ms = now
  /\ l.counter = ep[e].send_counter /\ ep'[e].send_counter = ep[e].send_counter + 1

\* A closed session is kept only where it was there, or a CLOSE or RESET failed to
\* be sealed.
Tidy(e, c) ==
  (c \in Live(ep'[e]) /\ is_closed(ep'[e].sessions[c]))
    => \/ c \in Live(ep[e]) /\ is_closed(ep[e].sessions[c])
       \/ failures' = failures + 1 /\ FailingFrames \cap {CLOSE, RESET} # {}

\* e does something to stream c and posts q: nothing, or one envelope.
Acts(e, c, q) ==
  /\ Touches(e, c, ep'[e].send_counter, ep'[e].guard)
  /\ ep[e].send_counter <= ep'[e].send_counter
  /\ log' = [log EXCEPT ![Peer(e)] = @ \o q]
  /\ q = <<>> \/ \E l \in Letters : q = <<l>> /\ Posted(e, c, l)
  /\ Tidy(e, c)
  /\ now' = now /\ restarted' = restarted

\* Neither sequence number of the stream changes, and no DATA or OPEN is posted.
Minor(e, c, q) ==
  /\ c \in Live(ep'[e]) => /\ c \in Live(ep[e])
                           /\ ep'[e].sessions[c].send_seq = ep[e].sessions[c].send_seq
                           /\ ep'[e].sessions[c].recv_seq = ep[e].sessions[c].recv_seq
  /\ q # <<>> => q[1].stream.frame \notin {OPEN, DATA}
  /\ got' = got /\ used' = used

\* A chunk is numbered and, unless sealing fails, posted.
Speaks(e, c, q) ==
  /\ c \in Live(ep[e]) /\ c \in Live(ep'[e])
  /\ ep'[e].sessions[c].send_seq = ep[e].sessions[c].send_seq + 1
  /\ ep'[e].sessions[c].recv_seq = ep[e].sessions[c].recv_seq
  /\ q # <<>> => /\ q[1].stream.frame = DATA
                 /\ q[1].stream.seq = ep[e].sessions[c].send_seq
                 /\ q[1].payload = Chunks(e, c) + 1
  /\ got' = got /\ used' = used

\* The stream is new.
Begins(e, c) ==
  c \in Live(ep'[e]) => ep'[e].sessions[c].send_seq = 0 /\ ep'[e].sessions[c].recv_seq = 0

\* e opens the stream.
Opens(e, c, q) ==
  /\ c \in CidsOf[e] \ used[e] /\ used' = [used EXCEPT ![e] = @ \cup {c}]
  /\ Begins(e, c)
  /\ q # <<>> => q[1].stream.frame = OPEN
  /\ got' = got

\* e lets in envelope i of those sent to it, so that its guard never will again.
LetsIn(e, i) ==
  /\ i \in DOMAIN log[e]
  /\ Admits(Current(ep[e].guard, <<Peer(e), 0>>), log[e][i].counter)
  /\ WideUsize => ~Admits(Current(ep'[e].guard, <<Peer(e), 0>>), log[e][i].counter)

\* e learns of a stream its peer opened.
Answers(e, c, q) ==
  /\ \E i \in DOMAIN log[e] : /\ log[e][i].correlation_id = c
                              /\ log[e][i].stream.frame = OPEN
                              /\ LetsIn(e, i)
  /\ Begins(e, c)
  /\ q = <<>> /\ got' = got /\ used' = used

\* e gets the next chunk of a stream.
Hears(e, c, q) ==
  /\ c \in Live(ep[e])
  /\ \E i \in DOMAIN log[e] :
       /\ log[e][i].correlation_id = c /\ log[e][i].stream.frame = DATA
       /\ log[e][i].stream.seq = ep[e].sessions[c].recv_seq
       /\ got' = [got EXCEPT ![e][c] = Append(@, log[e][i].payload)]
  /\ c \in Live(ep'[e]) =>
       /\ ep'[e].sessions[c].send_seq = ep[e].sessions[c].send_seq
       /\ ep'[e].sessions[c].recv_seq = ep[e].sessions[c].recv_seq + 1
  /\ q = <<>> /\ used' = used

\* What seal_frame hands to the caller to send.
Carries(e, c, hdr, y, q) ==
  \/ q = <<>>
  \/ \E l \in Letters : /\ q = <<l>> /\ l.stream = hdr /\ l.payload = y
                        /\ l.sender = e /\ l.correlation_id = c /\ l.timestamp_ms = now
                        /\ l.counter = ep[e].send_counter

\* A sealed frame is an envelope like any other, with its sender's next counter.
LEMMA SealedCarries ==
  ASSUME Inv, NEW e \in Ends, NEW c \in Cids, NEW hdr \in Headers, hdr.seq < U64_MAX,
         NEW y \in Nat, NEW x \in Expiries \cup {0}, NEW sealed \in BOOLEAN
  PROVE  Carries(e, c, hdr, y, Sends(ep[e], c, hdr, y, now, x, sealed))
<1> DEFINE l == Sealed(ep[e], c, hdr, y, now, x)
<1>1. /\ ep[e].local_did = e /\ ep[e].local_epoch = 0 /\ ep[e].send_counter \in U64
  <2>1. Good(e, ep[e]) /\ ep[e].send_counter \in Nat
    BY EndTypes
  <2> QED
    BY <2>1, MachineAssumption DEF Good, Endpoints, U64
<1>2. now \in U64
  BY PairAssumption, MachineAssumption DEF Inv, U64
<1>3. x \in Nat
  <2>1. now \in Nat /\ TTLs \subseteq Nat
    BY PairAssumption DEF Inv
  <2> QED
    BY <2>1 DEF Expiries
<1>4. l = [authentic |-> TRUE, sender |-> e, sender_epoch |-> 0, shape |-> "StreamFrame",
           correlation_id |-> c, stream |-> hdr, counter |-> ep[e].send_counter,
           timestamp_ms |-> now, expires_at |-> x, payload |-> y]
  BY <1>1 DEF Sealed
<1> HIDE DEF l
<1>5. l \in Letters
  BY <1>1, <1>2, <1>3, <1>4 DEF Letters
<1>6. /\ l.stream = hdr /\ l.payload = y /\ l.sender = e /\ l.correlation_id = c
      /\ l.timestamp_ms = now /\ l.counter = ep[e].send_counter
  BY <1>4
<1>7. CASE sealed
  <2>1. Sends(ep[e], c, hdr, y, now, x, sealed) = <<l>>
    BY <1>7 DEF Sends, l
  <2> QED
    BY <1>5, <1>6, <2>1 DEF Carries
<1>8. CASE ~sealed
  BY <1>8 DEF Sends, Carries
<1> QED
  BY <1>7, <1>8

\* The step of a call that seals hdr and y.
ActsWith(e, c, hdr, y, q) ==
  /\ Acts(e, c, q)
  /\ q # <<>> => q[1].stream = hdr /\ q[1].payload = y

\* A step that uses up a counter, posts what it sealed with it and touches stream c
\* is a step about c.
LEMMA PostActs ==
  ASSUME Inv, NEW e \in Ends, NEW c \in Cids, NEW hdr, NEW y, NEW q,
         Carries(e, c, hdr, y, q), Touches(e, c, ep[e].send_counter + 1, ep'[e].guard),
         log' = [log EXCEPT ![Peer(e)] = @ \o q], Tidy(e, c),
         now' = now, restarted' = restarted
  PROVE  ActsWith(e, c, hdr, y, q)
<1>1. ep'[e].send_counter = ep[e].send_counter + 1
  BY DEF Touches
<1>2. ep[e].send_counter \in Nat
  BY EndTypes
<1>3. Touches(e, c, ep'[e].send_counter, ep'[e].guard)
  BY <1>1
<1>4. q = <<>> \/ \E l \in Letters : q = <<l>> /\ Posted(e, c, l)
  BY <1>1 DEF Carries, Posted
<1>5. q # <<>> => q[1].stream = hdr /\ q[1].payload = y
  BY DEF Carries
<1> QED
  BY <1>1, <1>2, <1>3, <1>4, <1>5 DEF Acts, ActsWith

\* The same for a call, which leaves the guard alone.
LEMMA CallActs ==
  ASSUME Inv, NEW e \in Ends, NEW c \in Cids, NEW hdr, NEW y, NEW q,
         Carries(e, c, hdr, y, q), Touches(e, c, ep[e].send_counter + 1, ep[e].guard),
         log' = [log EXCEPT ![Peer(e)] = @ \o q], Tidy(e, c),
         now' = now, restarted' = restarted
  PROVE  ActsWith(e, c, hdr, y, q)
<1>1. ep'[e].guard = ep[e].guard
  BY DEF Touches
<1>2. Touches(e, c, ep[e].send_counter + 1, ep'[e].guard)
  BY <1>1
<1> QED
  BY <1>2, PostActs

\* The chunks of a stream that were posted: their envelopes among those sent to e.
DataOf(e, c, L) == {i \in DOMAIN L : L[i].correlation_id = c /\ L[i].stream.frame = DATA}

\* They are finitely many.
LEMMA ChunksType ==
  ASSUME NEW L \in Seq(Letters), NEW c, NEW e
  PROVE  IsFiniteSet(DataOf(e, c, L)) /\ Cardinality(DataOf(e, c, L)) \in Nat
<1>1. DOMAIN L = 1 .. Len(L) /\ Len(L) \in Nat
  OBVIOUS
<1>2. IsFiniteSet(1 .. Len(L))
  BY <1>1, FS_Interval
<1>3. DataOf(e, c, L) \subseteq 1 .. Len(L)
  BY <1>1 DEF DataOf
<1>4. IsFiniteSet(DataOf(e, c, L))
  BY <1>2, <1>3, FS_Subset
<1> QED
  BY <1>4, FS_CardinalityType

\* A call is made while the counter is below its bound.
LEMMA OneMore ==
  ASSUME Inv, NEW e \in Ends, ep[e].send_counter < MaxFrames[e] \/ ep[e].send_counter < U64_MAX
  PROVE  /\ ep[e].send_counter + 1 \in Nat /\ ep[e].send_counter <= ep[e].send_counter + 1
         /\ ep[e].send_counter + 1 <= U64_MAX /\ ep[e].send_counter <= U64_MAX
<1>1. ep[e].send_counter \in Nat /\ MaxFrames[e] \in U64
  BY EndTypes, PairAssumption
<1> QED
  BY <1>1, MachineAssumption DEF U64

\* The failed seals are counted up to their bound, and only some kinds fail.
LEMMA SealingCounts ==
  ASSUME Inv, NEW frame, NEW sealed \in BOOLEAN, Sealing(frame, sealed)
  PROVE  failures' \in 0 .. MaxSealFailures /\ (~sealed => frame \in FailingFrames)
  BY PairAssumption DEF Inv, Sealing

\* What every call of the application at e on stream c comes to.
Called(e, c) ==
  /\ \E q : Acts(e, c, q) /\ (Minor(e, c, q) \/ Speaks(e, c, q) \/ Opens(e, c, q))
  /\ ep'[e].guard = ep[e].guard
  /\ delivered' = delivered /\ failures' \in 0 .. MaxSealFailures

\* open enters a stream that was never opened before.
LEMMA OpenCalls ==
  ASSUME Inv, NEW e \in Ends, NEW c \in Cids, NEW w \in Grants, NEW x \in Expiries,
         NEW sealed \in BOOLEAN, Open(e, c, w, x, sealed)
  PROVE  Called(e, c)
<1> DEFINE r == open(ep[e], c, w, now, x, sealed)
           s == initiator(w)
           n == ep[e].send_counter + 1
<1>1. w \in U32 /\ w \in U64 /\ 0 \in U64 /\ w \in Nat
  BY PairAssumption, MachineAssumption DEF U32, U64
<1>2. /\ ep[e] \in Endpoints(Ends, Cids) /\ ep[e].guard \in Maps(Ends \X {0}, UsedWindows)
  BY EndTypes
<1>3. n \in Nat /\ ep[e].send_counter <= n /\ n <= U64_MAX
  BY OneMore DEF Open, Call
<1>4. s \in Sessions /\ s.send_seq = 0 /\ s.recv_seq = 0 /\ ~is_closed(s)
  BY <1>1 DEF initiator, NewSession, Sessions, is_closed
<1>5. /\ r.ep = With(ep[e], Insert(ep[e].sessions, c, s), n, ep[e].guard)
      /\ r.sent = Sends(ep[e], c, header(OPEN, 0, w), 0, now, x, sealed)
  BY <1>2, StoreAndSeal DEF open
<1>6. ep' = [ep EXCEPT ![e] = r.ep] /\ log' = [log EXCEPT ![Peer(e)] = @ \o r.sent]
  BY DEF Open, Returns
<1>7. s.send_seq <= n /\ ~Full(ep[e])
  BY <1>3, <1>4 DEF Open, CanOpen
<1>8. Touches(e, c, n, ep[e].guard) /\ c \in Live(ep'[e]) /\ ep'[e].sessions[c] = s
  <2>1. ep' = [ep EXCEPT ![e] = With(ep[e], Insert(ep[e].sessions, c, s), n, ep[e].guard)]
    BY <1>5, <1>6
  <2> HIDE DEF s, n
  <2> QED
    BY <1>2, <1>3, <1>4, <1>7, <2>1, StoreStream
<1>9. header(OPEN, 0, w) \in Headers /\ header(OPEN, 0, w).seq < U64_MAX
      /\ header(OPEN, 0, w).frame = OPEN
  BY <1>1, <1>3, EndTypes, MachineAssumption DEF header, Headers, KnownFrames, OPEN, RESET
<1>10. Carries(e, c, header(OPEN, 0, w), 0, r.sent)
  BY <1>5, <1>9, SealedCarries
<1>11. Tidy(e, c)
  BY <1>4, <1>8 DEF Tidy
<1>12. /\ now' = now /\ restarted' = restarted /\ got' = got /\ delivered' = delivered
       /\ used' = [used EXCEPT ![e] = @ \cup {c}] /\ c \in CidsOf[e] \ used[e]
       /\ Sealing(OPEN, sealed)
  BY DEF Open, Call
<1>13. ActsWith(e, c, header(OPEN, 0, w), 0, r.sent)
  <2> HIDE DEF r
  <2> QED
    BY <1>6, <1>8, <1>10, <1>11, <1>12, CallActs
<1>14. Opens(e, c, r.sent)
  BY <1>4, <1>8, <1>9, <1>12, <1>13 DEF Opens, Begins, ActsWith
<1>15. ep'[e].guard = ep[e].guard /\ failures' \in 0 .. MaxSealFailures
  BY <1>8, <1>12, SealingCounts DEF Touches
<1> QED
  BY <1>12, <1>13, <1>14, <1>15 DEF Called, ActsWith

\* A call that leaves the sequence numbers of a live stream as they are, its session
\* being s afterwards.
LEMMA CallMinor ==
  ASSUME Inv, NEW e \in Ends, NEW c \in Cids, c \in Live(ep[e]), NEW hdr \in Headers,
         hdr.seq < U64_MAX, hdr.frame \notin {OPEN, DATA}, NEW x \in Expiries,
         NEW sealed \in BOOLEAN, Call(e, hdr.frame, sealed), used' = used,
         log' = [log EXCEPT ![Peer(e)] = @ \o Sends(ep[e], c, hdr, 0, now, x, sealed)],
         Touches(e, c, ep[e].send_counter + 1, ep[e].guard), Tidy(e, c),
         c \in Live(ep'[e]) =>
           /\ ep'[e].sessions[c].send_seq = ep[e].sessions[c].send_seq
           /\ ep'[e].sessions[c].recv_seq = ep[e].sessions[c].recv_seq
  PROVE  Called(e, c)
<1> DEFINE q == Sends(ep[e], c, hdr, 0, now, x, sealed)
<1>1. Carries(e, c, hdr, 0, q)
  BY SealedCarries
<1>2. /\ now' = now /\ restarted' = restarted /\ got' = got /\ delivered' = delivered
      /\ Sealing(hdr.frame, sealed)
  BY DEF Call
<1> HIDE DEF q
<1>3. log' = [log EXCEPT ![Peer(e)] = @ \o q]
  BY DEF q
<1>4. ActsWith(e, c, hdr, 0, q)
  BY <1>1, <1>2, <1>3, CallActs
<1>5. Minor(e, c, q)
  BY <1>2, <1>4 DEF Minor, ActsWith
<1>6. ep'[e].guard = ep[e].guard /\ failures' \in 0 .. MaxSealFailures
  BY <1>2, SealingCounts DEF Touches
<1> QED
  BY <1>2, <1>4, <1>5, <1>6 DEF Called, ActsWith

\* A header without a sequence number, of a kind other than OPEN and DATA.
LEMMA PlainHeader ==
  ASSUME NEW f \in {OPEN_ACK, CREDIT, CLOSE, RESET}, NEW w \in U32, U64_MAX > 0
  PROVE  /\ header(f, 0, w) \in Headers /\ header(f, 0, w).seq < U64_MAX
         /\ header(f, 0, w).frame = f /\ f \notin {OPEN, DATA}
<1>1. 0 \in U64
  BY MachineAssumption DEF U64
<1>2. f \in KnownFrames /\ f \notin {OPEN, DATA}
  BY DEF KnownFrames, OPEN, OPEN_ACK, DATA, CREDIT, CLOSE, RESET
<1> QED
  BY <1>1, <1>2 DEF header, Headers

\* What a call on a live stream finds.
LEMMA CallFinds ==
  ASSUME Inv, NEW e \in Ends, NEW c, c \in Live(ep[e]), NEW frame, NEW sealed,
         Call(e, frame, sealed)
  PROVE  /\ ep[e] \in Endpoints(Ends, Cids) /\ ep[e].guard \in Maps(Ends \X {0}, UsedWindows)
         /\ ep[e].sessions[c] \in Sessions /\ ep[e].sessions[c].send_seq \in Nat
         /\ ep[e].sessions[c].send_seq <= ep[e].send_counter /\ ep[e].send_counter \in Nat
         /\ ep[e].send_counter + 1 \in Nat /\ ep[e].send_counter <= ep[e].send_counter + 1
         /\ ep[e].send_counter + 1 <= U64_MAX /\ 0 < U64_MAX
         /\ ep[e].sessions[c].send_seq <= ep[e].send_counter + 1
<1>1. ep[e].send_counter < MaxFrames[e]
  BY DEF Call
<1>2. /\ ep[e] \in Endpoints(Ends, Cids) /\ ep[e].guard \in Maps(Ends \X {0}, UsedWindows)
      /\ ep[e].sessions[c] \in Sessions /\ ep[e].sessions[c].send_seq <= ep[e].send_counter
      /\ ep[e].send_counter \in Nat
  BY EndTypes
<1>3. ep[e].sessions[c].send_seq \in Nat
  BY <1>2 DEF Sessions, U64
<1>4. /\ ep[e].send_counter + 1 \in Nat /\ ep[e].send_counter <= ep[e].send_counter + 1
      /\ ep[e].send_counter + 1 <= U64_MAX
  BY <1>1, OneMore
<1> QED
  BY <1>2, <1>3, <1>4, MachineAssumption

\* open_ack, grant_credit: the session is replaced by s.
LEMMA CallReplaces ==
  ASSUME Inv, NEW e \in Ends, NEW c \in Cids, c \in Live(ep[e]), NEW hdr \in Headers,
         hdr.seq < U64_MAX, hdr.frame \notin {OPEN, DATA}, NEW x \in Expiries,
         NEW sealed \in BOOLEAN, Call(e, hdr.frame, sealed), used' = used,
         NEW s \in Sessions, s.send_seq = ep[e].sessions[c].send_seq,
         s.recv_seq = ep[e].sessions[c].recv_seq,
         is_closed(s) <=> is_closed(ep[e].sessions[c]),
         Returns(e, seal_frame(WithSession(ep[e], c, s), c, hdr, 0, now, x, sealed))
  PROVE  Called(e, c)
<1> DEFINE r == seal_frame(WithSession(ep[e], c, s), c, hdr, 0, now, x, sealed)
           n == ep[e].send_counter + 1
<1>1. /\ ep[e] \in Endpoints(Ends, Cids) /\ ep[e].guard \in Maps(Ends \X {0}, UsedWindows)
      /\ n \in Nat /\ ep[e].send_counter <= n /\ n <= U64_MAX
      /\ ep[e].sessions[c].send_seq <= n
  BY CallFinds
<1>2. /\ r.ep = With(ep[e], Insert(ep[e].sessions, c, s), n, ep[e].guard)
      /\ r.sent = Sends(ep[e], c, hdr, 0, now, x, sealed)
  BY <1>1, StoreAndSeal
<1>3. /\ ep' = [ep EXCEPT ![e] = With(ep[e], Insert(ep[e].sessions, c, s), n, ep[e].guard)]
      /\ log' = [log EXCEPT ![Peer(e)] = @ \o Sends(ep[e], c, hdr, 0, now, x, sealed)]
  BY <1>2 DEF Returns
<1>4. Touches(e, c, n, ep[e].guard) /\ c \in Live(ep'[e]) /\ ep'[e].sessions[c] = s
  <2> HIDE DEF n
  <2> QED
    BY <1>1, <1>3, StoreStream, ZenonT(40)
<1>5. Tidy(e, c)
  BY <1>4 DEF Tidy
<1> QED
  BY <1>3, <1>4, <1>5, CallMinor

\* open_ack changes neither sequence number.
LEMMA OpenAckCalls ==
  ASSUME Inv, NEW e \in Ends, NEW c \in Cids, NEW w \in Grants, NEW x \in Expiries,
         NEW sealed \in BOOLEAN, OpenAck(e, c, w, x, sealed)
  PROVE  Called(e, c)
<1> DEFINE s == build_open_ack(ep[e].sessions[c], w)
           hdr == header(OPEN_ACK, 0, w)
<1>1. /\ c \in Live(ep[e]) /\ Call(e, OPEN_ACK, sealed) /\ used' = used
      /\ Returns(e, seal_frame(WithSession(ep[e], c, s), c, hdr, 0, now, x, sealed))
  BY DEF OpenAck, open_ack
<1>2. w \in U32 /\ w \in U64
  BY PairAssumption, MachineAssumption DEF U32, U64
<1>3. ep[e].sessions[c] \in Sessions /\ 0 < U64_MAX
  BY <1>1, CallFinds
<1>4. /\ s \in Sessions /\ s.send_seq = ep[e].sessions[c].send_seq
      /\ s.recv_seq = ep[e].sessions[c].recv_seq
      /\ is_closed(s) <=> is_closed(ep[e].sessions[c])
  BY <1>2, <1>3 DEF build_open_ack, Sessions, is_closed
<1>5. hdr \in Headers /\ hdr.seq < U64_MAX /\ hdr.frame = OPEN_ACK /\ OPEN_ACK \notin {OPEN, DATA}
  BY <1>2, <1>3, PlainHeader
<1> HIDE DEF s, hdr
<1> QED
  BY <1>1, <1>4, <1>5, CallReplaces

\* grant_credit changes neither sequence number.
LEMMA GrantCreditCalls ==
  ASSUME Inv, NEW e \in Ends, NEW c \in Cids, NEW n \in Grants, NEW x \in Expiries,
         NEW sealed \in BOOLEAN, GrantCredit(e, c, n, x, sealed)
  PROVE  Called(e, c)
<1> DEFINE s == build_credit(ep[e].sessions[c], n)
           hdr == header(CREDIT, 0, n)
<1>1. /\ c \in Live(ep[e]) /\ Call(e, CREDIT, sealed) /\ used' = used
      /\ Returns(e, seal_frame(WithSession(ep[e], c, s), c, hdr, 0, now, x, sealed))
  BY DEF GrantCredit, grant_credit
<1>2. n \in U32 /\ n \in Nat
  BY PairAssumption, MachineAssumption DEF U32, U64
<1>3. ep[e].sessions[c] \in Sessions /\ 0 < U64_MAX
  BY <1>1, CallFinds
<1>4. saturating_add(ep[e].sessions[c].recv_window_remaining, n) \in U64
  BY <1>2, <1>3, MachineAssumption DEF saturating_add, Sessions, U64
<1>5. /\ s \in Sessions /\ s.send_seq = ep[e].sessions[c].send_seq
      /\ s.recv_seq = ep[e].sessions[c].recv_seq
      /\ is_closed(s) <=> is_closed(ep[e].sessions[c])
  BY <1>3, <1>4 DEF build_credit, Sessions, is_closed
<1>6. hdr \in Headers /\ hdr.seq < U64_MAX /\ hdr.frame = CREDIT /\ CREDIT \notin {OPEN, DATA}
  BY <1>2, <1>3, PlainHeader
<1> HIDE DEF s, hdr
<1> QED
  BY <1>1, <1>5, <1>6, CallReplaces

\* send_data takes the next sequence number, sealed or not.
LEMMA SendDataCalls ==
  ASSUME Inv, NEW e \in Ends, NEW c \in Cids, NEW x \in Expiries, NEW sealed \in BOOLEAN,
         SendData(e, c, x, sealed)
  PROVE  Called(e, c)
<1> DEFINE s == ep[e].sessions[c]
           t == build_data(s)
           y == Chunks(e, c) + 1
           hdr == header(DATA, s.send_seq, 0)
           n == ep[e].send_counter + 1
           q == Sends(ep[e], c, hdr, y, now, x, sealed)
<1>1. /\ c \in Live(ep[e]) /\ CanSendData(s) /\ Call(e, DATA, sealed) /\ used' = used
      /\ Returns(e, seal_frame(WithSession(ep[e], c, t), c, hdr, y, now, x, sealed))
  BY DEF SendData, send_data
<1>2. /\ ep[e] \in Endpoints(Ends, Cids) /\ ep[e].guard \in Maps(Ends \X {0}, UsedWindows)
      /\ s \in Sessions /\ s.send_seq \in Nat /\ s.send_seq <= ep[e].send_counter
      /\ ep[e].send_counter \in Nat /\ n \in Nat /\ ep[e].send_counter <= n /\ n <= U64_MAX
  BY <1>1, CallFinds
<1>3. s.send_seq + 1 \in U64 /\ s.send_credit - 1 \in U64 /\ s.send_seq + 1 <= n
      /\ s.send_seq < U64_MAX
  BY <1>1, <1>2, MachineAssumption DEF CanSendData, Sessions, U64
<1>4. /\ t \in Sessions /\ t.send_seq = s.send_seq + 1 /\ t.recv_seq = s.recv_seq
      /\ is_closed(t) <=> is_closed(s)
  BY <1>2, <1>3 DEF build_data, Sessions, is_closed
<1>5. y \in Nat
  <2>1. log[Peer(e)] \in Seq(Letters)
    BY PeerOf, EndTypes
  <2>2. Chunks(e, c) = Cardinality(DataOf(Peer(e), c, log[Peer(e)]))
    BY DEF Chunks, DataOf
  <2>3. Chunks(e, c) \in Nat
    BY <2>1, <2>2, ChunksType
  <2> QED
    BY <2>3
<1>6. hdr \in Headers /\ hdr.seq = s.send_seq /\ hdr.frame = DATA
  <2>1. DATA \in KnownFrames /\ 0 \in U32 /\ s.send_seq \in U64
    BY <1>2, MachineAssumption DEF KnownFrames, OPEN, DATA, RESET, U32, U64, Sessions
  <2> QED
    BY <2>1 DEF header, Headers
<1>7. /\ ep' = [ep EXCEPT ![e] = With(ep[e], Insert(ep[e].sessions, c, t), n, ep[e].guard)]
      /\ log' = [log EXCEPT ![Peer(e)] = @ \o q]
  <2> DEFINE r == seal_frame(WithSession(ep[e], c, t), c, hdr, y, now, x, sealed)
  <2>1. /\ r.ep = With(ep[e], Insert(ep[e].sessions, c, t), n, ep[e].guard)
        /\ r.sent = q
    <3> HIDE DEF t, hdr, y
    <3> QED
      BY <1>2, StoreAndSeal
  <2> QED
    BY <1>1, <2>1 DEF Returns
<1>8. Touches(e, c, n, ep[e].guard) /\ c \in Live(ep'[e]) /\ ep'[e].sessions[c] = t
  <2>1. t.send_seq <= n
    BY <1>3, <1>4
  <2> HIDE DEF n, t
  <2> QED
    BY <1>1, <1>2, <1>4, <1>7, <2>1, StoreStream
<1>9. Tidy(e, c)
  BY <1>1, <1>4, <1>8 DEF Tidy
<1>10. Carries(e, c, hdr, y, q)
  <2> HIDE DEF hdr, y
  <2> QED
    BY <1>3, <1>5, <1>6, SealedCarries
<1>11. /\ now' = now /\ restarted' = restarted /\ got' = got /\ delivered' = delivered
       /\ Sealing(DATA, sealed)
  BY <1>1 DEF Call
<1>12. ActsWith(e, c, hdr, y, q)
  <2> HIDE DEF hdr, y, q
  <2> QED
    BY <1>7, <1>8, <1>9, <1>10, <1>11, CallActs
<1>13. Speaks(e, c, q)
  <2> HIDE DEF hdr, q
  <2> QED
    BY <1>1, <1>4, <1>6, <1>8, <1>11, <1>12 DEF Speaks, ActsWith
<1>14. ep'[e].guard = ep[e].guard /\ failures' \in 0 .. MaxSealFailures
  BY <1>8, <1>11, SealingCounts DEF Touches
<1> QED
  BY <1>11, <1>12, <1>13, <1>14 DEF Called, ActsWith

\* close keeps the stream, half closed, or drops it.
LEMMA CloseCalls ==
  ASSUME Inv, NEW e \in Ends, NEW c \in Cids, NEW x \in Expiries, NEW sealed \in BOOLEAN,
         Close(e, c, x, sealed)
  PROVE  Called(e, c)
<1> DEFINE s == ep[e].sessions[c]
           t == build_close(s)
           hdr == header(CLOSE, 0, 0)
           n == ep[e].send_counter + 1
           r == close(ep[e], c, now, x, sealed)
<1>1. c \in Live(ep[e]) /\ Call(e, CLOSE, sealed) /\ used' = used /\ Returns(e, r)
  BY DEF Close
<1>2. /\ ep[e] \in Endpoints(Ends, Cids) /\ ep[e].guard \in Maps(Ends \X {0}, UsedWindows)
      /\ s \in Sessions /\ s.send_seq <= n
      /\ n \in Nat /\ ep[e].send_counter <= n /\ n <= U64_MAX /\ 0 < U64_MAX
  BY <1>1, CallFinds
<1>3. t \in Sessions /\ t.send_seq = s.send_seq /\ t.recv_seq = s.recv_seq
  BY <1>2 DEF build_close, Sessions
<1>4. Seals(ep[e], c, hdr, now, x, sealed, Settled(ep[e].sessions, c, t),
            Insert(ep[e].sessions, c, t), r)
  BY <1>2, <1>3, CloseShape
<1>5. hdr \in Headers /\ hdr.seq < U64_MAX /\ hdr.frame = CLOSE /\ CLOSE \notin {OPEN, DATA}
  <2>1. 0 \in U32
    BY MachineAssumption DEF U32, U64
  <2> QED
    BY <1>2, <2>1, PlainHeader
<1>6. log' = [log EXCEPT ![Peer(e)] = @ \o Sends(ep[e], c, hdr, 0, now, x, sealed)]
      /\ ep' = [ep EXCEPT ![e] = r.ep]
  BY <1>1, <1>4 DEF Seals, Returns
<1>7. ~sealed => CLOSE \in FailingFrames /\ failures' = failures + 1
  BY <1>1 DEF Call, Sealing
<1> HIDE DEF t, hdr, r, n
<1>8. CASE sealed /\ is_closed(t)
  <2>1. r.ep = With(ep[e], Remove(ep[e].sessions, c), n, ep[e].guard)
    BY <1>4, <1>8 DEF Seals, Settled, n
  <2>2. Touches(e, c, n, ep[e].guard) /\ c \notin Live(ep'[e])
    BY <1>2, <1>6, <2>1, DropStream
  <2>3. Tidy(e, c)
    BY <2>2 DEF Tidy
  <2> QED
    BY <1>1, <1>5, <1>6, <2>2, <2>3, CallMinor DEF n
<1>9. CASE ~(sealed /\ is_closed(t))
  <2>1. r.ep = With(ep[e], Insert(ep[e].sessions, c, t), n, ep[e].guard)
    BY <1>4, <1>9 DEF Seals, Settled, n
  <2>2. Touches(e, c, n, ep[e].guard) /\ c \in Live(ep'[e]) /\ ep'[e].sessions[c] = t
    <3>1. t.send_seq <= n
      BY <1>2, <1>3
    <3>2. ep' = [ep EXCEPT ![e] = With(ep[e], Insert(ep[e].sessions, c, t), n, ep[e].guard)]
      BY <1>6, <2>1
    <3> QED
      BY <1>1, <1>2, <1>3, <3>1, <3>2, StoreStream
  <2>3. Tidy(e, c)
    BY <1>7, <1>9, <2>2 DEF Tidy
  <2> QED
    BY <1>1, <1>3, <1>5, <1>6, <2>2, <2>3, CallMinor DEF n
<1> QED
  BY <1>8, <1>9

\* reset drops the stream once the RESET is sealed.
LEMMA CancelCalls ==
  ASSUME Inv, NEW e \in Ends, NEW c \in Cids, NEW x \in Expiries, NEW sealed \in BOOLEAN,
         Cancel(e, c, x, sealed)
  PROVE  Called(e, c)
<1> DEFINE s == ep[e].sessions[c]
           t == build_reset(s)
           hdr == header(RESET, 0, 0)
           n == ep[e].send_counter + 1
           r == reset(ep[e], c, now, x, sealed)
<1>1. c \in Live(ep[e]) /\ Call(e, RESET, sealed) /\ used' = used /\ Returns(e, r)
  BY DEF Cancel
<1>2. /\ ep[e] \in Endpoints(Ends, Cids) /\ ep[e].guard \in Maps(Ends \X {0}, UsedWindows)
      /\ s \in Sessions /\ s.send_seq <= n
      /\ n \in Nat /\ ep[e].send_counter <= n /\ n <= U64_MAX /\ 0 < U64_MAX
  BY <1>1, CallFinds
<1>3. t \in Sessions /\ t.send_seq = s.send_seq /\ t.recv_seq = s.recv_seq
  BY <1>2 DEF build_reset, Sessions
<1>4. Seals(ep[e], c, hdr, now, x, sealed, Remove(ep[e].sessions, c),
            Insert(ep[e].sessions, c, t), r)
  BY <1>2, ResetShape
<1>5. hdr \in Headers /\ hdr.seq < U64_MAX /\ hdr.frame = RESET /\ RESET \notin {OPEN, DATA}
  <2>1. 0 \in U32
    BY MachineAssumption DEF U32, U64
  <2> QED
    BY <1>2, <2>1, PlainHeader
<1>6. log' = [log EXCEPT ![Peer(e)] = @ \o Sends(ep[e], c, hdr, 0, now, x, sealed)]
      /\ ep' = [ep EXCEPT ![e] = r.ep]
  BY <1>1, <1>4 DEF Seals, Returns
<1>7. ~sealed => RESET \in FailingFrames /\ failures' = failures + 1
  BY <1>1 DEF Call, Sealing
<1> HIDE DEF t, hdr, r, n
<1>8. CASE sealed
  <2>1. r.ep = With(ep[e], Remove(ep[e].sessions, c), n, ep[e].guard)
    BY <1>4, <1>8 DEF Seals, n
  <2>2. Touches(e, c, n, ep[e].guard) /\ c \notin Live(ep'[e])
    BY <1>2, <1>6, <2>1, DropStream
  <2>3. Tidy(e, c)
    BY <2>2 DEF Tidy
  <2> QED
    BY <1>1, <1>5, <1>6, <2>2, <2>3, CallMinor DEF n
<1>9. CASE ~sealed
  <2>1. r.ep = With(ep[e], Insert(ep[e].sessions, c, t), n, ep[e].guard)
    BY <1>4, <1>9 DEF Seals, n
  <2>2. Touches(e, c, n, ep[e].guard) /\ c \in Live(ep'[e]) /\ ep'[e].sessions[c] = t
    <3>1. t.send_seq <= n
      BY <1>2, <1>3
    <3>2. ep' = [ep EXCEPT ![e] = With(ep[e], Insert(ep[e].sessions, c, t), n, ep[e].guard)]
      BY <1>6, <2>1
    <3> QED
      BY <1>1, <1>2, <1>3, <3>1, <3>2, StoreStream
  <2>3. Tidy(e, c)
    BY <1>7, <1>9, <2>2 DEF Tidy
  <2> QED
    BY <1>1, <1>3, <1>5, <1>6, <2>2, <2>3, CallMinor DEF n
<1> QED
  BY <1>8, <1>9
-----------------------------------------------------------------------------
(***************************************************************************)
(* What accept does.                                                       *)
(***************************************************************************)

\* The guard of e is asked about envelope i of those sent to it.
Asked(e, i) ==
  \E o \in open_message(ep[e].guard, log[e][i], now) : ep'[e].guard = o.guard

\* What every envelope e accepts comes to.
Accepted(e, i) ==
  LET c == log[e][i].correlation_id
  IN  /\ \E q : Acts(e, c, q) /\ (Minor(e, c, q) \/ Answers(e, c, q) \/ Hears(e, c, q))
      /\ Asked(e, i)
      /\ failures' \in 0 .. MaxSealFailures

\* The envelopes sent to e, as accept needs them.
LEMMA LetterFields ==
  ASSUME Inv, NEW e \in Ends, NEW i \in DOMAIN log[e]
  PROVE  /\ log[e][i] \in Letters
         /\ log[e][i].correlation_id \in Cids /\ log[e][i].stream \in Headers
         /\ log[e][i].stream.seq < U64_MAX /\ log[e][i].stream.frame \in KnownFrames
         /\ log[e][i].stream.window \in U32 /\ SaneHeader(log[e][i].stream)
         /\ ReplayKey(log[e][i].sender, log[e][i].sender_epoch) = <<Peer(e), 0>>
         /\ <<Peer(e), 0>> \in Ends \X {0}
         /\ log[e][i].counter \in U64 /\ log[e][i].timestamp_ms \in U64
         /\ log[e][i].timestamp_ms \in Nat /\ log[e][i].timestamp_ms <= now
         /\ log[e][i].payload \in Nat /\ log[e][i].authentic
         /\ now \in U64
<1>1. log[e] \in Seq(Letters) /\ Peer(e) \in Ends
  BY EndTypes, PeerOf
<1>2. log[e][i] \in Letters
  BY <1>1
<1>3. log[e][i].sender = Peer(e) /\ log[e][i].timestamp_ms <= now
  BY DEF Inv
<1>4. now \in U64
  BY PairAssumption, MachineAssumption DEF Inv, U64
<1>5. /\ log[e][i].correlation_id \in Cids /\ log[e][i].stream \in Headers
      /\ log[e][i].stream.seq < U64_MAX /\ log[e][i].sender_epoch = 0
      /\ log[e][i].counter \in U64 /\ log[e][i].timestamp_ms \in U64
      /\ log[e][i].payload \in Nat /\ log[e][i].authentic
  BY <1>2 DEF Letters
<1>6. log[e][i].stream.frame \in KnownFrames /\ log[e][i].stream.window \in U32
  BY <1>5 DEF Headers
<1>7. log[e][i].timestamp_ms \in Nat
  BY <1>5 DEF U64
<1> QED
  BY <1>1, <1>2, <1>3, <1>4, <1>5, <1>6, <1>7 DEF SaneHeader, ReplayKey

\* Every outcome of accept comes from a verdict of open_message.
LEMMA LetterOutcome ==
  ASSUME Inv, NEW e \in Ends, NEW i \in DOMAIN log[e], NEW sealed \in BOOLEAN,
         NEW r \in accept(ep[e], log[e][i], now, sealed)
  PROVE  \E o \in open_message(ep[e].guard, log[e][i], now) :
           /\ Advanced(ep[e], o) \in Endpoints(Ends, Cids)
           /\ AcceptedAs(ep[e], log[e][i], now, sealed, o, r)
<1>1. ep[e] \in Endpoints(Ends, Cids)
  BY EndTypes
<1> DEFINE env == log[e][i]
<1>2. /\ env.correlation_id \in Cids /\ SaneHeader(env.stream)
      /\ ReplayKey(env.sender, env.sender_epoch) \in Ends \X {0}
      /\ env.counter \in U64 /\ env.timestamp_ms \in Nat /\ now \in U64
  BY LetterFields
<1> HIDE DEF env
<1>3. r \in accept(ep[e], env, now, sealed)
  BY DEF env
<1>4. \E o \in open_message(ep[e].guard, env, now) :
        /\ Advanced(ep[e], o) \in Endpoints(Ends, Cids)
        /\ AcceptedAs(ep[e], env, now, sealed, o, r)
  BY <1>1, <1>2, <1>3, AcceptShape
<1> QED
  BY <1>4 DEF env

\* Advancing the guard changes nothing else of an endpoint.
LEMMA AdvancedEnd ==
  ASSUME NEW D, NEW C, NEW x \in Endpoints(D, C), NEW o, Advanced(x, o) \in Endpoints(D, C)
  PROVE  /\ Advanced(x, o).sessions = x.sessions /\ Advanced(x, o).guard = o.guard
         /\ Advanced(x, o).send_counter = x.send_counter
         /\ Live(Advanced(x, o)) = Live(x) /\ (Full(Advanced(x, o)) <=> Full(x))
         /\ o.guard \in Maps(D \X {0}, UsedWindows)
         /\ \A t, n : With(Advanced(x, o), t, n, Advanced(x, o).guard) = With(x, t, n, o.guard)
         /\ \A c, hdr, now_ms, sealed :
              Sends(Advanced(x, o), c, hdr, 0, now_ms, 0, sealed)
                = Sends(x, c, hdr, 0, now_ms, 0, sealed)
<1> DEFINE f == Advanced(x, o)
<1>1. /\ f.sessions = x.sessions /\ f.guard = o.guard /\ f.send_counter = x.send_counter
      /\ f.local_did = x.local_did /\ f.local_epoch = x.local_epoch
      /\ f.max_concurrent = x.max_concurrent
  BY WithFields DEF Advanced
<1>2. Live(f) = Live(x) /\ (Full(f) <=> Full(x))
  BY <1>1 DEF Live, Full
<1>3. o.guard \in Maps(D \X {0}, UsedWindows)
  BY <1>1, EndpointType
<1>4. ASSUME NEW t, NEW n PROVE With(f, t, n, f.guard) = With(x, t, n, o.guard)
  BY <1>1, WithWith DEF Advanced
<1>5. ASSUME NEW c, NEW hdr, NEW now_ms, NEW sealed
      PROVE  Sends(f, c, hdr, 0, now_ms, 0, sealed) = Sends(x, c, hdr, 0, now_ms, 0, sealed)
  BY <1>1 DEF Sends, Sealed
<1> QED
  BY <1>1, <1>2, <1>3, <1>4, <1>5

\* A window in use, or the new one that stands for no window.
LEMMA GuardProper ==
  ASSUME NEW g \in Maps(Ends \X {0}, UsedWindows), NEW k
  PROVE  Proper(Current(g, k))
<1>1. CASE k \in DOMAIN g
  BY <1>1, MapType DEF Current, UsedWindows, Proper
<1>2. CASE k \notin DOMAIN g
  BY <1>2, NewWindowProper DEF Current
<1> QED
  BY <1>1, <1>2

\* open_message opens an envelope only if the guard lets it in, for the last time.
LEMMA OpenedLetsIn ==
  ASSUME Inv, NEW e \in Ends, NEW i \in DOMAIN log[e],
         NEW o \in open_message(ep[e].guard, log[e][i], now), o.verdict = "Opened",
         ep'[e].guard = o.guard
  PROVE  LetsIn(e, i)
<1> DEFINE env == log[e][i]
           key == <<Peer(e), 0>>
           w == Current(ep[e].guard, key)
<1>1. /\ env.counter \in U64 /\ env.timestamp_ms \in U64 /\ env.timestamp_ms \in Nat
      /\ now \in U64 /\ ReplayKey(env.sender, env.sender_epoch) = key
      /\ key \in Ends \X {0}
  BY LetterFields
<1>2. ep[e].guard \in Maps(Ends \X {0}, UsedWindows)
  BY EndTypes
<1> HIDE DEF env, key
<1>3. ~RefusedAt(ep[e].guard, env, now, o)
  BY DEF RefusedAt
<1>4. PICK E \in SUBSET DOMAIN ep[e].guard : AdmittedAt(ep[e].guard, env, now, E, o)
  BY <1>3, OpenVerdict DEF env
<1>5. Admits(w, env.counter)
  BY <1>1, <1>4 DEF AdmittedAt
<1>6. /\ DOMAIN o.guard = (DOMAIN ep[e].guard \ E) \cup {key}
      /\ o.guard[key] = SeenAt(admit(w, env.counter), env.timestamp_ms)
  BY <1>1, <1>2, <1>4, AdmittedGuard
<1>7. Current(o.guard, key) = SeenAt(admit(w, env.counter), env.timestamp_ms)
  BY <1>6 DEF Current
<1>8. Proper(w)
  BY <1>2, GuardProper
<1>9. WideUsize => ~Admits(Current(o.guard, key), env.counter)
  BY <1>1, <1>5, <1>7, <1>8, RefusedForGood
<1> QED
  BY <1>5, <1>9 DEF LetsIn, env, key

\* Nothing but the guard changes: the stream and the sequence numbers stay.
LEMMA AcceptLeaves ==
  ASSUME Inv, NEW e \in Ends, NEW c \in Cids, NEW g \in Maps(Ends \X {0}, UsedWindows),
         ep[e].send_counter < U64_MAX,
         ep' = [ep EXCEPT ![e] = With(ep[e], ep[e].sessions, ep[e].send_counter, g)],
         log' = [log EXCEPT ![Peer(e)] = @ \o <<>>],
         now' = now, restarted' = restarted, used' = used, got' = got
  PROVE  Acts(e, c, <<>>) /\ Minor(e, c, <<>>) /\ ep'[e].guard = g
<1>1. ep[e].send_counter \in Nat /\ ep[e].send_counter <= U64_MAX
      /\ ep[e].send_counter <= ep[e].send_counter
  BY EndTypes, OneMore
<1>2. Touches(e, c, ep[e].send_counter, g) /\ ep'[e].sessions = ep[e].sessions
  BY <1>1, LeaveStreams
<1>3. Tidy(e, c)
  BY <1>2 DEF Tidy, Live
<1>4. ep'[e].send_counter = ep[e].send_counter /\ ep'[e].guard = g
  BY <1>2 DEF Touches
<1> QED
  BY <1>1, <1>2, <1>3, <1>4 DEF Acts, Minor, Live

\* The step of a RESET.
Rejected(e, c, t, g, sealed) ==
  (\E q : Acts(e, c, q) /\ Minor(e, c, q)) /\ ep'[e].guard = g

\* A RESET is posted, and the table of streams is t: the stream gone, or as it was.
LEMMA AcceptRejects ==
  ASSUME Inv, NEW e \in Ends, NEW c \in Cids, NEW g \in Maps(Ends \X {0}, UsedWindows),
         NEW sealed \in BOOLEAN, ep[e].send_counter < U64_MAX,
         NEW t, t = Remove(ep[e].sessions, c) \/ t = ep[e].sessions,
         ep' = [ep EXCEPT ![e] = With(ep[e], t, ep[e].send_counter + 1, g)],
         log' = [log EXCEPT ![Peer(e)] =
                   @ \o Sends(ep[e], c, header(RESET, 0, 0), 0, now, 0, sealed)],
         now' = now, restarted' = restarted, used' = used, got' = got
  PROVE  Rejected(e, c, t, g, sealed)
<1> DEFINE hdr == header(RESET, 0, 0)
           n == ep[e].send_counter + 1
           q == Sends(ep[e], c, hdr, 0, now, 0, sealed)
<1>1. n \in Nat /\ ep[e].send_counter <= n /\ n <= U64_MAX /\ U64_MAX > 0
  BY EndTypes, OneMore, MachineAssumption
<1>2. hdr \in Headers /\ hdr.seq < U64_MAX /\ hdr.frame = RESET /\ RESET \notin {OPEN, DATA}
  <2>1. 0 \in U32
    BY MachineAssumption DEF U32, U64
  <2> QED
    BY <1>1, <2>1, PlainHeader
<1>3. Carries(e, c, hdr, 0, q)
  <2> HIDE DEF hdr
  <2> QED
    BY <1>2, SealedCarries
<1>4. /\ Touches(e, c, n, g)
      /\ c \in Live(ep'[e]) => c \in Live(ep[e]) /\ ep'[e].sessions[c] = ep[e].sessions[c]
  <2> HIDE DEF n
  <2>1. CASE t = Remove(ep[e].sessions, c)
    <3>1. ep' = [ep EXCEPT ![e] = With(ep[e], Remove(ep[e].sessions, c), n, g)]
      BY <2>1 DEF n
    <3> QED
      BY <1>1, <3>1, DropStream
  <2>2. CASE t = ep[e].sessions
    <3>1. ep' = [ep EXCEPT ![e] = With(ep[e], ep[e].sessions, n, g)]
      BY <2>2 DEF n
    <3>2. Touches(e, c, n, g) /\ ep'[e].sessions = ep[e].sessions
      BY <1>1, <3>1, LeaveStreams
    <3> QED
      BY <3>2 DEF Live
  <2> QED
    BY <2>1, <2>2
<1>5. Tidy(e, c)
  BY <1>4 DEF Tidy
<1>6. ep'[e].guard = g
  BY <1>4 DEF Touches
<1> HIDE DEF hdr
<1>7. ActsWith(e, c, hdr, 0, q)
  <2>1. log' = [log EXCEPT ![Peer(e)] = @ \o q]
    BY DEF hdr
  <2> HIDE DEF q
  <2> QED
    BY <1>3, <1>4, <1>5, <1>6, <2>1, PostActs
<1>8. Minor(e, c, q)
  <2> HIDE DEF q
  <2> QED
    BY <1>2, <1>4, <1>7 DEF Minor, ActsWith
<1> QED
  BY <1>6, <1>7, <1>8 DEF ActsWith, Rejected

\* The sequence numbers of a session after a frame it takes: DATA, which must be the
\* next one, moves the receiving side on, the others move nothing.
LEMMA RecvSeqs ==
  ASSUME NEW s \in Sessions, NEW hdr, hdr.frame \in KnownFrames \ {OPEN, RESET}, Legal(s, hdr)
  PROVE  /\ on_recv(s, hdr).send_seq = s.send_seq
         /\ hdr.frame = DATA => on_recv(s, hdr).recv_seq = s.recv_seq + 1 /\ hdr.seq = s.recv_seq
         /\ hdr.frame # DATA => on_recv(s, hdr).recv_seq = s.recv_seq
<1>1. hdr.frame \in {OPEN_ACK, DATA, CREDIT, CLOSE, CLOSE_ACK}
  BY DEF KnownFrames, OPEN, OPEN_ACK, DATA, CREDIT, CLOSE, CLOSE_ACK, RESET
<1> USE DEF OPEN, OPEN_ACK, DATA, CREDIT, CLOSE, CLOSE_ACK, RESET
<1>2. CASE hdr.frame = OPEN_ACK
  <2>1. on_recv(s, hdr) = [s EXCEPT !.handshake = "Established", !.send_credit = hdr.window]
    BY <1>2 DEF on_recv
  <2> QED
    BY <1>2, <2>1 DEF Sessions
<1>3. CASE hdr.frame = DATA
  <2>1. on_recv(s, hdr) = [s EXCEPT !.recv_window_remaining = s.recv_window_remaining - 1,
                                    !.recv_seq = s.recv_seq + 1]
    BY <1>3 DEF on_recv
  <2>2. hdr.seq = s.recv_seq
    BY <1>3 DEF Legal, NextInOrder
  <2> QED
    BY <1>3, <2>1, <2>2 DEF Sessions
<1>4. CASE hdr.frame = CREDIT
  <2>1. on_recv(s, hdr) = [s EXCEPT !.send_credit = saturating_add(s.send_credit, hdr.window)]
    BY <1>4 DEF on_recv
  <2> QED
    BY <1>4, <2>1 DEF Sessions
<1>5. CASE hdr.frame = CLOSE
  <2>1. on_recv(s, hdr) = [s EXCEPT !.remote_closed = TRUE]
    BY <1>5 DEF on_recv
  <2> QED
    BY <1>5, <2>1 DEF Sessions
<1>6. CASE hdr.frame = CLOSE_ACK
  BY <1>6 DEF on_recv
<1> QED
  BY <1>1, <1>2, <1>3, <1>4, <1>5, <1>6

\* The step of a session that goes on or, when it is closed, is dropped.
Settles(e, c, s, n, g) ==
  /\ Touches(e, c, n, g)
  /\ c \in Live(ep'[e]) => ep'[e].sessions[c] = s /\ ~is_closed(s)

\* A session goes on or, when it is closed, is dropped.
LEMMA SettleStream ==
  ASSUME Inv, NEW e \in Ends, NEW c \in Cids, NEW s \in Sessions, NEW n \in Nat,
         ep[e].send_counter <= n, n <= U64_MAX, s.send_seq <= n,
         NEW g \in Maps(Ends \X {0}, UsedWindows), c \in Live(ep[e]),
         ep' = [ep EXCEPT ![e] = With(ep[e], Settled(ep[e].sessions, c, s), n, g)]
  PROVE  Settles(e, c, s, n, g)
<1>1. CASE is_closed(s)
  <2>1. ep' = [ep EXCEPT ![e] = With(ep[e], Remove(ep[e].sessions, c), n, g)]
    BY <1>1 DEF Settled
  <2> QED
    BY <2>1, DropStream DEF Settles
<1>2. CASE ~is_closed(s)
  <2>1. ep' = [ep EXCEPT ![e] = With(ep[e], Insert(ep[e].sessions, c, s), n, g)]
    BY <1>2 DEF Settled
  <2> QED
    BY <1>2, <2>1, StoreStream DEF Settles
<1> QED
  BY <1>1, <1>2

\* What a frame of its stream comes to.
Takes(e, i, c, g) ==
  Acts(e, c, <<>>) /\ (Minor(e, c, <<>>) \/ Hears(e, c, <<>>)) /\ ep'[e].guard = g

\* A counter below the last one.
LEMMA BelowMax ==
  ASSUME NEW n \in Nat, n < U64_MAX
  PROVE  n <= U64_MAX /\ n <= n
  BY MachineAssumption

\* A frame its session takes: a session closed by it is dropped.
LEMMA AcceptTakes ==
  ASSUME Inv, NEW e \in Ends, NEW i \in DOMAIN log[e], NEW c \in Cids, c \in Live(ep[e]),
         c = log[e][i].correlation_id, NEW g \in Maps(Ends \X {0}, UsedWindows),
         ep[e].send_counter < U64_MAX, log[e][i].stream.frame \in KnownFrames \ {OPEN, RESET},
         Legal(ep[e].sessions[c], log[e][i].stream),
         ep' = [ep EXCEPT ![e] =
                  With(ep[e], Settled(ep[e].sessions, c,
                                      on_recv(ep[e].sessions[c], log[e][i].stream)),
                       ep[e].send_counter, g)],
         log' = [log EXCEPT ![Peer(e)] = @ \o <<>>],
         got' = IF log[e][i].stream.frame = DATA
                  THEN [got EXCEPT ![e][c] = Append(@, log[e][i].payload)] ELSE got,
         now' = now, restarted' = restarted, used' = used
  PROVE  Takes(e, i, c, g)
<1> DEFINE s == ep[e].sessions[c]
           hdr == log[e][i].stream
           t == on_recv(s, hdr)
           n == ep[e].send_counter
<1>1. n \in Nat /\ s \in Sessions /\ s.send_seq <= n
  BY EndTypes
<1>2. n <= U64_MAX /\ n <= n
  <2>1. n < U64_MAX
    OBVIOUS
  <2> HIDE DEF n, s, hdr, t
  <2> QED
    BY <1>1, <2>1, BelowMax, Zenon
<1>3. hdr.window \in U32 /\ hdr.seq < U64_MAX
  BY LetterFields
<1>4. ep' = [ep EXCEPT ![e] = With(ep[e], Settled(ep[e].sessions, c, t), n, g)]
  OBVIOUS
<1>5. Legal(s, hdr) /\ hdr.frame \in KnownFrames \ {OPEN, RESET}
  OBVIOUS
<1>6. t \in Sessions
  <2> HIDE DEF s, hdr
  <2> QED
    BY <1>1, <1>3, <1>5, RecvType
<1>7. /\ t.send_seq = s.send_seq
      /\ hdr.frame = DATA => t.recv_seq = s.recv_seq + 1 /\ hdr.seq = s.recv_seq
      /\ hdr.frame # DATA => t.recv_seq = s.recv_seq
  <2> HIDE DEF s, hdr
  <2> QED
    BY <1>1, <1>5, RecvSeqs
<1>8. /\ Touches(e, c, n, g)
      /\ c \in Live(ep'[e]) => ep'[e].sessions[c] = t /\ ~is_closed(t)
  <2>1. t.send_seq <= n
    BY <1>1, <1>7
  <2>2. ep[e].send_counter <= n
    BY <1>2
  <2>3. Settles(e, c, t, n, g)
    <3> HIDE DEF t, n, s
    <3> QED
      BY <1>1, <1>2, <1>4, <1>6, <2>1, <2>2, SettleStream
  <2> QED
    BY <2>3 DEF Settles
<1>9. Tidy(e, c)
  BY <1>8 DEF Tidy
<1>10. ep'[e].send_counter = ep[e].send_counter /\ ep'[e].guard = g
  BY <1>8 DEF Touches
<1>11. Acts(e, c, <<>>)
  BY <1>2, <1>8, <1>9, <1>10 DEF Acts
<1> HIDE DEF t
<1>12. CASE hdr.frame = DATA
  <2>1. got' = [got EXCEPT ![e][c] = Append(@, log[e][i].payload)]
    BY <1>12
  <2>2. Hears(e, c, <<>>)
    BY <1>7, <1>8, <1>12, <2>1 DEF Hears
  <2> QED
    BY <1>10, <1>11, <2>2 DEF Takes
<1>13. CASE hdr.frame # DATA
  <2>1. Minor(e, c, <<>>)
    BY <1>7, <1>8, <1>13 DEF Minor
  <2> QED
    BY <1>10, <1>11, <2>1 DEF Takes
<1> QED
  BY <1>12, <1>13

\* Everything accept does to a stream, whatever envelope is presented.
LEMMA AcceptActs ==
  ASSUME Inv, NEW e \in Ends, NEW i \in DOMAIN log[e], NEW sealed \in BOOLEAN,
         Accept(e, log[e][i], sealed)
  PROVE  Accepted(e, i)
<1> DEFINE env == log[e][i]
           c == env.correlation_id
<1>1. ep[e].send_counter < U64_MAX
  BY DEF Accept
<1>2. PICK r \in accept(ep[e], env, now, sealed) :
        /\ Returns(e, r)
        /\ got' = IF r.why = "Data" THEN [got EXCEPT ![e][c] = Append(@, env.payload)] ELSE got
        /\ Sealing(RESET, sealed) /\ now' = now /\ used' = used /\ restarted' = restarted
  BY DEF Accept
<1>3. PICK o \in open_message(ep[e].guard, env, now) :
        /\ Advanced(ep[e], o) \in Endpoints(Ends, Cids)
        /\ AcceptedAs(ep[e], env, now, sealed, o, r)
  BY <1>2, LetterOutcome
<1> DEFINE f == Advanced(ep[e], o)
           g == o.guard
<1>4. ep[e] \in Endpoints(Ends, Cids)
  BY EndTypes
<1>5. /\ f.sessions = ep[e].sessions /\ f.guard = g /\ f.send_counter = ep[e].send_counter
      /\ Live(f) = Live(ep[e]) /\ (Full(f) <=> Full(ep[e]))
      /\ g \in Maps(Ends \X {0}, UsedWindows)
      /\ \A t, n : With(f, t, n, f.guard) = With(ep[e], t, n, g)
      /\ \A d, hdr, now_ms, b : Sends(f, d, hdr, 0, now_ms, 0, b)
                                  = Sends(ep[e], d, hdr, 0, now_ms, 0, b)
  BY <1>3, <1>4, AdvancedEnd, SMTT(30)
<1>6. ep' = [ep EXCEPT ![e] = r.ep] /\ log' = [log EXCEPT ![Peer(e)] = @ \o r.sent]
  BY <1>2 DEF Returns
<1>7. /\ c \in Cids /\ env.stream.window \in U32
      /\ failures' \in 0 .. MaxSealFailures
  BY <1>2, LetterFields, SealingCounts
<1> SUFFICES /\ \E q : Acts(e, c, q) /\ (Minor(e, c, q) \/ Answers(e, c, q) \/ Hears(e, c, q))
             /\ ep'[e].guard = g
  BY <1>7 DEF Accepted, Asked
<1> HIDE DEF f, g, c
<1>8. CASE r.ep = f /\ r.sent = <<>> /\ r.why # "Data"
  <2>1. f = With(ep[e], ep[e].sessions, ep[e].send_counter, g)
    BY DEF f, g, Advanced
  <2>2. ep' = [ep EXCEPT ![e] = With(ep[e], ep[e].sessions, ep[e].send_counter, g)]
        /\ log' = [log EXCEPT ![Peer(e)] = @ \o <<>>] /\ got' = got
    BY <1>2, <1>6, <1>8, <2>1
  <2> QED
    BY <1>1, <1>2, <1>5, <1>7, <2>2, AcceptLeaves
<1>9. CASE o.verdict # "Opened" /\ r = Dropped(f, o.verdict)
  <2>1. o.verdict # "Data"
    <3>1. CASE RefusedAt(ep[e].guard, env, now, o)
      BY <3>1 DEF RefusedAt
    <3>2. CASE \E E \in SUBSET DOMAIN ep[e].guard : AdmittedAt(ep[e].guard, env, now, E, o)
      BY <3>2 DEF AdmittedAt
    <3> QED
      BY <1>3, <3>1, <3>2, OpenVerdict
  <2> QED
    BY <1>8, <1>9, <2>1 DEF Dropped, Outcome
<1>10. CASE Ignores(f, env, r)
  BY <1>8, <1>10 DEF Ignores, Refusals
<1>11. CASE OnReset(f, env, r)
  <2>1. /\ c \in Live(ep[e]) /\ r.why = "PeerReset" /\ r.sent = <<>>
        /\ r.ep = With(ep[e], Remove(ep[e].sessions, c), ep[e].send_counter, g)
    BY <1>5, <1>11 DEF OnReset, Reports, c
  <2>2. /\ ep' = [ep EXCEPT ![e] = With(ep[e], Remove(ep[e].sessions, c), ep[e].send_counter, g)]
        /\ log' = [log EXCEPT ![Peer(e)] = @ \o <<>>] /\ got' = got
    BY <1>2, <1>6, <2>1
  <2>3. ep[e].send_counter \in Nat /\ ep[e].send_counter <= U64_MAX
        /\ ep[e].send_counter <= ep[e].send_counter
    BY <1>1, EndTypes, OneMore
  <2>4. Touches(e, c, ep[e].send_counter, g) /\ c \notin Live(ep'[e])
    BY <1>5, <1>7, <2>2, <2>3, DropStream
  <2>5. ep'[e].send_counter = ep[e].send_counter /\ ep'[e].guard = g
    BY <2>4 DEF Touches
  <2>6. Tidy(e, c)
    BY <2>4 DEF Tidy
  <2>7. Acts(e, c, <<>>) /\ Minor(e, c, <<>>)
    BY <1>2, <2>2, <2>3, <2>4, <2>5, <2>6 DEF Acts, Minor
  <2> QED
    BY <2>5, <2>7
<1>12. ASSUME NEW t, t = Remove(ep[e].sessions, c) \/ t = ep[e].sessions, NEW why, why # "Data",
              Rejects(f, env, now, sealed, r, why, t)
       PROVE  (\E q : Acts(e, c, q) /\ Minor(e, c, q)) /\ ep'[e].guard = g
  <2>1. /\ r.ep = With(ep[e], t, ep[e].send_counter + 1, g) /\ r.why # "Data"
        /\ r.sent = Sends(ep[e], c, header(RESET, 0, 0), 0, now, 0, sealed)
    BY <1>5, <1>12 DEF Rejects, c
  <2>2. /\ ep' = [ep EXCEPT ![e] = With(ep[e], t, ep[e].send_counter + 1, g)]
        /\ log' = [log EXCEPT ![Peer(e)] =
                     @ \o Sends(ep[e], c, header(RESET, 0, 0), 0, now, 0, sealed)]
        /\ got' = got
    BY <1>2, <1>6, <2>1
  <2>3. Rejected(e, c, t, g, sealed)
    BY <1>1, <1>2, <1>5, <1>7, <1>12, <2>2, AcceptRejects
  <2> QED
    BY <2>3 DEF Rejected
<1>13. CASE o.verdict = "Opened" /\ OnOpen(f, env, now, sealed, r)
  <2>1. CASE Rejects(f, env, now, sealed, r, "DuplicateOpen", Remove(f.sessions, c))
    BY <1>5, <1>12, <2>1
  <2>2. CASE Rejects(f, env, now, sealed, r, "StreamLimit", f.sessions)
    BY <1>5, <1>12, <2>2
  <2>3. CASE /\ c \notin Live(f) /\ ~Full(f)
             /\ Reports(f, r, "Opened", Insert(f.sessions, c, responder(env.stream.window)))
    <3> DEFINE s == responder(env.stream.window)
    <3>1. /\ r.why = "Opened" /\ r.sent = <<>> /\ ~Full(ep[e])
          /\ r.ep = With(ep[e], Insert(ep[e].sessions, c, s), ep[e].send_counter, g)
      BY <1>5, <2>3 DEF Reports
    <3>2. /\ ep' = [ep EXCEPT ![e] = With(ep[e], Insert(ep[e].sessions, c, s), ep[e].send_counter, g)]
          /\ log' = [log EXCEPT ![Peer(e)] = @ \o <<>>] /\ got' = got
      BY <1>2, <1>6, <3>1
    <3>3. s \in Sessions /\ s.send_seq = 0 /\ s.recv_seq = 0 /\ ~is_closed(s)
      <4>1. env.stream.window \in U64 /\ 0 \in U64
        BY <1>7, MachineAssumption DEF U32, U64
      <4> QED
        BY <4>1 DEF responder, NewSession, Sessions, is_closed
    <3>4. ep[e].send_counter \in Nat /\ ep[e].send_counter <= U64_MAX
          /\ ep[e].send_counter <= ep[e].send_counter
      BY <1>1, EndTypes, OneMore
    <3>5. s.send_seq <= ep[e].send_counter
      BY <3>3, <3>4
    <3> HIDE DEF s
    <3>6. Touches(e, c, ep[e].send_counter, g) /\ c \in Live(ep'[e]) /\ ep'[e].sessions[c] = s
      BY <1>5, <1>7, <3>1, <3>2, <3>3, <3>4, <3>5, StoreStream, ZenonT(40)
    <3>7. ep'[e].send_counter = ep[e].send_counter /\ ep'[e].guard = g
      BY <3>6 DEF Touches
    <3>8. Tidy(e, c)
      BY <3>3, <3>6 DEF Tidy
    <3>9. Acts(e, c, <<>>)
      BY <1>2, <3>2, <3>4, <3>6, <3>7, <3>8 DEF Acts
    <3>10. LetsIn(e, i)
      BY <1>3, <1>13, <3>7, OpenedLetsIn DEF g
    <3>11. env.stream.frame = OPEN
      BY <1>13 DEF OnOpen
    <3>12. Answers(e, c, <<>>)
      BY <1>2, <3>2, <3>3, <3>6, <3>10, <3>11 DEF Answers, Begins, c
    <3> QED
      BY <3>7, <3>9, <3>12
  <2> QED
    BY <1>13, <2>1, <2>2, <2>3 DEF OnOpen, c
<1>14. CASE OnOther(f, env, now, sealed, r)
  <2>1. CASE Rejects(f, env, now, sealed, r, "StreamProtocol", Remove(f.sessions, c))
    BY <1>5, <1>12, <2>1
  <2>2. CASE /\ Legal(f.sessions[c], env.stream)
             /\ Reports(f, r, to_event(env.stream.frame),
                        Settled(f.sessions, c, on_recv(f.sessions[c], env.stream)))
    <3>1. env.stream.frame \in KnownFrames \ {OPEN, RESET} /\ c \in Live(ep[e])
      BY <1>5, <1>14 DEF OnOther, c
    <3>2. r.why = to_event(env.stream.frame) /\ r.sent = <<>>
          /\ r.ep = With(ep[e], Settled(ep[e].sessions, c, on_recv(ep[e].sessions[c], env.stream)),
                         ep[e].send_counter, g)
      BY <1>5, <2>2 DEF Reports
    <3>3. r.why = "Data" <=> env.stream.frame = DATA
      <4>1. env.stream.frame \in {OPEN_ACK, DATA, CREDIT, CLOSE, CLOSE_ACK}
        BY <3>1 DEF KnownFrames, OPEN, OPEN_ACK, DATA, CREDIT, CLOSE, CLOSE_ACK, RESET
      <4> QED
        BY <3>2, <4>1 DEF to_event, OPEN_ACK, DATA, CREDIT, CLOSE, CLOSE_ACK
    <3>4. /\ ep' = [ep EXCEPT ![e] =
                      With(ep[e], Settled(ep[e].sessions, c, on_recv(ep[e].sessions[c], env.stream)),
                           ep[e].send_counter, g)]
          /\ log' = [log EXCEPT ![Peer(e)] = @ \o <<>>]
          /\ got' = IF env.stream.frame = DATA
                      THEN [got EXCEPT ![e][c] = Append(@, env.payload)] ELSE got
          /\ Legal(ep[e].sessions[c], env.stream)
      BY <1>2, <1>5, <1>6, <2>2, <3>2, <3>3
    <3>5. c = log[e][i].correlation_id
      BY DEF c
    <3>6. Takes(e, i, c, g)
      BY <1>1, <1>2, <1>5, <1>7, <3>1, <3>4, <3>5, AcceptTakes
    <3> QED
      BY <3>6 DEF Takes
  <2> QED
    BY <1>14, <2>1, <2>2 DEF OnOther, c
<1> QED
  BY <1>3, <1>9, <1>10, <1>11, <1>13, <1>14 DEF AcceptedAs, f
-----------------------------------------------------------------------------
(***************************************************************************)
(* The steps of the two ends.                                              *)
(***************************************************************************)

\* Envelope i of those sent to e is delivered, or presented once more.
Receives(e, i) ==
  /\ Accepted(e, i)
  /\ \/ delivered' = delivered
     \/ i = delivered[e] + 1 /\ delivered' = [delivered EXCEPT ![e] = @ + 1]
  /\ ~Relay => i <= delivered'[e]

\* Everything that can happen.
Happens ==
  \/ UNCHANGED vars \/ Tick
  \/ \E e \in Ends : \/ Restart(e)
                     \/ \E c \in Cids : Called(e, c)
                     \/ \E i \in DOMAIN log[e] : Receives(e, i)

\* A delivery is the delivery of an envelope that was sent.
LEMMA DeliverReceives ==
  ASSUME Inv, NEW e \in Ends, Deliver(e)
  PROVE  \E i \in DOMAIN log[e] : Receives(e, i)
<1> DEFINE i == delivered[e] + 1
<1>1. PICK sealed \in BOOLEAN : Accept(e, log[e][i], sealed)
  BY DEF Deliver, Upcoming
<1>2. delivered \in [Ends -> Nat] /\ delivered' = [delivered EXCEPT ![e] = @ + 1]
      /\ delivered[e] < Len(log[e])
  BY DEF Deliver, Pending, Inv
<1>3. i \in DOMAIN log[e]
  <2>1. DOMAIN log[e] = 1 .. Len(log[e]) /\ Len(log[e]) \in Nat /\ delivered[e] \in Nat
    BY <1>2, EndTypes
  <2> QED
    BY <1>2, <2>1
<1>4. i <= delivered'[e]
  BY <1>2
<1>5. Accepted(e, i)
  BY <1>1, <1>3, AcceptActs
<1> QED
  BY <1>2, <1>3, <1>4, <1>5 DEF Receives

\* So is a presentation; the ordered transport presents what it delivered.
LEMMA PresentReceives ==
  ASSUME Inv, NEW e \in Ends, Present(e)
  PROVE  \E i \in DOMAIN log[e] : Receives(e, i)
<1>1. PICK i \in 1 .. IF Relay THEN Len(log[e]) ELSE delivered[e] :
        \E sealed \in BOOLEAN : Accept(e, log[e][i], sealed)
  BY DEF Present
<1>2. PICK sealed \in BOOLEAN : Accept(e, log[e][i], sealed)
  BY <1>1
<1>3. delivered' = delivered
  BY DEF Present
<1>4. /\ DOMAIN log[e] = 1 .. Len(log[e]) /\ Len(log[e]) \in Nat
      /\ delivered[e] \in Nat /\ delivered[e] <= Len(log[e])
  <2>1. log[e] \in Seq(Letters)
    BY EndTypes
  <2>2. delivered[e] \in Nat /\ delivered[e] <= Len(log[e])
    BY DEF Inv
  <2> QED
    BY <2>1, <2>2
<1>5. i \in DOMAIN log[e] /\ (~Relay => i <= delivered[e])
  BY <1>1, <1>4
<1>6. Accepted(e, i)
  BY <1>2, <1>5, AcceptActs
<1> QED
  BY <1>3, <1>5, <1>6 DEF Receives

\* Every step is one of those.
LEMMA StepHappens ==
  ASSUME Inv, [Next]_vars
  PROVE  Happens
<1>1. CASE UNCHANGED vars
  BY <1>1 DEF Happens
<1>2. CASE Tick
  BY <1>2 DEF Happens
<1>3. ASSUME NEW e \in Ends, Step(e) \/ Deliver(e) PROVE Happens
  <2>1. CASE Deliver(e)
    BY <2>1, DeliverReceives DEF Happens
  <2>2. CASE Present(e)
    BY <2>2, PresentReceives DEF Happens
  <2>3. CASE Restart(e)
    BY <2>3 DEF Happens
  <2>4. ASSUME NEW c \in Cids, NEW x \in Expiries, NEW sealed \in BOOLEAN,
               \/ \E w \in Grants : \/ Open(e, c, w, x, sealed)
                                    \/ OpenAck(e, c, w, x, sealed)
                                    \/ GrantCredit(e, c, w, x, sealed)
               \/ SendData(e, c, x, sealed)
               \/ Close(e, c, x, sealed)
               \/ Cancel(e, c, x, sealed)
        PROVE  Called(e, c)
    BY <2>4, OpenCalls, OpenAckCalls, GrantCreditCalls, SendDataCalls, CloseCalls, CancelCalls
  <2> QED
    BY <1>3, <2>1, <2>2, <2>3, <2>4 DEF Step, Happens
<1> QED
  BY <1>1, <1>2, <1>3 DEF Next

\* One end does something to one stream.
Does(e, c, q) ==
  /\ Acts(e, c, q)
  /\ \/ Minor(e, c, q) \/ Speaks(e, c, q) \/ Opens(e, c, q)
     \/ Answers(e, c, q) \/ Hears(e, c, q)

\* What the transport carries after such a step, to either end.
LEMMA LogAfter ==
  ASSUME Inv, NEW e \in Ends, NEW c \in Cids, NEW q, Acts(e, c, q)
  PROVE  /\ log' \in [Ends -> Seq(Letters)]
         /\ log'[e] = log[e] /\ log'[Peer(e)] = log[Peer(e)] \o q
         /\ \A d \in Ends : Len(log[d]) <= Len(log'[d])
<1>1. q = <<>> \/ \E l \in Letters : q = <<l>>
  BY DEF Acts
<1>2. log \in [Ends -> Seq(Letters)] /\ Peer(e) \in Ends /\ Peer(e) # e
  BY PeerOf DEF Inv
<1>3. log[Peer(e)] \in Seq(Letters)
  BY <1>2
<1>4. log[Peer(e)] \o q \in Seq(Letters)
  BY <1>1, <1>3, Carried
<1>5. log' = [log EXCEPT ![Peer(e)] = log[Peer(e)] \o q]
  BY DEF Acts
<1>6. log'[e] = log[e] /\ log'[Peer(e)] = log[Peer(e)] \o q
  BY <1>2, <1>5
<1>7. log' \in [Ends -> Seq(Letters)]
  BY <1>2, <1>4, <1>5
<1>8. Len(log[Peer(e)]) <= Len(log'[Peer(e)]) /\ Len(log[e]) <= Len(log'[e])
  <2>1. /\ Len(log[Peer(e)]) \in Nat /\ Len(log[e]) \in Nat
        /\ q = <<>> => log[Peer(e)] \o q = log[Peer(e)]
        /\ q # <<>> => Len(log[Peer(e)] \o q) = Len(log[Peer(e)]) + 1
    BY <1>1, <1>2, <1>3, Carried
  <2> QED
    BY <1>6, <2>1
<1> QED
  BY <1>6, <1>7, <1>8, PeerOf

\* The invariant survives what one end does to a stream.
LEMMA DoesInv ==
  ASSUME Inv, NEW e \in Ends, NEW c \in Cids, NEW q, Does(e, c, q),
         delivered' \in [Ends -> Nat], \A d \in Ends : delivered'[d] <= Len(log[d]),
         failures' \in 0 .. MaxSealFailures
  PROVE  Inv'
<1>1. Acts(e, c, q) /\ Touches(e, c, ep'[e].send_counter, ep'[e].guard)
  BY DEF Does, Acts
<1>2. Peer(e) \in Ends /\ Peer(e) # e /\ Peer(Peer(e)) = e /\ Ends = {e, Peer(e)}
  BY PeerOf
<1>3. ep' \in [Ends -> Endpoints(Ends, Cids)] /\ \A d \in Ends : Good(d, ep'[d])
  BY <1>1, <1>2 DEF Touches, Inv
<1>4. /\ log' \in [Ends -> Seq(Letters)] /\ log'[e] = log[e]
      /\ log'[Peer(e)] = log[Peer(e)] \o q /\ \A d \in Ends : Len(log[d]) <= Len(log'[d])
  BY <1>1, LogAfter
<1>5. now' = now /\ restarted' = restarted
  BY <1>1 DEF Acts
<1>6. ASSUME NEW d \in Ends, NEW i \in DOMAIN log'[d]
      PROVE  log'[d][i].sender = Peer(d) /\ log'[d][i].timestamp_ms <= now'
  <2>1. CASE d = e
    <3>1. i \in DOMAIN log[e] /\ log'[d][i] = log[e][i]
      BY <1>4, <2>1
    <3> QED
      BY <1>5, <2>1, <3>1 DEF Inv
  <2>2. CASE d = Peer(e)
    <3> DEFINE L == log[Peer(e)]
    <3>1. L \in Seq(Letters)
      BY <1>2 DEF Inv
    <3>2. q = <<>> \/ \E l \in Letters : q = <<l>> /\ Posted(e, c, l)
      BY <1>1 DEF Acts
    <3>3. /\ DOMAIN L = 1 .. Len(L) /\ DOMAIN (L \o q) = 1 .. Len(L \o q)
          /\ Len(L) \in Nat /\ q = <<>> => L \o q = L
          /\ q # <<>> => Len(L \o q) = Len(L) + 1 /\ (L \o q)[Len(L) + 1] = q[1]
          /\ \A j \in 1 .. Len(L) : (L \o q)[j] = L[j]
      BY <3>1, <3>2, Carried
    <3>4. i \in DOMAIN (L \o q) /\ log'[d][i] = (L \o q)[i]
      BY <1>4, <2>2
    <3>5. CASE i \in DOMAIN L
      <4>1. log'[d][i] = L[i]
        BY <3>3, <3>4, <3>5
      <4>2. L[i].sender = Peer(Peer(e)) /\ L[i].timestamp_ms <= now
        BY <1>2, <3>5 DEF Inv
      <4> QED
        BY <1>5, <2>2, <4>1, <4>2
    <3>6. CASE i \notin DOMAIN L
      <4>1. q # <<>> /\ i = Len(L) + 1 /\ log'[d][i] = q[1]
        BY <3>3, <3>4, <3>6
      <4>2. PICK l \in Letters : q = <<l>> /\ Posted(e, c, l)
        BY <3>2, <4>1
      <4>3. l.sender = e /\ l.timestamp_ms = now /\ now \in Nat
        BY <4>2 DEF Posted, Inv
      <4> QED
        BY <1>2, <1>5, <2>2, <4>1, <4>2, <4>3
    <3> QED
      BY <3>5, <3>6
  <2> QED
    BY <1>2, <2>1, <2>2
<1>7. \A d \in Ends : delivered'[d] <= Len(log'[d])
  <2> SUFFICES ASSUME NEW d \in Ends PROVE delivered'[d] <= Len(log'[d])
    OBVIOUS
  <2>1. delivered'[d] \in Nat /\ Len(log[d]) \in Nat /\ Len(log'[d]) \in Nat
    BY <1>4, SMTT(30) DEF Inv
  <2>2. delivered'[d] <= Len(log[d]) /\ Len(log[d]) <= Len(log'[d])
    BY <1>4
  <2> QED
    BY <2>1, <2>2
<1>8. used' \in [Ends -> SUBSET Cids] /\ \A d \in Ends : used'[d] \subseteq CidsOf[d]
  <2>1. used \in [Ends -> SUBSET Cids] /\ \A d \in Ends : used[d] \subseteq CidsOf[d]
    BY DEF Inv
  <2>2. CASE Opens(e, c, q)
    BY <2>1, <2>2 DEF Opens
  <2>3. CASE used' = used
    BY <2>1, <2>3
  <2> QED
    BY <2>2, <2>3 DEF Does, Minor, Speaks, Answers, Hears
<1>9. got' \in [Ends -> [Cids -> Seq(Nat)]]
  <2>1. got \in [Ends -> [Cids -> Seq(Nat)]]
    BY DEF Inv
  <2>2. CASE got' = got
    BY <2>1, <2>2
  <2>3. CASE Hears(e, c, q)
    <3>1. PICK i \in DOMAIN log[e] : got' = [got EXCEPT ![e][c] = Append(@, log[e][i].payload)]
      BY <2>3 DEF Hears
    <3>2. log[e][i].payload \in Nat
      BY LetterFields
    <3>3. got[e][c] \in Seq(Nat)
      BY <2>1
    <3>4. Append(got[e][c], log[e][i].payload) \in Seq(Nat)
      BY <3>2, <3>3, AppendProperties
    <3> HIDE DEF Inv
    <3> QED
      BY <2>1, <3>1, <3>4
  <2> QED
    BY <2>2, <2>3 DEF Does, Minor, Speaks, Answers, Opens
<1>10. now' \in 1 .. MaxNow /\ restarted' \subseteq Restartable
  BY <1>5 DEF Inv
<1> QED
  BY <1>3, <1>4, <1>6, <1>7, <1>8, <1>9, <1>10 DEF Inv

\* A fresh endpoint is a good one.
LEMMA StartGood ==
  ASSUME NEW e \in Ends
  PROVE  /\ StartOf(e) \in Endpoints(Ends, Cids) /\ Good(e, StartOf(e)) /\ Live(StartOf(e)) = {}
         /\ StartOf(e).send_counter = 0 /\ StartOf(e).guard = EmptyMap
<1> DEFINE x == StartOf(e)
<1>1. x = [local_did |-> e, local_epoch |-> 0, peer_did |-> Peer(e), send_counter |-> 0,
           sessions |-> EmptyMap, max_concurrent |-> MaxConcurrent[e], guard |-> EmptyMap]
  BY DEF StartOf, NewEndpoint
<1>2. MaxConcurrent[e] \in Nat /\ Peer(e) \in Ends
  BY PairAssumption, PeerOf
<1>3. /\ EmptyMap \in Maps(Cids, Sessions) /\ DOMAIN EmptyMap = {}
      /\ EmptyMap \in Maps(Ends \X {0}, UsedWindows)
  BY EmptyMapType
<1> HIDE DEF x
<1>4. x \in Endpoints(Ends, Cids)
  BY <1>1, <1>2, <1>3 DEF Endpoints
<1>5. Live(x) = {} /\ x.send_counter = 0 /\ x.guard = EmptyMap
  BY <1>1, <1>3 DEF Live
<1>6. IsFiniteSet(Live(x)) /\ Cardinality(Live(x)) = 0
  BY <1>5, FS_EmptySet
<1>7. x.local_did = e /\ x.peer_did = Peer(e) /\ x.max_concurrent = MaxConcurrent[e]
  BY <1>1
<1>8. x.send_counter <= U64_MAX
  BY <1>5, MachineAssumption
<1>9. Cardinality(Live(x)) <= MaxConcurrent[e]
  BY <1>2, <1>6
<1>10. Good(e, x)
  BY <1>4, <1>5, <1>6, <1>7, <1>8, <1>9 DEF Good
<1> QED
  BY <1>4, <1>5, <1>10 DEF x

\* A restarted end is a fresh one, and the rest stays.
LEMMA RestartShape ==
  ASSUME Inv, NEW e \in Ends, Restart(e)
  PROVE  /\ ep' \in [Ends -> Endpoints(Ends, Cids)]
         /\ ep'[e] = StartOf(e) /\ ep'[Peer(e)] = ep[Peer(e)]
         /\ e \in Restartable /\ restarted' = restarted \cup {e}
         /\ UNCHANGED <<log, delivered, now, used, got, failures>>
<1>1. ep' = [ep EXCEPT ![e] = StartOf(e)] /\ StartOf(e) \in Endpoints(Ends, Cids)
  BY StartGood DEF Restart
<1>2. ep' \in [Ends -> Endpoints(Ends, Cids)] /\ ep'[e] = StartOf(e) /\ ep'[Peer(e)] = ep[Peer(e)]
  BY <1>1, OneEnd
<1> QED
  BY <1>2 DEF Restart

\* What a call or a presented envelope is, in one form.
LEMMA Deeds ==
  ASSUME Inv, Happens
  PROVE  \/ UNCHANGED vars \/ Tick \/ \E e \in Ends : Restart(e)
         \/ \E e \in Ends, c \in Cids : \E q :
              /\ Does(e, c, q)
              /\ delivered' \in [Ends -> Nat]
              /\ \A d \in Ends : delivered'[d] <= Len(log[d])
              /\ failures' \in 0 .. MaxSealFailures
<1>1. delivered \in [Ends -> Nat] /\ \A d \in Ends : delivered[d] <= Len(log[d])
  BY DEF Inv
<1>2. ASSUME NEW e \in Ends, NEW c \in Cids, Called(e, c)
      PROVE  \E q : /\ Does(e, c, q)
                    /\ delivered' \in [Ends -> Nat]
                    /\ \A d \in Ends : delivered'[d] <= Len(log[d])
                    /\ failures' \in 0 .. MaxSealFailures
  <2>1. PICK q : Acts(e, c, q) /\ (Minor(e, c, q) \/ Speaks(e, c, q) \/ Opens(e, c, q))
    BY <1>2 DEF Called
  <2>2. Does(e, c, q)
    BY <2>1 DEF Does
  <2> QED
    BY <1>1, <1>2, <2>2 DEF Called
<1>3. ASSUME NEW e \in Ends, NEW i \in DOMAIN log[e], Receives(e, i)
      PROVE  \E c \in Cids : \E q : /\ Does(e, c, q)
                    /\ delivered' \in [Ends -> Nat]
                    /\ \A d \in Ends : delivered'[d] <= Len(log[d])
                    /\ failures' \in 0 .. MaxSealFailures
  <2> DEFINE c == log[e][i].correlation_id
  <2>1. PICK q : Acts(e, c, q) /\ (Minor(e, c, q) \/ Answers(e, c, q) \/ Hears(e, c, q))
    BY <1>3 DEF Receives, Accepted
  <2>2. Does(e, c, q)
    BY <2>1 DEF Does
  <2>3. c \in Cids
    BY LetterFields
  <2>4. delivered' \in [Ends -> Nat] /\ \A d \in Ends : delivered'[d] <= Len(log[d])
    <3>1. CASE delivered' = delivered
      BY <1>1, <3>1
    <3>2. CASE i = delivered[e] + 1 /\ delivered' = [delivered EXCEPT ![e] = @ + 1]
      <4>1. i \in 1 .. Len(log[e])
        BY EndTypes
      <4> QED
        BY <1>1, <3>2, <4>1
    <3> QED
      BY <1>3, <3>1, <3>2 DEF Receives
  <2>5. failures' \in 0 .. MaxSealFailures
    BY <1>3 DEF Receives, Accepted
  <2> QED
    BY <2>2, <2>3, <2>4, <2>5
<1> QED
  BY <1>2, <1>3 DEF Happens

\* The invariant holds at the start.
LEMMA InvInit == Init => Inv
<1> SUFFICES ASSUME Init PROVE Inv
  OBVIOUS
<1>1. \A e \in Ends : StartOf(e) \in Endpoints(Ends, Cids) /\ Good(e, StartOf(e))
  BY StartGood
<1>2. ep \in [Ends -> Endpoints(Ends, Cids)] /\ \A e \in Ends : Good(e, ep[e])
  BY <1>1 DEF Init
<1>3. <<>> \in Seq(Letters) /\ <<>> \in Seq(Nat) /\ Len(<<>>) = 0 /\ DOMAIN <<>> = {}
  BY EmptySeq
<1>4. log \in [Ends -> Seq(Letters)] /\ \A e \in Ends : log[e] = <<>>
  BY <1>3 DEF Init
<1>5. \A e \in Ends : \A i \in DOMAIN log[e] : /\ log[e][i].sender = Peer(e)
                                               /\ log[e][i].timestamp_ms <= now
  BY <1>3, <1>4
<1>6. delivered \in [Ends -> Nat] /\ \A e \in Ends : delivered[e] <= Len(log[e])
  BY <1>3, <1>4 DEF Init
<1>7. used \in [Ends -> SUBSET Cids] /\ \A e \in Ends : used[e] \subseteq CidsOf[e]
  BY DEF Init
<1>8. got \in [Ends -> [Cids -> Seq(Nat)]]
  BY <1>3 DEF Init
<1>9. now \in 1 .. MaxNow /\ failures \in 0 .. MaxSealFailures /\ restarted \subseteq Restartable
  BY PairAssumption DEF Init, U64
<1> QED
  BY <1>2, <1>4, <1>5, <1>6, <1>7, <1>8, <1>9 DEF Inv

\* The invariant survives every step.
LEMMA InvStep ==
  ASSUME Inv, [Next]_vars
  PROVE  Inv'
<1>1. Happens
  BY StepHappens
<1>2. CASE UNCHANGED vars
  BY <1>2 DEF Inv, vars, Chunks
<1>3. CASE Tick
  <2>1. now' = now + 1 /\ now < MaxNow /\ now \in 1 .. MaxNow /\ MaxNow \in Nat
    BY <1>3, PairAssumption DEF Tick, Inv, U64
  <2>2. UNCHANGED <<ep, log, delivered, used, got, failures, restarted>>
    BY <1>3 DEF Tick
  <2>3. now' \in 1 .. MaxNow
    BY <2>1
  <2>4. ASSUME NEW e \in Ends, NEW i \in DOMAIN log[e]
        PROVE  log[e][i].sender = Peer(e) /\ log[e][i].timestamp_ms <= now'
    <3>1. log[e][i].timestamp_ms \in Nat /\ log[e][i].timestamp_ms <= now
      BY LetterFields
    <3> QED
      BY <2>1, <3>1 DEF Inv
  <2> QED
    BY <2>2, <2>3, <2>4 DEF Inv
<1>4. ASSUME NEW e \in Ends, Restart(e) PROVE Inv'
  <2>1. /\ ep' \in [Ends -> Endpoints(Ends, Cids)]
        /\ ep'[e] = StartOf(e) /\ ep'[Peer(e)] = ep[Peer(e)]
        /\ e \in Restartable /\ restarted' = restarted \cup {e}
        /\ UNCHANGED <<log, delivered, now, used, got, failures>>
    BY <1>4, RestartShape
  <2>2. \A d \in Ends : Good(d, ep'[d])
    <3>1. Ends = {e, Peer(e)} /\ Good(Peer(e), ep[Peer(e)])
      BY PeerOf DEF Inv
    <3>2. Good(e, StartOf(e))
      BY StartGood
    <3> QED
      BY <2>1, <3>1, <3>2
  <2> QED
    BY <2>1, <2>2 DEF Inv
<1>5. ASSUME NEW e \in Ends, NEW c \in Cids, NEW q, Does(e, c, q),
             delivered' \in [Ends -> Nat], \A d \in Ends : delivered'[d] <= Len(log[d]),
             failures' \in 0 .. MaxSealFailures
      PROVE  Inv'
  BY <1>5, DoesInv
<1> QED
  BY <1>1, <1>2, <1>3, <1>4, <1>5, Deeds

\* Whatever the two callers, the transport and the clock do, both endpoints stay well
\* typed, below their caps and with their counters in step.
THEOREM InvAlways == Spec => []Inv
  BY InvInit, InvStep, PTL DEF Spec

\* The type invariant.
LEMMA InvTypes == Inv => TypeOK
<1> SUFFICES ASSUME Inv, NEW e \in Ends
             PROVE  /\ ep[e].send_counter \in Nat
                    /\ Live(ep[e]) \subseteq Cids
                    /\ \A c \in Live(ep[e]) : ep[e].sessions[c] \in Sessions
                    /\ \A k \in DOMAIN ep[e].guard : ep[e].guard[k] \in Windows
                    /\ delivered[e] \in 0 .. Len(log[e])
                    /\ \A i \in DOMAIN log[e] : log[e][i].stream \in Headers
                    /\ used[e] \subseteq CidsOf[e]
  BY DEF TypeOK, Inv
<1>1. \A k \in DOMAIN ep[e].guard : ep[e].guard[k] \in Windows
  <2>1. ep[e].guard \in Maps(Ends \X {0}, UsedWindows)
    BY EndTypes
  <2> QED
    BY <2>1, MapType DEF UsedWindows
<1>2. delivered[e] \in 0 .. Len(log[e])
  <2>1. delivered[e] \in Nat /\ delivered[e] <= Len(log[e])
    BY DEF Inv
  <2>2. Len(log[e]) \in Nat
    BY EndTypes
  <2> QED
    BY <2>1, <2>2
<1> QED
  BY <1>1, <1>2, EndTypes, LetterFields DEF Inv

\* Both ends, their windows, the frames in flight and the clock keep their types, for
\* every number of streams, bound and interleaving of the callers.
THEOREM PairTypeCorrect == Spec => []TypeOK
  BY InvAlways, InvTypes, PTL

\* Neither the application's open nor a peer's OPEN takes an endpoint over its
\* max_concurrent, whatever the relay presents and however often an end is restarted.
THEOREM PairStreamsBounded == Spec => []StreamsBounded
<1>1. Inv => StreamsBounded
  BY DEF Inv, Good, StreamsBounded
<1> QED
  BY <1>1, InvAlways, PTL
-----------------------------------------------------------------------------
(***************************************************************************)
(* Closed sessions.                                                        *)
(***************************************************************************)

\* Where no CLOSE and no RESET fails to be sealed, a session both of whose directions
\* are closed, or that was reset, leaves the table in the step that closes it: the
\* calls and accept drop it, so that it never counts against the cap.
THEOREM ClosedAreDropped ==
  ASSUME FailingFrames \cap {CLOSE, RESET} = {}
  PROVE  Spec => []ClosedSessionsAreDropped
<1> DEFINE J == Inv /\ ClosedSessionsAreDropped
<1>1. Init => J
  <2> SUFFICES ASSUME Init PROVE ClosedSessionsAreDropped
    BY InvInit
  <2>1. \A e \in Ends : ep[e] = StartOf(e) /\ Live(StartOf(e)) = {}
    BY StartGood DEF Init
  <2> QED
    BY <2>1 DEF ClosedSessionsAreDropped
<1>2. J /\ [Next]_vars => J'
  <2> SUFFICES ASSUME Inv, ClosedSessionsAreDropped, [Next]_vars PROVE ClosedSessionsAreDropped'
    BY InvStep
  <2>1. Happens
    BY StepHappens
  <2>2. CASE ep' = ep
    BY <2>2 DEF ClosedSessionsAreDropped
  <2>3. ASSUME NEW e \in Ends, ClosedSessionsAreDropped,
               ep'[Peer(e)] = ep[Peer(e)], \A c \in Live(ep'[e]) : ~is_closed(ep'[e].sessions[c])
        PROVE  ClosedSessionsAreDropped'
    <3>1. Ends = {e, Peer(e)} /\ Peer(e) \in Ends
      BY PeerOf
    <3> QED
      BY <2>3, <3>1 DEF ClosedSessionsAreDropped
  <2>4. ASSUME NEW e \in Ends, Restart(e) PROVE ClosedSessionsAreDropped'
    <3>1. ep'[e] = StartOf(e) /\ ep'[Peer(e)] = ep[Peer(e)] /\ Live(StartOf(e)) = {}
      BY <2>4, RestartShape, StartGood
    <3> QED
      BY <2>3, <3>1
  <2>5. ASSUME NEW e \in Ends, NEW c \in Cids, NEW q, Does(e, c, q)
        PROVE  ClosedSessionsAreDropped'
    <3>1. Touches(e, c, ep'[e].send_counter, ep'[e].guard) /\ Tidy(e, c)
      BY <2>5 DEF Does, Acts
    <3>2. Good(e, ep'[e]) /\ ep'[Peer(e)] = ep[Peer(e)]
      BY <3>1 DEF Touches
    <3>3. Live(ep'[e]) \subseteq Cids
      <4>1. ep'[e].sessions \in Maps(Cids, Sessions)
        BY <3>2, EndpointType DEF Good
      <4> QED
        BY <4>1, MapType DEF Live
    <3>4. ASSUME NEW d \in Live(ep'[e]) PROVE ~is_closed(ep'[e].sessions[d])
      <4>1. CASE d = c
        BY <3>1, <3>4, <4>1 DEF Tidy, ClosedSessionsAreDropped
      <4>2. CASE d # c
        <5>1. d \in Live(ep[e]) /\ ep'[e].sessions[d] = ep[e].sessions[d]
          BY <3>1, <3>3, <4>2 DEF Touches
        <5> QED
          BY <5>1 DEF ClosedSessionsAreDropped
      <4> QED
        BY <4>1, <4>2
    <3> QED
      BY <2>3, <3>2, <3>4
  <2> QED
    BY <2>1, <2>2, <2>4, <2>5, Deeds DEF vars, Tick
<1>3. J => ClosedSessionsAreDropped
  OBVIOUS
<1> QED
  BY <1>1, <1>2, <1>3, PTL DEF Spec

\* Failed seals are only counted up.
LEMMA FailuresGrow ==
  ASSUME Inv, [Next]_vars
  PROVE  failures \in Nat /\ failures' \in Nat /\ failures <= failures'
<1>1. failures \in Nat
  BY PairAssumption DEF Inv
<1>2. ASSUME NEW frame, NEW sealed \in BOOLEAN, Sealing(frame, sealed)
      PROVE  failures' \in Nat /\ failures <= failures'
  BY <1>1, <1>2 DEF Sealing
<1>3. ASSUME NEW e \in Ends, NEW env, NEW sealed \in BOOLEAN, Accept(e, env, sealed)
      PROVE  failures' \in Nat /\ failures <= failures'
  BY <1>2, <1>3 DEF Accept
<1>4. ASSUME NEW e \in Ends, Step(e) \/ Deliver(e)
      PROVE  failures' \in Nat /\ failures <= failures'
  <2>1. CASE Deliver(e) \/ Present(e)
    BY <1>3, <2>1 DEF Deliver, Present
  <2>2. CASE Restart(e)
    BY <1>1, <2>2 DEF Restart
  <2>3. ASSUME NEW c \in Cids, NEW x \in Expiries, NEW sealed \in BOOLEAN,
               \/ \E w \in Grants : \/ Open(e, c, w, x, sealed)
                                    \/ OpenAck(e, c, w, x, sealed)
                                    \/ GrantCredit(e, c, w, x, sealed)
               \/ SendData(e, c, x, sealed)
               \/ Close(e, c, x, sealed)
               \/ Cancel(e, c, x, sealed)
        PROVE  \E frame : Sealing(frame, sealed)
    BY <2>3 DEF Open, OpenAck, GrantCredit, SendData, Close, Cancel, Call
  <2> QED
    BY <1>2, <1>4, <2>1, <2>2, <2>3 DEF Step
<1>5. CASE Tick \/ UNCHANGED vars
  BY <1>1, <1>5 DEF Tick, vars
<1> QED
  BY <1>1, <1>4, <1>5 DEF Next

\* A session that close or reset finished stays in the table only where the seal of
\* its frame failed, one for each failure at most, whatever frames may fail, whatever
\* the relay presents to the dead session and however often an end is restarted.
THEOREM SlotsAreLostOnlyToFailedSeals == Spec => []SlotsLostOnlyToFailedSeals
<1> DEFINE J == Inv /\ IsFiniteSet(DeadSlots) /\ SlotsLostOnlyToFailedSeals
<1>1. Init => J
  <2> SUFFICES ASSUME Init PROVE IsFiniteSet(DeadSlots) /\ SlotsLostOnlyToFailedSeals
    BY InvInit
  <2>1. \A e \in Ends : ep[e] = StartOf(e) /\ Live(StartOf(e)) = {}
    BY StartGood DEF Init
  <2>2. DeadSlots = {}
    BY <2>1 DEF DeadSlots
  <2>3. failures = 0 /\ IsFiniteSet({}) /\ Cardinality({}) = 0
    BY FS_EmptySet DEF Init
  <2> QED
    BY <2>2, <2>3 DEF SlotsLostOnlyToFailedSeals
<1>2. J /\ [Next]_vars => J'
  <2> SUFFICES ASSUME J, [Next]_vars
               PROVE  IsFiniteSet(DeadSlots') /\ Cardinality(DeadSlots') <= failures'
    BY InvStep DEF SlotsLostOnlyToFailedSeals
  <2>1. failures \in Nat /\ failures' \in Nat /\ failures <= failures'
    BY FailuresGrow
  <2>2. IsFiniteSet(DeadSlots) /\ Cardinality(DeadSlots) \in Nat
        /\ Cardinality(DeadSlots) <= failures
    BY FS_CardinalityType DEF SlotsLostOnlyToFailedSeals
  <2>3. CASE DeadSlots' \subseteq DeadSlots
    <3>1. IsFiniteSet(DeadSlots') /\ Cardinality(DeadSlots') \in Nat
          /\ Cardinality(DeadSlots') <= Cardinality(DeadSlots)
      BY <2>2, <2>3, FS_Subset, FS_CardinalityType
    <3> QED
      BY <2>1, <2>2, <3>1
  <2>4. ASSUME NEW p, DeadSlots' \subseteq DeadSlots \cup {p}, failures' = failures + 1
        PROVE  IsFiniteSet(DeadSlots') /\ Cardinality(DeadSlots') <= failures'
    <3>1. IsFiniteSet(DeadSlots \cup {p}) /\ Cardinality(DeadSlots \cup {p}) \in Nat
          /\ Cardinality(DeadSlots \cup {p}) <= Cardinality(DeadSlots) + 1
      BY <2>2, AddOne
    <3>2. IsFiniteSet(DeadSlots') /\ Cardinality(DeadSlots') \in Nat
          /\ Cardinality(DeadSlots') <= Cardinality(DeadSlots \cup {p})
      BY <2>4, <3>1, FS_Subset, FS_CardinalityType
    <3> QED
      BY <2>1, <2>2, <2>4, <3>1, <3>2
  <2>5. CASE ep' = ep
    BY <2>3, <2>5 DEF DeadSlots
  <2>6. ASSUME NEW e \in Ends, ep'[Peer(e)] = ep[Peer(e)], NEW S,
               \A c \in Cids : (c \in Live(ep'[e]) /\ is_closed(ep'[e].sessions[c]))
                               => <<e, c>> \in DeadSlots \cup S
        PROVE  DeadSlots' \subseteq DeadSlots \cup S
    <3>1. Ends = {e, Peer(e)} /\ Peer(e) \in Ends
      BY PeerOf
    <3> QED
      BY <2>6, <3>1 DEF DeadSlots
  <2>7. ASSUME NEW e \in Ends, Restart(e) PROVE DeadSlots' \subseteq DeadSlots
    <3>1. ep'[e] = StartOf(e) /\ ep'[Peer(e)] = ep[Peer(e)] /\ Live(StartOf(e)) = {}
      BY <2>7, RestartShape, StartGood
    <3>2. DeadSlots' \subseteq DeadSlots \cup {}
      BY <2>6, <3>1
    <3> QED
      BY <3>2
  <2>8. ASSUME NEW e \in Ends, NEW c \in Cids, NEW q, Does(e, c, q)
        PROVE  \/ DeadSlots' \subseteq DeadSlots
               \/ failures' = failures + 1 /\ DeadSlots' \subseteq DeadSlots \cup {<<e, c>>}
    <3>1. Touches(e, c, ep'[e].send_counter, ep'[e].guard) /\ Tidy(e, c)
      BY <2>8 DEF Does, Acts
    <3>2. ep'[Peer(e)] = ep[Peer(e)]
      BY <3>1 DEF Touches
    <3>3. ASSUME NEW d \in Cids, d # c, d \in Live(ep'[e]), is_closed(ep'[e].sessions[d])
          PROVE  <<e, d>> \in DeadSlots
      <4>1. d \in Live(ep[e]) /\ ep'[e].sessions[d] = ep[e].sessions[d]
        BY <3>1, <3>3 DEF Touches
      <4> QED
        BY <3>3, <4>1 DEF DeadSlots
    <3>4. CASE failures' = failures + 1
      BY <2>6, <3>2, <3>3, <3>4
    <3>5. CASE failures' # failures + 1
      <4>1. (c \in Live(ep'[e]) /\ is_closed(ep'[e].sessions[c])) => <<e, c>> \in DeadSlots
        BY <3>1, <3>5 DEF Tidy, DeadSlots
      <4>2. DeadSlots' \subseteq DeadSlots \cup {}
        BY <2>6, <3>2, <3>3, <4>1
      <4> QED
        BY <4>2
    <3> QED
      BY <3>4, <3>5
  <2>9. Happens
    BY StepHappens
  <2> QED
    BY <2>3, <2>4, <2>5, <2>7, <2>8, <2>9, Deeds DEF vars, Tick
<1>3. J => SlotsLostOnlyToFailedSeals
  OBVIOUS
<1> QED
  BY <1>1, <1>2, <1>3, PTL DEF Spec
-----------------------------------------------------------------------------
(***************************************************************************)
(* The window each end keeps of its peer.                                  *)
(***************************************************************************)

\* e's window of its peer.
WindowOf(e) == Current(ep[e].guard, <<Peer(e), 0>>)

\* The guard of e lets in an envelope and advances its window.
Advances(e, env) ==
  /\ Reaches(env, now) /\ Admits(WindowOf(e), env.counter)
  /\ WindowOf(e)' = SeenAt(admit(WindowOf(e), env.counter), env.timestamp_ms)

\* The window of an end, started or not, has the right type.
LEMMA WindowType ==
  ASSUME Inv, NEW e \in Ends
  PROVE  Proper(WindowOf(e)) /\ WindowOf(e) \in Windows /\ WindowOf(e).highest \in Nat
<1>1. ep[e].guard \in Maps(Ends \X {0}, UsedWindows)
  BY EndTypes
<1>2. Proper(WindowOf(e))
  BY <1>1, GuardProper DEF WindowOf
<1> QED
  BY <1>2 DEF Proper, Windows, U64

\* What open_message decides: an envelope that passes the checks of time and is refused
\* is one the window does not admit.
LEMMA WindowVerdict ==
  ASSUME Inv, NEW e \in Ends, NEW i \in DOMAIN log[e],
         NEW o \in open_message(ep[e].guard, log[e][i], now)
  PROVE  \/ /\ o.guard = ep[e].guard
            /\ o.verdict \in {"Unauthentic", "TtlTooLong", "Expired", "Replay"}
            /\ Reaches(log[e][i], now) => ~Admits(WindowOf(e), log[e][i].counter)
         \/ /\ Reaches(log[e][i], now) /\ Admits(WindowOf(e), log[e][i].counter)
            /\ o.verdict \in {"Opened", "Decompression"}
            /\ Current(o.guard, <<Peer(e), 0>>)
                 = SeenAt(admit(WindowOf(e), log[e][i].counter), log[e][i].timestamp_ms)
<1> DEFINE env == log[e][i]
           key == <<Peer(e), 0>>
<1>1. /\ env.counter \in U64 /\ env.timestamp_ms \in Nat
      /\ now \in U64 /\ ReplayKey(env.sender, env.sender_epoch) = key
      /\ key \in Ends \X {0}
  BY LetterFields
<1>2. ep[e].guard \in Maps(Ends \X {0}, UsedWindows)
  BY EndTypes
<1> HIDE DEF env, key
<1>3. \/ RefusedAt(ep[e].guard, env, now, o)
      \/ \E E \in SUBSET DOMAIN ep[e].guard : AdmittedAt(ep[e].guard, env, now, E, o)
  BY OpenVerdict DEF env
<1>4. CASE RefusedAt(ep[e].guard, env, now, o)
  <2>1. WindowOf(e) = Current(ep[e].guard, key)
    BY DEF WindowOf, key
  <2> QED
    BY <1>1, <1>4, <2>1 DEF RefusedAt, env
<1>5. ASSUME NEW E \in SUBSET DOMAIN ep[e].guard, AdmittedAt(ep[e].guard, env, now, E, o)
      PROVE  /\ Reaches(env, now) /\ Admits(Current(ep[e].guard, key), env.counter)
             /\ o.verdict \in {"Opened", "Decompression"}
             /\ Current(o.guard, key)
                  = SeenAt(admit(Current(ep[e].guard, key), env.counter), env.timestamp_ms)
  <2>1. /\ DOMAIN o.guard = (DOMAIN ep[e].guard \ E) \cup {key}
        /\ o.guard[key] = SeenAt(admit(Current(ep[e].guard, key), env.counter), env.timestamp_ms)
    BY <1>1, <1>2, <1>5, AdmittedGuard
  <2>2. Current(o.guard, key) = o.guard[key]
    BY <2>1 DEF Current
  <2>3. /\ Reaches(env, now) /\ Admits(Current(ep[e].guard, key), env.counter)
        /\ o.verdict \in {"Opened", "Decompression"}
    BY <1>1, <1>5 DEF AdmittedAt
  <2> QED
    BY <2>1, <2>2, <2>3
<1> QED
  BY <1>3, <1>4, <1>5 DEF env, key, WindowOf

\* A presented envelope advances the window or leaves the guard alone.
LEMMA AskedWindow ==
  ASSUME Inv, NEW e \in Ends, NEW i \in DOMAIN log[e], Asked(e, i)
  PROVE  \/ /\ WindowOf(e)' = WindowOf(e)
            /\ Reaches(log[e][i], now) => ~Admits(WindowOf(e), log[e][i].counter)
         \/ Advances(e, log[e][i])
<1>1. PICK o \in open_message(ep[e].guard, log[e][i], now) : ep'[e].guard = o.guard
  BY DEF Asked
<1>2. WindowOf(e)' = Current(o.guard, <<Peer(e), 0>>)
  BY <1>1 DEF WindowOf
<1>3. CASE /\ o.guard = ep[e].guard
           /\ Reaches(log[e][i], now) => ~Admits(WindowOf(e), log[e][i].counter)
  BY <1>2, <1>3 DEF WindowOf
<1>4. CASE /\ Reaches(log[e][i], now) /\ Admits(WindowOf(e), log[e][i].counter)
           /\ Current(o.guard, <<Peer(e), 0>>)
                 = SeenAt(admit(WindowOf(e), log[e][i].counter), log[e][i].timestamp_ms)
  BY <1>2, <1>4 DEF Advances
<1> QED
  BY <1>3, <1>4, WindowVerdict

\* Only an end that is handed an envelope, or is restarted, changes its window.
LEMMA WindowStep ==
  ASSUME Inv, Happens, NEW e \in Ends
  PROVE  \/ WindowOf(e)' = WindowOf(e) /\ delivered'[e] = delivered[e]
         \/ Restart(e)
         \/ \E i \in DOMAIN log[e] : Receives(e, i)
<1>1. CASE UNCHANGED vars \/ Tick
  BY <1>1 DEF vars, Tick, WindowOf
<1>2. ASSUME NEW d \in Ends, d # e, ep'[Peer(d)] = ep[Peer(d)]
      PROVE  WindowOf(e)' = WindowOf(e)
  <2>1. e = Peer(d)
    BY <1>2, PeerOf
  <2> QED
    BY <1>2, <2>1 DEF WindowOf
<1>3. ASSUME NEW d \in Ends, Restart(d), d # e
      PROVE  WindowOf(e)' = WindowOf(e) /\ delivered'[e] = delivered[e]
  <2>1. ep'[Peer(d)] = ep[Peer(d)] /\ delivered' = delivered
    BY <1>3, RestartShape
  <2> QED
    BY <1>2, <1>3, <2>1
<1>4. ASSUME NEW d \in Ends, NEW c \in Cids, Called(d, c)
      PROVE  WindowOf(e)' = WindowOf(e) /\ delivered'[e] = delivered[e]
  <2>1. ep'[d].guard = ep[d].guard /\ delivered' = delivered
    BY <1>4 DEF Called
  <2>2. ep'[Peer(d)] = ep[Peer(d)]
    BY <1>4 DEF Called, Acts, Touches
  <2>3. CASE d = e
    BY <2>1, <2>3 DEF WindowOf
  <2> QED
    BY <1>2, <2>1, <2>2, <2>3
<1>5. ASSUME NEW d \in Ends, NEW i \in DOMAIN log[d], Receives(d, i), d # e
      PROVE  WindowOf(e)' = WindowOf(e) /\ delivered'[e] = delivered[e]
  <2>1. ep'[Peer(d)] = ep[Peer(d)]
    BY <1>5 DEF Receives, Accepted, Acts, Touches
  <2>2. delivered'[e] = delivered[e]
    BY <1>5 DEF Receives, Inv
  <2> QED
    BY <1>2, <1>5, <2>1, <2>2
<1> QED
  BY <1>1, <1>3, <1>4, <1>5 DEF Happens

\* The transport carries one envelope more to e.
Grows(e) ==
  \E c \in Cids, l \in Letters : log'[e] = Append(log[e], l) /\ Posted(Peer(e), c, l)

\* What is sent to e grows by an envelope of its peer, with the peer's next counter, or
\* it stays.
LEMMA LogStep ==
  ASSUME Inv, Happens, NEW e \in Ends
  PROVE  \/ /\ log'[e] = log[e]
            /\ \/ ep[Peer(e)].send_counter <= ep'[Peer(e)].send_counter
               \/ Restart(Peer(e))
         \/ Grows(e)
<1> DEFINE p == Peer(e)
<1>1. p \in Ends /\ Peer(p) = e /\ p # e /\ Ends = {e, p}
  BY PeerOf
<1>2. ep[p].send_counter \in Nat
  BY <1>1, EndTypes
<1>3. CASE UNCHANGED vars \/ Tick
  <2>1. log' = log /\ ep' = ep
    BY <1>3 DEF vars, Tick
  <2> QED
    BY <1>2, <2>1
<1>4. CASE Restart(e)
  <2>1. log' = log /\ ep'[p] = ep[p]
    BY <1>4, RestartShape
  <2> QED
    BY <1>2, <2>1
<1>5. CASE Restart(p)
  BY <1>1, <1>5, RestartShape
<1>6. ASSUME NEW d \in Ends, NEW c \in Cids, NEW q, Acts(d, c, q)
      PROVE  \/ log'[e] = log[e] /\ ep[p].send_counter <= ep'[p].send_counter
             \/ Grows(e)
  <2>1. log'[d] = log[d] /\ log'[Peer(d)] = log[Peer(d)] \o q
    BY <1>6, LogAfter
  <2>2. CASE d = e
    <3>1. ep'[p] = ep[p]
      BY <1>6, <2>2 DEF Acts, Touches
    <3> QED
      BY <1>2, <2>1, <2>2, <3>1
  <2>3. CASE d = p
    <3>1. log[e] \in Seq(Letters)
      BY EndTypes
    <3>2. CASE q = <<>>
      <4>1. log'[e] = log[e]
        BY <1>1, <2>1, <2>3, <3>1, <3>2, ConcatEmptySeq
      <4> QED
        BY <1>6, <2>3, <4>1 DEF Acts
    <3>3. ASSUME NEW l \in Letters, q = <<l>>, Posted(d, c, l) PROVE Grows(e)
      <4>1. log'[e] = Append(log[e], l)
        BY <1>1, <2>1, <2>3, <3>1, <3>3, AppendIsConcat
      <4> QED
        BY <2>3, <3>3, <4>1 DEF Grows
    <3> QED
      BY <1>6, <3>2, <3>3 DEF Acts
  <2> QED
    BY <1>1, <2>2, <2>3
<1>7. ASSUME NEW d \in Ends, NEW c \in Cids, Called(d, c)
      PROVE  \E q : Acts(d, c, q)
  BY <1>7 DEF Called
<1>8. ASSUME NEW d \in Ends, NEW i \in DOMAIN log[d], Receives(d, i)
      PROVE  \E c \in Cids : \E q : Acts(d, c, q)
  BY <1>8, LetterFields DEF Receives, Accepted
<1> QED
  BY <1>1, <1>3, <1>4, <1>5, <1>6, <1>7, <1>8 DEF Happens

\* The envelopes sent to e, before and after it grows.
LEMMA LogGrown ==
  ASSUME Inv, NEW e \in Ends, NEW l \in Letters, log'[e] = Append(log[e], l)
  PROVE  /\ DOMAIN log[e] = 1 .. Len(log[e]) /\ Len(log[e]) \in Nat
         /\ DOMAIN log'[e] = 1 .. Len(log[e]) + 1 /\ log'[e][Len(log[e]) + 1] = l
         /\ \A i \in DOMAIN log[e] : i \in DOMAIN log'[e] /\ log'[e][i] = log[e][i]
<1>1. log[e] \in Seq(Letters)
  BY EndTypes
<1> QED
  BY <1>1, AppendProperties

\* What was sent to e stays in its place.
LEMMA LogKeeps ==
  ASSUME Inv, Happens, NEW e \in Ends, NEW i \in DOMAIN log[e]
  PROVE  i \in DOMAIN log'[e] /\ log'[e][i] = log[e][i]
<1>1. CASE log'[e] = log[e]
  BY <1>1
<1>2. CASE Grows(e)
  BY <1>2, LogGrown DEF Grows
<1> QED
  BY <1>1, <1>2, LogStep
-----------------------------------------------------------------------------
(***************************************************************************)
(* The first delivery of a frame.                                          *)
(***************************************************************************)

\* Counters grow along what is sent to e, and the peer's next one is above them.
Counted(e) ==
  /\ \A i \in DOMAIN log[e] : log[e][i].counter < ep[Peer(e)].send_counter
  /\ \A i, j \in DOMAIN log[e] : i < j => log[e][i].counter < log[e][j].counter

\* The highest counter e's window has seen is one of a delivered envelope.
Seen(e) ==
  WindowOf(e).started =>
    \E i \in DOMAIN log[e] : i <= delivered[e] /\ WindowOf(e).highest = log[e][i].counter

\* Counters stay in order as long as the sender keeps its counter.
LEMMA CountedStep ==
  ASSUME Inv, Inv', Happens, NEW e \in Ends, Peer(e) \notin Restartable, Counted(e)
  PROVE  Counted(e)'
<1> DEFINE p == Peer(e)
<1>1. p \in Ends /\ \A i \in DOMAIN log[e] : log[e][i].counter \in Nat
  <2>1. \A i \in DOMAIN log[e] : log[e][i].counter \in U64
    BY LetterFields
  <2>2. U64 \subseteq Nat
    BY DEF U64
  <2> QED
    BY <2>1, <2>2, PeerOf
<1>2. ep[p].send_counter \in Nat /\ ep'[p].send_counter \in Nat
  <2>1. ep[p] \in Endpoints(Ends, Cids) /\ ep'[p] \in Endpoints(Ends, Cids)
    BY <1>1 DEF Inv
  <2> QED
    BY <2>1, EndpointType
<1>3. ~Restart(p)
  BY DEF Restart
<1>4. CASE log'[e] = log[e] /\ ep[p].send_counter <= ep'[p].send_counter
  BY <1>1, <1>2, <1>4 DEF Counted
<1>5. CASE Grows(e)
  <2>1. PICK c \in Cids, l \in Letters : log'[e] = Append(log[e], l) /\ Posted(p, c, l)
    BY <1>5 DEF Grows
  <2>2. l.counter = ep[p].send_counter /\ ep'[p].send_counter = ep[p].send_counter + 1
    BY <2>1 DEF Posted
  <2>3. /\ DOMAIN log[e] = 1 .. Len(log[e]) /\ Len(log[e]) \in Nat
        /\ DOMAIN log'[e] = 1 .. Len(log[e]) + 1 /\ log'[e][Len(log[e]) + 1] = l
        /\ \A i \in DOMAIN log[e] : i \in DOMAIN log'[e] /\ log'[e][i] = log[e][i]
    BY <2>1, LogGrown
  <2>4. ASSUME NEW i \in DOMAIN log'[e] PROVE log'[e][i].counter < ep'[p].send_counter
    <3>1. CASE i \in DOMAIN log[e]
      <4>1. log[e][i].counter < ep[p].send_counter /\ log'[e][i] = log[e][i]
        BY <2>3, <3>1 DEF Counted
      <4>2. log[e][i].counter \in Nat
        BY <1>1, <3>1
      <4> QED
        BY <1>2, <2>2, <4>1, <4>2
    <3>2. CASE i = Len(log[e]) + 1
      BY <1>2, <2>2, <2>3, <3>2
    <3> QED
      BY <2>3, <3>1, <3>2
  <2>5. ASSUME NEW i \in DOMAIN log'[e], NEW j \in DOMAIN log'[e], i < j
        PROVE  log'[e][i].counter < log'[e][j].counter
    <3>1. i \in DOMAIN log[e] /\ log'[e][i] = log[e][i]
      BY <2>3, <2>5
    <3>2. CASE j \in DOMAIN log[e]
      <4>1. log'[e][j] = log[e][j]
        BY <2>3, <3>2
      <4>2. log[e][i].counter < log[e][j].counter
        BY <2>5, <3>1, <3>2 DEF Counted
      <4> QED
        BY <3>1, <4>1, <4>2
    <3>3. CASE j = Len(log[e]) + 1
      <4>1. log[e][i].counter < ep[p].send_counter
        BY <3>1 DEF Counted
      <4> QED
        BY <2>2, <2>3, <3>1, <3>3, <4>1
    <3> QED
      BY <2>3, <3>2, <3>3
  <2> QED
    BY <2>4, <2>5 DEF Counted
<1> QED
  BY <1>3, <1>4, <1>5, LogStep

\* The highest counter stays one of a delivered envelope on the ordered transport.
LEMMA SeenStep ==
  ASSUME Inv, Happens, ~Relay, NEW e \in Ends, Seen(e)
  PROVE  Seen(e)'
<1>1. /\ \A i \in DOMAIN log[e] : i \in DOMAIN log'[e] /\ log'[e][i] = log[e][i]
      /\ delivered[e] \in Nat /\ \A i \in DOMAIN log[e] : i \in Nat
  BY LogKeeps, EndTypes DEF Inv
<1>2. CASE WindowOf(e)' = WindowOf(e) /\ delivered'[e] = delivered[e]
  BY <1>1, <1>2 DEF Seen
<1>3. CASE Restart(e)
  <2>1. ep'[e].guard = EmptyMap /\ DOMAIN EmptyMap = {}
    BY <1>3, RestartShape, StartGood, EmptyMapType
  <2>2. WindowOf(e)' = NewWindow
    BY <2>1 DEF WindowOf, Current
  <2> QED
    BY <2>2 DEF Seen, NewWindow
<1>4. ASSUME NEW i \in DOMAIN log[e], Receives(e, i) PROVE Seen(e)'
  <2>1. i <= delivered'[e] /\ delivered[e] <= delivered'[e] /\ delivered'[e] \in Nat
    BY <1>1, <1>4 DEF Receives, Inv
  <2>2. Asked(e, i)
    BY <1>4 DEF Receives, Accepted
  <2>3. CASE WindowOf(e)' = WindowOf(e)
    BY <1>1, <2>1, <2>3 DEF Seen
  <2>4. CASE Advances(e, log[e][i])
    <3> DEFINE w == WindowOf(e)
               n == log[e][i].counter
               v == admit(w, n)
    <3>1. Proper(w) /\ n \in U64 /\ Admits(w, n) /\ log[e][i].timestamp_ms \in U64
      BY <2>4, WindowType, LetterFields DEF Advances
    <3>2. v \in Windows /\ v.highest = IF w.started /\ n <= w.highest THEN w.highest ELSE n
      BY <3>1, AdmitType
    <3>3. WindowOf(e)'.highest = v.highest
      BY <2>4, <3>1, <3>2, SeenAtFields DEF Advances
    <3>4. CASE WindowOf(e)'.highest = n
      BY <1>1, <2>1, <3>4 DEF Seen
    <3>5. CASE w.started /\ WindowOf(e)'.highest = w.highest
      BY <1>1, <2>1, <3>5 DEF Seen
    <3> QED
      BY <3>2, <3>3, <3>4, <3>5
  <2> QED
    BY <2>2, <2>3, <2>4, AskedWindow
<1> QED
  BY <1>2, <1>3, <1>4, WindowStep

\* A "Replay" verdict comes from the guard, after the checks of time.
LEMMA ReplayVerdict ==
  ASSUME Inv, NEW e \in Ends, NEW i \in DOMAIN log[e],
         NEW o \in open_message(ep[e].guard, log[e][i], now), o.verdict = "Replay"
  PROVE  Fresh(log[e][i].timestamp_ms, now) => Reaches(log[e][i], now)
<1> DEFINE env == log[e][i]
<1>1. env.authentic
  BY LetterFields
<1> HIDE DEF env
<1>2. o \in open_message(ep[e].guard, env, now)
  BY DEF env
<1>3. ~TtlTooLong(env) /\ ~Expired(env, now)
  BY <1>1, <1>2 DEF open_message, admit_verified, Verdict
<1> QED
  BY <1>1, <1>3 DEF Reaches, env

\* accept says "Replay" only if open_message does.
LEMMA ReplayOutcome ==
  ASSUME Inv, NEW e \in Ends, NEW i \in DOMAIN log[e],
         NEW r \in Outcomes(e, log[e][i]), r.why = "Replay"
  PROVE  \E o \in open_message(ep[e].guard, log[e][i], now) : o.verdict = "Replay"
<1> DEFINE env == log[e][i]
<1>1. PICK o \in open_message(ep[e].guard, env, now) :
        AcceptedAs(ep[e], env, now, TRUE, o, r)
  BY LetterOutcome DEF Outcomes
<1> DEFINE f == Advanced(ep[e], o)
<1> HIDE DEF f, env
<1>2. CASE o.verdict # "Opened" /\ r = Dropped(f, o.verdict)
  BY <1>1, <1>2 DEF Dropped, Outcome, env
<1>3. CASE Ignores(f, env, r)
  BY <1>3 DEF Ignores, Refusals
<1>4. CASE OnReset(f, env, r)
  BY <1>4 DEF OnReset, Reports
<1>5. CASE OnOpen(f, env, now, TRUE, r)
  BY <1>5 DEF OnOpen, Reports, Rejects
<1>6. CASE OnOther(f, env, now, TRUE, r)
  <2>1. env.stream.frame \in {OPEN_ACK, DATA, CREDIT, CLOSE, CLOSE_ACK}
    BY <1>6 DEF OnOther, KnownFrames, OPEN, OPEN_ACK, DATA, CREDIT, CLOSE, CLOSE_ACK, RESET
  <2>2. to_event(env.stream.frame) # "Replay"
    BY <2>1 DEF to_event, OPEN_ACK, DATA, CREDIT, CLOSE, CLOSE_ACK
  <2> QED
    BY <1>6, <2>2 DEF OnOther, Reports, Rejects
<1> QED
  BY <1>1, <1>2, <1>3, <1>4, <1>5, <1>6 DEF AcceptedAs, f

\* The next envelope of the ordered transport is new to the window.
LEMMA UpcomingAdmitted ==
  ASSUME Inv, NEW e \in Ends, Counted(e), Seen(e), Pending(e)
  PROVE  delivered[e] + 1 \in DOMAIN log[e] /\ Admits(WindowOf(e), Upcoming(e).counter)
<1>1. /\ DOMAIN log[e] = 1 .. Len(log[e]) /\ Len(log[e]) \in Nat
      /\ delivered[e] \in Nat /\ delivered[e] < Len(log[e])
  BY EndTypes DEF Inv, Pending
<1>2. delivered[e] + 1 \in DOMAIN log[e]
  BY <1>1
<1>3. CASE ~WindowOf(e).started
  BY <1>2, <1>3 DEF Admits
<1>4. CASE WindowOf(e).started
  <2>1. PICK i \in DOMAIN log[e] : i <= delivered[e] /\ WindowOf(e).highest = log[e][i].counter
    BY <1>4 DEF Seen
  <2>2. i < delivered[e] + 1
    BY <1>1, <2>1
  <2>3. log[e][i].counter < log[e][delivered[e] + 1].counter
    BY <1>2, <2>2 DEF Counted
  <2>4. log[e][i].counter \in U64 /\ log[e][delivered[e] + 1].counter \in U64
    BY <1>2, LetterFields
  <2>5. Upcoming(e).counter > WindowOf(e).highest
    BY <2>1, <2>3, <2>4 DEF Upcoming, U64
  <2> QED
    BY <1>2, <2>5 DEF Admits
<1> QED
  BY <1>3, <1>4

\* The next envelope is not refused as a replay while it is fresh.
FreshIsNew ==
  \A e \in Ends :
    (Pending(e) /\ Fresh(Upcoming(e).timestamp_ms, now))
      => \A r \in Outcomes(e, Upcoming(e)) : r.why # "Replay"

\* On the ordered transport, between ends that are not restarted, seal_frame gives each
\* frame a counter above those of the frames before it, failed seals included, so the
\* receiver's guard never takes the first presentation of a fresh frame for a replay:
\* whatever was presented again before, and whatever the width of usize.
THEOREM FreshFramesAreNew ==
  ASSUME ~Relay, Restartable = {}
  PROVE  Spec => []FreshIsNew
<1> DEFINE J == Inv /\ \A e \in Ends : Counted(e) /\ Seen(e)
<1>1. Init => J
  <2> SUFFICES ASSUME Init, NEW e \in Ends PROVE Counted(e) /\ Seen(e)
    BY InvInit
  <2>1. log[e] = <<>> /\ DOMAIN log[e] = {}
    BY EmptySeq DEF Init
  <2>2. ep[e].guard = EmptyMap /\ DOMAIN EmptyMap = {}
    BY StartGood, EmptyMapType DEF Init
  <2>3. WindowOf(e) = NewWindow
    BY <2>2 DEF WindowOf, Current
  <2> QED
    BY <2>1, <2>3 DEF Counted, Seen, NewWindow
<1>2. J /\ [Next]_vars => J'
  <2> SUFFICES ASSUME J, [Next]_vars, NEW e \in Ends PROVE Counted(e)' /\ Seen(e)'
    BY InvStep
  <2>1. Happens /\ Inv'
    BY StepHappens, InvStep
  <2>2. Counted(e)'
    BY <2>1, CountedStep
  <2>3. Seen(e)'
    BY <2>1, SeenStep
  <2> QED
    BY <2>2, <2>3
<1>3. J => FreshIsNew
  <2> SUFFICES ASSUME J, NEW e \in Ends, Pending(e), Fresh(Upcoming(e).timestamp_ms, now),
                      NEW r \in Outcomes(e, Upcoming(e)), r.why = "Replay"
               PROVE  FALSE
    BY DEF FreshIsNew
  <2> DEFINE i == delivered[e] + 1
  <2>1. i \in DOMAIN log[e] /\ Upcoming(e) = log[e][i]
    BY UpcomingAdmitted DEF Upcoming
  <2>2. PICK o \in open_message(ep[e].guard, log[e][i], now) : o.verdict = "Replay"
    BY <2>1, ReplayOutcome
  <2>3. Reaches(log[e][i], now)
    BY <2>1, <2>2, ReplayVerdict
  <2>4. ~Admits(WindowOf(e), log[e][i].counter)
    BY <2>1, <2>2, <2>3, WindowVerdict
  <2> QED
    BY <2>1, <2>4, UpcomingAdmitted
<1> QED
  BY <1>1, <1>2, <1>3, PTL DEF Spec

\* Where the clock does not outrun the freshness window, no first presentation is taken
\* for a replay at all.
THEOREM FirstDeliveriesAreNew ==
  ASSUME ~Relay, Restartable = {}, MaxNow <= FRESHNESS_WINDOW_MS
  PROVE  Spec => []FirstDeliveryNotReplay
<1>1. Spec => []FreshIsNew
  BY FreshFramesAreNew
<1>2. Inv /\ FreshIsNew => FirstDeliveryNotReplay
  <2> SUFFICES ASSUME Inv, NEW e \in Ends, Pending(e)
               PROVE  Fresh(Upcoming(e).timestamp_ms, now)
    BY DEF FreshIsNew, FirstDeliveryNotReplay
  <2>1. delivered[e] + 1 \in DOMAIN log[e]
    <3>1. /\ DOMAIN log[e] = 1 .. Len(log[e]) /\ Len(log[e]) \in Nat
          /\ delivered[e] \in Nat /\ delivered[e] < Len(log[e])
      BY EndTypes DEF Inv, Pending
    <3> QED
      BY <3>1
  <2>2. /\ Upcoming(e).timestamp_ms \in Nat /\ Upcoming(e).timestamp_ms <= now /\ now \in U64
    BY <2>1, LetterFields DEF Upcoming
  <2>3. now <= FRESHNESS_WINDOW_MS /\ now \in Nat
    BY PairAssumption, TableAssumption DEF Inv, U64
  <2> QED
    BY <2>2, <2>3, TableAssumption, MachineAssumption DEF Fresh, saturating_add, saturating_sub, U64
<1> QED
  BY <1>1, <1>2, InvAlways, PTL
-----------------------------------------------------------------------------
(***************************************************************************)
(* Frames presented again.                                                 *)
(***************************************************************************)

\* What e's guard will not let in, now or later.
Barred(e, env) == Reaches(env, now) => ~Admits(WindowOf(e), env.counter)

\* Time only makes an envelope that was sent harder to let in.
LEMMA ReachesBefore ==
  ASSUME Inv, Happens, NEW e \in Ends, NEW i \in DOMAIN log[e], Reaches(log[e][i], now')
  PROVE  Reaches(log[e][i], now)
<1> DEFINE env == log[e][i]
<1>1. /\ env.timestamp_ms \in Nat /\ env.timestamp_ms <= now /\ now \in U64
  BY LetterFields
<1>2. env.expires_at \in Nat
  <2>1. env \in Letters
    BY LetterFields
  <2> QED
    BY <2>1 DEF Letters
<1>3. now' = now \/ now' = now + 1
  <2>1. CASE UNCHANGED vars
    BY <2>1 DEF vars
  <2>2. CASE Tick
    BY <2>2 DEF Tick
  <2>3. ASSUME NEW d \in Ends, Restart(d) PROVE now' = now
    BY <2>3, RestartShape
  <2>4. ASSUME NEW d \in Ends, NEW c \in Cids, NEW q, Does(d, c, q) PROVE now' = now
    BY <2>4 DEF Does, Acts
  <2> QED
    BY <2>1, <2>2, <2>3, <2>4, Deeds
<1> HIDE DEF env
<1>4. Reaches(env, now')
  BY DEF env
<1>5. ~Expired(env, now)
  BY <1>1, <1>2, <1>3, <1>4 DEF Reaches, Expired, U64
<1>6. Fresh(env.timestamp_ms, now)
  BY <1>1, <1>3, <1>4, TableAssumption, MachineAssumption
     DEF Reaches, Fresh, saturating_add, saturating_sub, U64
<1>7. Reaches(env, now)
  BY <1>4, <1>5, <1>6 DEF Reaches
<1> QED
  BY <1>7 DEF env

\* What the guard has once refused or let in, it bars from then on.
LEMMA BarredStep ==
  ASSUME Inv, Happens, WideUsize, NEW e \in Ends, ~Restart(e), NEW j \in DOMAIN log[e],
         Barred(e, log[e][j])
  PROVE  Barred(e, log[e][j])'
<1>1. log'[e][j] = log[e][j]
  BY LogKeeps
<1>2. log[e][j].counter \in U64
  BY LetterFields
<1> SUFFICES ASSUME Reaches(log[e][j], now') PROVE ~Admits(WindowOf(e)', log[e][j].counter)
  BY <1>1 DEF Barred
<1>3. ~Admits(WindowOf(e), log[e][j].counter)
  BY ReachesBefore DEF Barred
<1>4. CASE WindowOf(e)' = WindowOf(e)
  BY <1>3, <1>4
<1>5. ASSUME NEW i \in DOMAIN log[e], Receives(e, i)
      PROVE  ~Admits(WindowOf(e)', log[e][j].counter)
  <2>1. Asked(e, i)
    BY <1>5 DEF Receives, Accepted
  <2>2. CASE Advances(e, log[e][i])
    <3>1. Proper(WindowOf(e)) /\ log[e][i].counter \in U64 /\ log[e][i].timestamp_ms \in U64
      BY WindowType, LetterFields
    <3>2. /\ Admits(WindowOf(e), log[e][i].counter)
          /\ WindowOf(e)' = SeenAt(admit(WindowOf(e), log[e][i].counter), log[e][i].timestamp_ms)
      BY <2>2 DEF Advances
    <3> QED
      BY <1>2, <1>3, <3>1, <3>2, RefusedForGood
  <2> QED
    BY <1>4, <2>1, <2>2, AskedWindow
<1> QED
  BY <1>4, <1>5, WindowStep

\* The envelope just presented is barred.
LEMMA PresentedBarred ==
  ASSUME Inv, Happens, WideUsize, NEW e \in Ends, NEW i \in DOMAIN log[e], Receives(e, i)
  PROVE  Barred(e, log[e][i])'
<1>1. Asked(e, i) /\ log'[e][i] = log[e][i]
  BY LogKeeps DEF Receives, Accepted
<1>2. CASE WindowOf(e)' = WindowOf(e) /\ (Reaches(log[e][i], now) => ~Admits(WindowOf(e), log[e][i].counter))
  BY <1>1, <1>2, ReachesBefore DEF Barred
<1>3. CASE Advances(e, log[e][i])
  <2>1. Proper(WindowOf(e)) /\ log[e][i].counter \in U64 /\ log[e][i].timestamp_ms \in U64
    BY WindowType, LetterFields
  <2>2. /\ Admits(WindowOf(e), log[e][i].counter)
        /\ WindowOf(e)' = SeenAt(admit(WindowOf(e), log[e][i].counter), log[e][i].timestamp_ms)
    BY <1>3 DEF Advances
  <2>3. ~Admits(WindowOf(e)', log[e][i].counter)
    BY <2>1, <2>2, RefusedForGood
  <2> QED
    BY <1>1, <2>3 DEF Barred
<1> QED
  BY <1>1, <1>2, <1>3, AskedWindow

\* A barred envelope is dropped, and the streams stay as they are.
LEMMA BarredInert ==
  ASSUME Inv, NEW e \in Ends, NEW i \in DOMAIN log[e], Barred(e, log[e][i]),
         NEW r \in Outcomes(e, log[e][i])
  PROVE  r.kind = "Dropped" /\ r.ep.sessions = ep[e].sessions
<1>1. PICK o \in open_message(ep[e].guard, log[e][i], now) :
        /\ Advanced(ep[e], o) \in Endpoints(Ends, Cids)
        /\ AcceptedAs(ep[e], log[e][i], now, TRUE, o, r)
  BY LetterOutcome DEF Outcomes
<1>2. o.verdict # "Opened"
  BY WindowVerdict DEF Barred
<1>3. r = Dropped(Advanced(ep[e], o), o.verdict)
  BY <1>1, <1>2 DEF AcceptedAs
<1>4. Advanced(ep[e], o).sessions = ep[e].sessions
  <2>1. ep[e] \in Endpoints(Ends, Cids)
    BY EndTypes
  <2> QED
    BY <2>1, WithFields DEF Advanced
<1> QED
  BY <1>3, <1>4 DEF Dropped, Outcome

\* At an endpoint that keeps its guard, a delivered frame that is presented again is
\* dropped by accept and touches no session: neither the counters let in after it, nor
\* the clock, nor the frames of other streams make the guard let it in twice.
THEOREM ReplaysAreInert ==
  ASSUME WideUsize, Restartable = {}
  PROVE  Spec => []ReplayIsInert
<1> DEFINE Out(e) == \A i \in DOMAIN log[e] : i <= delivered[e] => Barred(e, log[e][i])
           J == Inv /\ \A e \in Ends : Out(e)
<1>1. Init => J
  <2>1. Init => \A e \in Ends : DOMAIN log[e] = {}
    BY EmptySeq DEF Init
  <2> QED
    BY <2>1, InvInit
<1>2. J /\ [Next]_vars => J'
  <2> SUFFICES ASSUME J, [Next]_vars, NEW e \in Ends PROVE Out(e)'
    BY InvStep
  <2>1. Happens /\ ~Restart(e)
    BY StepHappens DEF Restart
  <2>2. ASSUME NEW i \in DOMAIN log[e], i <= delivered[e] PROVE Barred(e, log[e][i])'
    BY <2>1, <2>2, BarredStep
  <2>3. \A i \in DOMAIN log[e] : log'[e][i] = log[e][i]
    BY <2>1, LogKeeps
  <2>4. /\ DOMAIN log[e] = 1 .. Len(log[e]) /\ Len(log[e]) \in Nat
        /\ delivered[e] \in Nat /\ delivered[e] <= Len(log[e])
    BY EndTypes DEF Inv
  <2>5. log'[e] \in Seq(Letters) /\ DOMAIN log'[e] = 1 .. Len(log'[e])
    <3>1. Inv'
      BY InvStep
    <3> QED
      BY <3>1 DEF Inv
  <2>6. CASE delivered'[e] = delivered[e]
    <3> SUFFICES ASSUME NEW i \in DOMAIN log'[e], i <= delivered[e]
                 PROVE  Barred(e, log[e][i])'
      BY <2>6
    <3>1. i \in DOMAIN log[e]
      BY <2>4, <2>5
    <3> QED
      BY <2>2, <3>1
  <2>7. ASSUME NEW i \in DOMAIN log[e], Receives(e, i) PROVE Out(e)'
    <3>1. Barred(e, log[e][i])'
      BY <2>1, <2>7, PresentedBarred
    <3>2. CASE i = delivered[e] + 1 /\ delivered' = [delivered EXCEPT ![e] = @ + 1]
      <4>1. delivered'[e] = delivered[e] + 1
        BY <3>2 DEF Inv
      <4> SUFFICES ASSUME NEW j \in DOMAIN log'[e], j <= delivered[e] + 1
                   PROVE  Barred(e, log[e][j])'
        BY <4>1
      <4>2. j \in DOMAIN log[e] /\ (j = i \/ j <= delivered[e])
        BY <2>4, <2>5, <3>2
      <4> QED
        BY <2>2, <3>1, <4>2
    <3> QED
      BY <2>6, <2>7, <3>2 DEF Receives
  <2> QED
    BY <2>1, <2>6, <2>7, WindowStep
<1>3. J => ReplayIsInert
  <2> SUFFICES ASSUME J, NEW e \in Ends, NEW i \in 1 .. delivered[e],
                      NEW r \in Outcomes(e, log[e][i])
               PROVE  r.kind = "Dropped" /\ r.ep.sessions = ep[e].sessions
    BY DEF ReplayIsInert
  <2>1. /\ DOMAIN log[e] = 1 .. Len(log[e]) /\ Len(log[e]) \in Nat
        /\ delivered[e] \in Nat /\ delivered[e] <= Len(log[e])
    BY EndTypes DEF Inv
  <2>2. i \in DOMAIN log[e] /\ i <= delivered[e]
    BY <2>1
  <2>3. Barred(e, log[e][i])
    BY <2>2
  <2> QED
    BY <2>2, <2>3, BarredInert
<1> QED
  BY <1>1, <1>2, <1>3, PTL DEF Spec
-----------------------------------------------------------------------------
(***************************************************************************)
(* A stream is born at most once at each end.                              *)
(***************************************************************************)

\* An end that has streams opened by its peer keeps its guard.
OnlyOpenersRestart == \A e \in Restartable : CidsOf[Peer(e)] = {}

\* The peer opens a stream at most once, so e is sent its OPEN at most once.
OpensOnce(e) ==
  \A i \in DOMAIN log[e] : log[e][i].stream.frame = OPEN =>
    /\ log[e][i].correlation_id \in used[Peer(e)]
    /\ \A j \in DOMAIN log[e] :
         /\ log[e][j].stream.frame = OPEN
         /\ log[e][j].correlation_id = log[e][i].correlation_id
         => i = j

\* e has not had stream c yet: it has not opened it or, for a stream of its peer, the
\* guard would still let in the OPEN.
Unborn(e, c) ==
  IF c \in CidsOf[e]
    THEN c \notin used[e]
    ELSE \A i \in DOMAIN log[e] :
           /\ log[e][i].stream.frame = OPEN /\ log[e][i].correlation_id = c
           => Admits(WindowOf(e), log[e][i].counter)

\* What the window refuses it goes on refusing, as long as the end keeps it.
LEMMA RefusesOn ==
  ASSUME Inv, Happens, WideUsize, NEW e \in Ends, ~Restart(e), NEW n \in U64,
         ~Admits(WindowOf(e), n)
  PROVE  ~Admits(WindowOf(e)', n)
<1>1. CASE WindowOf(e)' = WindowOf(e)
  BY <1>1
<1>2. ASSUME NEW i \in DOMAIN log[e], Receives(e, i) PROVE ~Admits(WindowOf(e)', n)
  <2>1. Asked(e, i)
    BY <1>2 DEF Receives, Accepted
  <2>2. CASE Advances(e, log[e][i])
    <3>1. Proper(WindowOf(e)) /\ log[e][i].counter \in U64 /\ log[e][i].timestamp_ms \in U64
      BY WindowType, LetterFields
    <3>2. /\ Admits(WindowOf(e), log[e][i].counter)
          /\ WindowOf(e)' = SeenAt(admit(WindowOf(e), log[e][i].counter), log[e][i].timestamp_ms)
      BY <2>2 DEF Advances
    <3> QED
      BY <3>1, <3>2, RefusedForGood
  <2> QED
    BY <1>1, <2>1, <2>2, AskedWindow
<1> QED
  BY <1>1, <1>2, WindowStep

\* What an end has opened stays opened.
LEMMA UsedGrows ==
  ASSUME Inv, Happens, NEW e \in Ends
  PROVE  used[e] \subseteq used'[e]
<1>1. CASE UNCHANGED vars \/ Tick
  BY <1>1 DEF vars, Tick
<1>2. ASSUME NEW d \in Ends, Restart(d) PROVE used' = used
  BY <1>2, RestartShape
<1>3. ASSUME NEW d \in Ends, NEW c \in Cids, NEW q, Does(d, c, q) PROVE used[e] \subseteq used'[e]
  <2>1. CASE Opens(d, c, q)
    BY <2>1 DEF Opens, Inv
  <2>2. CASE used' = used
    BY <2>2
  <2> QED
    BY <1>3, <2>1, <2>2 DEF Does, Minor, Speaks, Answers, Hears
<1> QED
  BY <1>1, <1>2, <1>3, Deeds

\* A stream that was born stays so.
LEMMA BornForGood ==
  ASSUME Inv, Happens, WideUsize, OnlyOpenersRestart, NEW e \in Ends, NEW c \in Cids,
         Unborn(e, c)'
  PROVE  Unborn(e, c)
<1>1. CASE c \in CidsOf[e]
  BY <1>1, UsedGrows DEF Unborn
<1>2. CASE c \notin CidsOf[e]
  <2>1. ~Restart(e)
    <3>1. c \in CidsOf[Peer(e)]
      BY <1>2 DEF Cids, Ends, Peer
    <3> QED
      BY <3>1 DEF Restart, OnlyOpenersRestart
  <2>2. ASSUME NEW i \in DOMAIN log[e],
               log[e][i].stream.frame = OPEN, log[e][i].correlation_id = c
        PROVE  Admits(WindowOf(e), log[e][i].counter)
    <3>1. i \in DOMAIN log'[e] /\ log'[e][i] = log[e][i]
      BY LogKeeps
    <3>2. Admits(WindowOf(e)', log[e][i].counter)
      BY <1>2, <2>2, <3>1 DEF Unborn
    <3>3. log[e][i].counter \in U64
      BY LetterFields
    <3> QED
      BY <2>1, <3>2, <3>3, RefusesOn
  <2> QED
    BY <1>2, <2>2 DEF Unborn
<1> QED
  BY <1>1, <1>2

\* The frames e is sent stay one OPEN per stream.
LEMMA OpensOnceStep ==
  ASSUME Inv, Happens, NEW e \in Ends, OpensOnce(e)
  PROVE  OpensOnce(e)'
<1> DEFINE p == Peer(e)
<1>1. p \in Ends /\ Peer(p) = e /\ p # e /\ Ends = {e, p}
  BY PeerOf
<1>2. used[p] \subseteq used'[p]
  BY <1>1, UsedGrows
<1>3. CASE log'[e] = log[e]
  BY <1>2, <1>3 DEF OpensOnce
<1>4. ASSUME NEW d \in Ends, NEW c \in Cids, NEW q, Does(d, c, q), log'[e] # log[e]
      PROVE  OpensOnce(e)'
  <2>1. log'[d] = log[d] /\ log'[Peer(d)] = log[Peer(d)] \o q
    BY <1>4, LogAfter DEF Does
  <2>2. d = p
    BY <1>1, <1>4, <2>1
  <2>3. log[e] \in Seq(Letters) /\ log'[e] = log[e] \o q
    BY <1>1, <2>1, <2>2, EndTypes
  <2>4. q # <<>>
    BY <1>4, <2>3, ConcatEmptySeq
  <2>5. PICK l \in Letters : q = <<l>> /\ Posted(p, c, l)
    BY <1>4, <2>2, <2>4 DEF Does, Acts
  <2>6. log'[e] = Append(log[e], l) /\ q[1] = l
    BY <2>3, <2>5, AppendIsConcat
  <2>7. /\ DOMAIN log[e] = 1 .. Len(log[e]) /\ Len(log[e]) \in Nat
        /\ DOMAIN log'[e] = 1 .. Len(log[e]) + 1 /\ log'[e][Len(log[e]) + 1] = l
        /\ \A i \in DOMAIN log[e] : i \in DOMAIN log'[e] /\ log'[e][i] = log[e][i]
    BY <2>6, LogGrown
  <2>8. \A i \in DOMAIN log'[e] : i \in DOMAIN log[e] \/ i = Len(log[e]) + 1
    BY <2>7
  <2>9. l.correlation_id = c
    BY <2>5 DEF Posted
  <2>10. CASE l.stream.frame # OPEN
    BY <1>2, <2>7, <2>8, <2>10 DEF OpensOnce
  <2>11. CASE l.stream.frame = OPEN
    <3>1. Opens(p, c, q)
      <4>1. OPEN # DATA
        BY DEF OPEN, DATA
      <4> QED
        BY <1>4, <2>2, <2>4, <2>6, <2>11, <4>1 DEF Does, Minor, Speaks, Answers, Hears
    <3>2. c \notin used[p] /\ c \in used'[p]
      BY <1>1, <3>1 DEF Opens, Inv
    <3>3. \A i \in DOMAIN log[e] : log[e][i].stream.frame = OPEN => log[e][i].correlation_id # c
      BY <3>2 DEF OpensOnce
    <3> QED
      BY <1>2, <2>7, <2>8, <2>9, <2>11, <3>2, <3>3, SMTT(30) DEF OpensOnce
  <2> QED
    BY <2>10, <2>11
<1>5. CASE UNCHANGED vars \/ Tick
  BY <1>3, <1>5 DEF vars, Tick
<1>6. ASSUME NEW d \in Ends, Restart(d) PROVE log' = log
  BY <1>6, RestartShape
<1> QED
  BY <1>3, <1>4, <1>5, <1>6, Deeds
-----------------------------------------------------------------------------
(***************************************************************************)
(* What a step is to one stream at one end.                                *)
(***************************************************************************)

\* The chunks of stream c posted by e so far.
DataFrom(e, c) == DataOf(Peer(e), c, log[Peer(e)])

\* Nothing that counts happens: the stream stays or goes, no chunk is posted or taken.
Quiet(e, c) ==
  /\ c \in Live(ep'[e]) => /\ c \in Live(ep[e])
                           /\ ep'[e].sessions[c].send_seq = ep[e].sessions[c].send_seq
                           /\ ep'[e].sessions[c].recv_seq = ep[e].sessions[c].recv_seq
  /\ got'[e][c] = got[e][c] /\ DataFrom(e, c)' = DataFrom(e, c)

\* The stream comes to be.
Born(e, c) ==
  /\ Unborn(e, c) /\ ~Unborn(e, c)'
  /\ c \in Live(ep'[e]) => ep'[e].sessions[c].send_seq = 0 /\ ep'[e].sessions[c].recv_seq = 0
  /\ got'[e][c] = got[e][c] /\ DataFrom(e, c)' = DataFrom(e, c)

\* A chunk is posted.
Says(e, c) ==
  \E l \in Letters :
    /\ l.correlation_id = c /\ l.stream.frame = DATA
    /\ l.stream.seq = ep[e].sessions[c].send_seq /\ l.payload = Chunks(e, c) + 1
    /\ log'[Peer(e)] = Append(log[Peer(e)], l)

\* A chunk is numbered; it is posted, unless sealing it fails.
Tells(e, c) ==
  /\ c \in Live(ep[e]) /\ c \in Live(ep'[e])
  /\ ep'[e].sessions[c].send_seq = ep[e].sessions[c].send_seq + 1
  /\ ep'[e].sessions[c].recv_seq = ep[e].sessions[c].recv_seq
  /\ got'[e][c] = got[e][c]
  /\ DataFrom(e, c)' = DataFrom(e, c) \/ Says(e, c)

\* A chunk is taken.
Listens(e, c) ==
  /\ c \in Live(ep[e])
  /\ \E i \in DataOf(e, c, log[e]) : /\ log[e][i].stream.seq = ep[e].sessions[c].recv_seq
                                     /\ got'[e][c] = Append(got[e][c], log[e][i].payload)
  /\ c \in Live(ep'[e]) =>
       /\ ep'[e].sessions[c].send_seq = ep[e].sessions[c].send_seq
       /\ ep'[e].sessions[c].recv_seq = ep[e].sessions[c].recv_seq + 1
  /\ DataFrom(e, c)' = DataFrom(e, c)

\* An envelope that is no chunk of c leaves the chunks of c as they are.
LEMMA SameData ==
  ASSUME Inv, NEW e \in Ends, NEW c, NEW l \in Letters, log'[e] = Append(log[e], l),
         l.correlation_id # c \/ l.stream.frame # DATA
  PROVE  DataOf(e, c, log'[e]) = DataOf(e, c, log[e])
<1>1. /\ DOMAIN log[e] = 1 .. Len(log[e]) /\ Len(log[e]) \in Nat
      /\ DOMAIN log'[e] = 1 .. Len(log[e]) + 1 /\ log'[e][Len(log[e]) + 1] = l
      /\ \A i \in DOMAIN log[e] : i \in DOMAIN log'[e] /\ log'[e][i] = log[e][i]
  BY LogGrown
<1>2. \A i \in DOMAIN log'[e] : i \in DOMAIN log[e] \/ i = Len(log[e]) + 1
  BY <1>1
<1> QED
  BY <1>1, <1>2 DEF DataOf

\* What e posts: nothing, or one envelope about the stream of the step.
LEMMA PostsOf ==
  ASSUME Inv, NEW e \in Ends, NEW c \in Cids, NEW q, Acts(e, c, q)
  PROVE  \/ q = <<>> /\ log'[Peer(e)] = log[Peer(e)]
         \/ \E l \in Letters : /\ q # <<>> /\ q[1] = l /\ l.correlation_id = c
                               /\ log'[Peer(e)] = Append(log[Peer(e)], l)
<1>1. Peer(e) \in Ends /\ log[Peer(e)] \in Seq(Letters)
  BY PeerOf, EndTypes
<1>2. log'[Peer(e)] = log[Peer(e)] \o q
  BY LogAfter
<1>3. CASE q = <<>>
  BY <1>1, <1>2, <1>3, ConcatEmptySeq
<1>4. ASSUME NEW l \in Letters, q = <<l>>, Posted(e, c, l)
      PROVE  q # <<>> /\ q[1] = l /\ l.correlation_id = c /\ log'[Peer(e)] = Append(log[Peer(e)], l)
  BY <1>1, <1>2, <1>4, AppendIsConcat DEF Posted
<1> QED
  BY <1>3, <1>4 DEF Acts

\* A step about another stream, or at the other end, is quiet for this one.
LEMMA ElsewhereQuiet ==
  ASSUME Inv, NEW d \in Ends, NEW b \in Cids, NEW q, Does(d, b, q),
         NEW e \in Ends, NEW c \in Cids, e # d \/ c # b
  PROVE  Quiet(e, c)
<1>1. Acts(d, b, q) /\ Touches(d, b, ep'[d].send_counter, ep'[d].guard)
  BY DEF Does, Acts
<1>2. Peer(d) \in Ends /\ Peer(d) # d /\ Peer(Peer(d)) = d /\ Ends = {d, Peer(d)}
  BY PeerOf
<1>3. got'[e][c] = got[e][c]
  <2>1. CASE got' = got
    BY <2>1
  <2>2. CASE Hears(d, b, q)
    <3>1. PICK i \in DOMAIN log[d] : got' = [got EXCEPT ![d][b] = Append(@, log[d][i].payload)]
      BY <2>2 DEF Hears
    <3>2. got \in [Ends -> [Cids -> Seq(Nat)]]
      BY DEF Inv
    <3> QED
      BY <3>1, <3>2
  <2> QED
    BY <2>1, <2>2 DEF Does, Minor, Speaks, Answers, Opens
<1>4. CASE e # d
  <2>1. e = Peer(d) /\ Peer(e) = d
    BY <1>2, <1>4
  <2>2. ep'[e] = ep[e]
    BY <1>1, <2>1 DEF Touches
  <2>3. log'[d] = log[d]
    BY <1>1, LogAfter
  <2>4. DataFrom(e, c)' = DataFrom(e, c)
    BY <2>1, <2>3 DEF DataFrom
  <2> QED
    BY <1>3, <2>2, <2>4 DEF Quiet
<1>5. CASE e = d /\ c # b
  <2>1. /\ c \in Live(ep'[e]) <=> c \in Live(ep[e])
        /\ c \in Live(ep[e]) => ep'[e].sessions[c] = ep[e].sessions[c]
    BY <1>1, <1>5 DEF Touches
  <2>2. DataOf(Peer(e), c, log'[Peer(e)]) = DataOf(Peer(e), c, log[Peer(e)])
    <3>1. CASE log'[Peer(e)] = log[Peer(e)]
      BY <3>1
    <3>2. ASSUME NEW l \in Letters, l.correlation_id = b, log'[Peer(e)] = Append(log[Peer(e)], l)
          PROVE  DataOf(Peer(e), c, log'[Peer(e)]) = DataOf(Peer(e), c, log[Peer(e)])
      BY <1>2, <1>5, <3>2, SameData
    <3> QED
      BY <1>1, <1>5, <3>1, <3>2, PostsOf
  <2>3. DataFrom(e, c)' = DataFrom(e, c)
    BY <2>2 DEF DataFrom
  <2> QED
    BY <1>3, <2>1, <2>3 DEF Quiet
<1> QED
  BY <1>4, <1>5

\* A step that posts no chunk of its stream.
LEMMA NoChunk ==
  ASSUME Inv, NEW e \in Ends, NEW c \in Cids, NEW q, Acts(e, c, q),
         q # <<>> => q[1].stream.frame # DATA
  PROVE  DataFrom(e, c)' = DataFrom(e, c)
<1>1. Peer(e) \in Ends
  BY PeerOf
<1>2. CASE log'[Peer(e)] = log[Peer(e)]
  BY <1>2 DEF DataFrom
<1>3. ASSUME NEW l \in Letters, q # <<>>, q[1] = l, log'[Peer(e)] = Append(log[Peer(e)], l)
      PROVE  DataFrom(e, c)' = DataFrom(e, c)
  <2>1. DataOf(Peer(e), c, log'[Peer(e)]) = DataOf(Peer(e), c, log[Peer(e)])
    BY <1>1, <1>3, SameData
  <2> QED
    BY <2>1 DEF DataFrom
<1> QED
  BY <1>2, <1>3, PostsOf

\* The streams of one end are not those of the other.
LEMMA CidsApart ==
  ASSUME NEW e \in Ends, NEW c \in CidsOf[Peer(e)]
  PROVE  c \notin CidsOf[e]
  BY PairAssumption DEF Ends, Peer

\* open brings a stream to be at the end that opens it.
LEMMA OpensBorn ==
  ASSUME Inv, NEW e \in Ends, NEW c \in Cids, NEW q, Acts(e, c, q), Opens(e, c, q)
  PROVE  Born(e, c)
<1>1. c \in CidsOf[e] /\ c \notin used[e] /\ c \in used'[e]
  BY DEF Opens, Inv
<1>2. Unborn(e, c) /\ ~Unborn(e, c)'
  BY <1>1 DEF Unborn
<1>3. q # <<>> => q[1].stream.frame # DATA
  BY DEF Opens, OPEN, DATA
<1>4. DataFrom(e, c)' = DataFrom(e, c)
  BY <1>3, NoChunk
<1> QED
  BY <1>2, <1>4 DEF Born, Opens, Begins

\* An OPEN brings the peer's stream to be.
LEMMA AnswersBorn ==
  ASSUME Inv, WideUsize, NEW e \in Ends, OpensOnce(e), NEW c \in Cids, NEW q,
         Acts(e, c, q), Answers(e, c, q)
  PROVE  Born(e, c)
<1>1. PICK i \in DOMAIN log[e] : /\ log[e][i].correlation_id = c
                                 /\ log[e][i].stream.frame = OPEN /\ LetsIn(e, i)
  BY DEF Answers
<1>2. /\ Admits(WindowOf(e), log[e][i].counter)
      /\ ~Admits(WindowOf(e)', log[e][i].counter)
  BY <1>1 DEF LetsIn, WindowOf
<1>3. c \notin CidsOf[e]
  <2>1. c \in used[Peer(e)] /\ Peer(e) \in Ends
    BY <1>1, PeerOf DEF OpensOnce
  <2>2. c \in CidsOf[Peer(e)]
    BY <2>1 DEF Inv
  <2> QED
    BY <2>2, CidsApart
<1>4. \A j \in DOMAIN log[e] :
        /\ log[e][j].stream.frame = OPEN /\ log[e][j].correlation_id = c
        => j = i
  BY <1>1 DEF OpensOnce
<1>5. Unborn(e, c)
  BY <1>2, <1>3, <1>4 DEF Unborn
<1>6. log'[e] = log[e]
  BY LogAfter
<1>7. ~Unborn(e, c)'
  BY <1>1, <1>2, <1>3, <1>6 DEF Unborn
<1>8. DataFrom(e, c)' = DataFrom(e, c)
  BY NoChunk DEF Answers
<1> QED
  BY <1>5, <1>7, <1>8 DEF Born, Answers, Begins

\* send_data posts a chunk with the next number and sequence number, or loses it.
LEMMA SpeaksTells ==
  ASSUME Inv, NEW e \in Ends, NEW c \in Cids, NEW q, Acts(e, c, q), Speaks(e, c, q)
  PROVE  Tells(e, c)
<1>1. CASE log'[Peer(e)] = log[Peer(e)]
  <2>1. DataFrom(e, c)' = DataFrom(e, c)
    BY <1>1 DEF DataFrom
  <2> QED
    BY <2>1 DEF Tells, Speaks
<1>2. ASSUME NEW l \in Letters, q # <<>>, q[1] = l, l.correlation_id = c,
             log'[Peer(e)] = Append(log[Peer(e)], l)
      PROVE  Tells(e, c)
  <2>1. Says(e, c)
    BY <1>2 DEF Says, Speaks
  <2> QED
    BY <2>1 DEF Tells, Speaks
<1> QED
  BY <1>1, <1>2, PostsOf

\* A DATA frame that accept takes is a chunk of the stream, the next one in order.
LEMMA HearsListens ==
  ASSUME Inv, NEW e \in Ends, NEW c \in Cids, NEW q, Acts(e, c, q), Hears(e, c, q)
  PROVE  Listens(e, c)
<1>1. PICK i \in DOMAIN log[e] :
        /\ log[e][i].correlation_id = c /\ log[e][i].stream.frame = DATA
        /\ log[e][i].stream.seq = ep[e].sessions[c].recv_seq
        /\ got' = [got EXCEPT ![e][c] = Append(@, log[e][i].payload)]
  BY DEF Hears
<1>2. i \in DataOf(e, c, log[e])
  BY <1>1 DEF DataOf
<1>3. got'[e][c] = Append(got[e][c], log[e][i].payload)
  <2>1. got \in [Ends -> [Cids -> Seq(Nat)]]
    BY DEF Inv
  <2> QED
    BY <1>1, <2>1
<1>4. DataFrom(e, c)' = DataFrom(e, c)
  BY NoChunk DEF Hears
<1> QED
  BY <1>1, <1>2, <1>3, <1>4 DEF Listens, Hears

\* Every step is one of four for a given stream at a given end.
LEMMA StreamStep ==
  ASSUME Inv, Happens, WideUsize, NEW e \in Ends, OpensOnce(e), NEW c \in Cids
  PROVE  Quiet(e, c) \/ Born(e, c) \/ Tells(e, c) \/ Listens(e, c)
<1>1. CASE UNCHANGED vars \/ Tick
  <2>1. ep' = ep /\ got' = got /\ log' = log
    BY <1>1 DEF vars, Tick
  <2> QED
    BY <2>1 DEF Quiet, DataFrom
<1>2. ASSUME NEW d \in Ends, Restart(d) PROVE Quiet(e, c)
  <2>1. ep'[d] = StartOf(d) /\ ep'[Peer(d)] = ep[Peer(d)] /\ log' = log /\ got' = got
    BY <1>2, RestartShape
  <2>2. Live(StartOf(d)) = {}
    BY StartGood
  <2>3. e = d \/ e = Peer(d)
    BY PeerOf
  <2>4. c \in Live(ep'[e]) => ep'[e] = ep[e]
    BY <2>1, <2>2, <2>3
  <2> QED
    BY <2>1, <2>4 DEF Quiet, DataFrom
<1>3. ASSUME NEW d \in Ends, NEW b \in Cids, NEW q, Does(d, b, q)
      PROVE  Quiet(e, c) \/ Born(e, c) \/ Tells(e, c) \/ Listens(e, c)
  <2>1. CASE e # d \/ c # b
    BY <1>3, <2>1, ElsewhereQuiet
  <2>2. CASE e = d /\ c = b
    <3>1. Acts(e, c, q)
      BY <1>3, <2>2 DEF Does
    <3>2. CASE Minor(e, c, q)
      <4>1. DataFrom(e, c)' = DataFrom(e, c)
        BY <3>1, <3>2, NoChunk DEF Minor
      <4> QED
        BY <3>2, <4>1 DEF Quiet, Minor
    <3>3. CASE Speaks(e, c, q)
      BY <3>1, <3>3, SpeaksTells
    <3>4. CASE Opens(e, c, q)
      BY <3>1, <3>4, OpensBorn
    <3>5. CASE Answers(e, c, q)
      BY <3>1, <3>5, AnswersBorn
    <3>6. CASE Hears(e, c, q)
      BY <3>1, <3>6, HearsListens
    <3> QED
      BY <1>3, <2>2, <3>2, <3>3, <3>4, <3>5, <3>6 DEF Does
  <2> QED
    BY <2>1, <2>2
<1> QED
  BY <1>1, <1>2, <1>3, Deeds
-----------------------------------------------------------------------------
(***************************************************************************)
(* The chunks of a stream, their numbers and their sequence numbers.       *)
(***************************************************************************)

\* The sequence numbers of the chunks e posted on stream c.
SeqsFrom(e, c) == {log[Peer(e)][i].stream.seq : i \in DataFrom(e, c)}

\* Before a stream comes to be at an end, that end has no trace of it.
Blank(e, c) ==
  Unborn(e, c) => /\ c \notin Live(ep[e]) /\ DataFrom(e, c) = {}
                  /\ e \notin restarted => got[e][c] = <<>>

\* Some sequence number below n is not in S: it was lost with a failed seal.
Gap(S, n) == \E m \in Nat : m < n /\ m \notin S

\* Chunk k of a stream has sequence number k - 1, or an earlier one was lost.
Numbered(e, c) ==
  \A i \in DataFrom(e, c) :
    /\ log[Peer(e)][i].payload \in 1 .. Chunks(e, c)
    /\ \/ log[Peer(e)][i].payload = log[Peer(e)][i].stream.seq + 1
       \/ Gap(SeqsFrom(e, c), log[Peer(e)][i].stream.seq)

\* The sender's own count is ahead of what it posted.
Source(e, c) ==
  c \in Live(ep[e]) =>
    /\ \A i \in DataFrom(e, c) : log[Peer(e)][i].stream.seq < ep[e].sessions[c].send_seq
    /\ \/ Chunks(e, c) = ep[e].sessions[c].send_seq
       \/ Gap(SeqsFrom(e, c), ep[e].sessions[c].send_seq)

\* What the application at e was handed: chunk after chunk, each of them posted.
Taken(e, c) ==
  e \notin restarted =>
    /\ \A i \in DOMAIN got[e][c] : got[e][c][i] = i /\ i - 1 \in SeqsFrom(Peer(e), c)
    /\ Len(got[e][c]) <= Chunks(Peer(e), c)
    /\ c \in Live(ep[e]) => ep[e].sessions[c].recv_seq = Len(got[e][c])

\* The chunks are counted.
LEMMA ChunkCount ==
  ASSUME Inv, NEW e \in Ends, NEW c
  PROVE  /\ IsFiniteSet(DataFrom(e, c)) /\ Chunks(e, c) = Cardinality(DataFrom(e, c))
         /\ Chunks(e, c) \in Nat
<1>1. Peer(e) \in Ends /\ log[Peer(e)] \in Seq(Letters)
  BY PeerOf, EndTypes
<1>2. IsFiniteSet(DataFrom(e, c)) /\ Cardinality(DataFrom(e, c)) \in Nat
  BY <1>1, ChunksType DEF DataFrom
<1>3. Chunks(e, c) = Cardinality(DataFrom(e, c))
  BY DEF Chunks, DataFrom, DataOf
<1> QED
  BY <1>2, <1>3

\* The same after a step.
LEMMA ChunkCountNext ==
  ASSUME Inv', NEW e \in Ends, NEW c
  PROVE  /\ IsFiniteSet(DataFrom(e, c)') /\ Chunks(e, c)' = Cardinality(DataFrom(e, c)')
         /\ Chunks(e, c)' \in Nat
<1>1. Peer(e) \in Ends /\ log'[Peer(e)] \in Seq(Letters)
  BY PeerOf DEF Inv
<1>2. IsFiniteSet(DataFrom(e, c)') /\ Cardinality(DataFrom(e, c)') \in Nat
  BY <1>1, ChunksType DEF DataFrom
<1>3. Chunks(e, c)' = Cardinality(DataFrom(e, c)')
  BY DEF Chunks, DataFrom, DataOf
<1> QED
  BY <1>2, <1>3

\* A chunk that was posted has a number and a sequence number, and stays posted.
LEMMA ChunkFields ==
  ASSUME Inv, Happens, NEW e \in Ends, NEW c, NEW i \in DataFrom(e, c)
  PROVE  /\ log'[Peer(e)][i] = log[Peer(e)][i] /\ i \in DataFrom(e, c)'
         /\ log[Peer(e)][i].stream.seq \in Nat /\ log[Peer(e)][i].payload \in Nat
<1> DEFINE y == Peer(e)
<1>1. y \in Ends
  BY PeerOf
<1>2. /\ i \in DOMAIN log[y] /\ log[y][i].correlation_id = c /\ log[y][i].stream.frame = DATA
  BY DEF DataFrom, DataOf
<1>3. i \in DOMAIN log'[y] /\ log'[y][i] = log[y][i]
  BY <1>1, <1>2, LogKeeps
<1>4. i \in DataFrom(e, c)'
  BY <1>2, <1>3 DEF DataFrom, DataOf
<1>5. log[y][i].stream \in Headers /\ log[y][i].payload \in Nat
  BY <1>1, <1>2, LetterFields
<1>6. log[y][i].stream.seq \in Nat
  BY <1>5 DEF Headers, U64
<1> QED
  BY <1>3, <1>4, <1>5, <1>6

\* The chunks posted only become more.
LEMMA ChunksGrow ==
  ASSUME Inv, Inv', Happens, NEW e \in Ends, NEW c
  PROVE  SeqsFrom(e, c) \subseteq SeqsFrom(e, c)' /\ Chunks(e, c) <= Chunks(e, c)'
<1>1. \A i \in DataFrom(e, c) : i \in DataFrom(e, c)' /\ log'[Peer(e)][i] = log[Peer(e)][i]
  BY ChunkFields
<1>2. DataFrom(e, c) \subseteq DataFrom(e, c)'
  BY <1>1
<1>3. SeqsFrom(e, c) \subseteq SeqsFrom(e, c)'
  <2> SUFFICES ASSUME NEW n \in SeqsFrom(e, c) PROVE n \in SeqsFrom(e, c)'
    OBVIOUS
  <2>1. PICK i \in DataFrom(e, c) : n = log[Peer(e)][i].stream.seq
    BY DEF SeqsFrom
  <2>2. i \in DataFrom(e, c)' /\ n = log'[Peer(e)][i].stream.seq
    BY <1>1, <2>1
  <2> QED
    BY <2>2 DEF SeqsFrom
<1>4. IsFiniteSet(DataFrom(e, c)')
  BY ChunkCountNext
<1>5. Cardinality(DataFrom(e, c)) <= Cardinality(DataFrom(e, c)')
  BY <1>2, <1>4, FS_Subset
<1> QED
  BY <1>3, <1>5, ChunkCount, ChunkCountNext

\* Where no chunk is posted, the numbers stay.
LEMMA ChunksStay ==
  ASSUME Inv, Happens, NEW e \in Ends, NEW c, DataFrom(e, c)' = DataFrom(e, c)
  PROVE  /\ SeqsFrom(e, c)' = SeqsFrom(e, c) /\ Chunks(e, c)' = Chunks(e, c)
<1>1. \A i \in DataFrom(e, c) : log'[Peer(e)][i] = log[Peer(e)][i]
  BY ChunkFields
<1>2. SeqsFrom(e, c)' = SeqsFrom(e, c)
  BY <1>1 DEF SeqsFrom
<1>3. Chunks(e, c)' = Chunks(e, c)
  BY DEF Chunks, DataFrom, DataOf
<1> QED
  BY <1>2, <1>3

\* Where one is posted, it is the next.
LEMMA ChunkSaid ==
  ASSUME Inv, Inv', Happens, NEW e \in Ends, NEW c, Says(e, c)
  PROVE  \E n : /\ n \notin DataFrom(e, c) /\ DataFrom(e, c)' = DataFrom(e, c) \cup {n}
                /\ log'[Peer(e)][n].stream.seq = ep[e].sessions[c].send_seq
                /\ log'[Peer(e)][n].payload = Chunks(e, c) + 1
                /\ SeqsFrom(e, c)' = SeqsFrom(e, c) \cup {ep[e].sessions[c].send_seq}
                /\ Chunks(e, c)' = Chunks(e, c) + 1
<1> DEFINE y == Peer(e)
           n == Len(log[y]) + 1
<1>1. y \in Ends
  BY PeerOf
<1>2. PICK l \in Letters :
        /\ l.correlation_id = c /\ l.stream.frame = DATA
        /\ l.stream.seq = ep[e].sessions[c].send_seq /\ l.payload = Chunks(e, c) + 1
        /\ log'[y] = Append(log[y], l)
  BY DEF Says
<1>3. /\ DOMAIN log[y] = 1 .. Len(log[y]) /\ Len(log[y]) \in Nat
      /\ DOMAIN log'[y] = 1 .. Len(log[y]) + 1 /\ log'[y][Len(log[y]) + 1] = l
      /\ \A i \in DOMAIN log[y] : i \in DOMAIN log'[y] /\ log'[y][i] = log[y][i]
  BY <1>1, <1>2, LogGrown
<1>4. \A i \in DOMAIN log'[y] : i \in DOMAIN log[y] \/ i = n
  BY <1>3
<1>5. n \notin DOMAIN log[y] /\ n \in DOMAIN log'[y] /\ log'[y][n] = l
  BY <1>3
<1> HIDE DEF n
<1>6. n \notin DataFrom(e, c)
  BY <1>5 DEF DataFrom, DataOf
<1>7. DataFrom(e, c)' = DataFrom(e, c) \cup {n}
  BY <1>2, <1>3, <1>4, <1>5 DEF DataFrom, DataOf
<1>8. \A i \in DataFrom(e, c) : log'[y][i] = log[y][i]
  BY ChunkFields
<1>9. SeqsFrom(e, c)' = SeqsFrom(e, c) \cup {ep[e].sessions[c].send_seq}
  <2>1. SeqsFrom(e, c)' = {log'[y][i].stream.seq : i \in DataFrom(e, c) \cup {n}}
    BY <1>7 DEF SeqsFrom
  <2>2. SeqsFrom(e, c) = {log[y][i].stream.seq : i \in DataFrom(e, c)}
    BY DEF SeqsFrom
  <2>3. log'[y][n].stream.seq = ep[e].sessions[c].send_seq
    BY <1>2, <1>5
  <2> HIDE DEF y
  <2> QED
    BY <1>8, <2>1, <2>2, <2>3
<1>10. Chunks(e, c)' = Chunks(e, c) + 1
  <2>1. IsFiniteSet(DataFrom(e, c)) /\ Chunks(e, c) = Cardinality(DataFrom(e, c))
    BY ChunkCount
  <2>2. Cardinality(DataFrom(e, c) \cup {n}) = Cardinality(DataFrom(e, c)) + 1
    BY <1>6, <2>1, FS_AddElement
  <2>3. Chunks(e, c)' = Cardinality(DataFrom(e, c)')
    BY ChunkCountNext
  <2> QED
    BY <1>7, <2>1, <2>2, <2>3
<1> QED
  BY <1>2, <1>5, <1>6, <1>7, <1>9, <1>10

\* An end that was restarted stays so.
LEMMA RestartedGrows ==
  ASSUME Inv, Happens
  PROVE  restarted \subseteq restarted'
<1>1. CASE UNCHANGED vars \/ Tick
  BY <1>1 DEF vars, Tick
<1>2. ASSUME NEW d \in Ends, Restart(d) PROVE restarted \subseteq restarted'
  BY <1>2, RestartShape
<1>3. ASSUME NEW d \in Ends, NEW c \in Cids, NEW q, Does(d, c, q) PROVE restarted' = restarted
  BY <1>3 DEF Does, Acts
<1> QED
  BY <1>1, <1>2, <1>3, Deeds

\* An end without a trace of a stream stays so until the stream comes to be.
LEMMA BlankStep ==
  ASSUME Inv, Happens, WideUsize, OnlyOpenersRestart, NEW e \in Ends, OpensOnce(e),
         NEW c \in Cids, Blank(e, c)
  PROVE  Blank(e, c)'
<1> SUFFICES ASSUME Unborn(e, c)'
             PROVE  /\ c \notin Live(ep'[e]) /\ DataFrom(e, c)' = {}
                    /\ e \notin restarted' => got'[e][c] = <<>>
  BY DEF Blank
<1>1. Unborn(e, c)
  BY BornForGood
<1>2. /\ c \notin Live(ep[e]) /\ DataFrom(e, c) = {}
      /\ e \notin restarted => got[e][c] = <<>>
  BY <1>1 DEF Blank
<1>3. Quiet(e, c)
  BY <1>2, StreamStep DEF Born, Tells, Listens
<1> QED
  BY <1>2, <1>3, RestartedGrows DEF Quiet

\* A gap stays a gap when a chunk with a higher sequence number is posted.
LEMMA GapStays ==
  ASSUME NEW S, NEW n \in Nat, Gap(S, n), NEW k \in Nat, n <= k
  PROVE  Gap(S \cup {k}, n)
<1>1. PICK m \in Nat : m < n /\ m \notin S
  BY DEF Gap
<1>2. m # k
  BY <1>1
<1> QED
  BY <1>1, <1>2 DEF Gap

\* The numbers of the chunks and the sender's count keep in step, over failed seals and
\* restarts.
LEMMA SourceStep ==
  ASSUME Inv, Inv', Happens, WideUsize, NEW e \in Ends, OpensOnce(e), NEW c \in Cids,
         Blank(e, c), Numbered(e, c), Source(e, c)
  PROVE  Numbered(e, c)' /\ Source(e, c)'
<1> DEFINE y == Peer(e)
<1>1. ASSUME NEW i \in DataFrom(e, c)
      PROVE  /\ log'[y][i] = log[y][i]
             /\ log[y][i].stream.seq \in Nat /\ log[y][i].payload \in Nat
  BY ChunkFields
<1>2. Chunks(e, c) \in Nat /\ Chunks(e, c)' \in Nat
  BY ChunkCount, ChunkCountNext
<1>3. ASSUME c \in Live(ep[e]) PROVE ep[e].sessions[c].send_seq \in Nat
  <2>1. ep[e].sessions[c] \in Sessions
    BY <1>3, EndTypes
  <2> QED
    BY <2>1 DEF Sessions, U64
<1>4. ASSUME DataFrom(e, c)' = DataFrom(e, c)
      PROVE  /\ SeqsFrom(e, c)' = SeqsFrom(e, c) /\ Chunks(e, c)' = Chunks(e, c)
  BY <1>4, ChunksStay
<1>5. ASSUME DataFrom(e, c)' = DataFrom(e, c) PROVE Numbered(e, c)'
  BY <1>1, <1>4, <1>5 DEF Numbered
<1>6. CASE Quiet(e, c)
  <2>1. DataFrom(e, c)' = DataFrom(e, c)
    BY <1>6 DEF Quiet
  <2>2. Source(e, c)'
    BY <1>1, <1>4, <1>6, <2>1 DEF Quiet, Source
  <2> QED
    BY <1>5, <2>1, <2>2
<1>7. CASE Born(e, c)
  <2>1. DataFrom(e, c)' = DataFrom(e, c) /\ DataFrom(e, c) = {}
    BY <1>7 DEF Born, Blank
  <2>2. Chunks(e, c)' = 0
    BY <2>1, ChunkCountNext, FS_EmptySet
  <2>3. Source(e, c)'
    BY <1>7, <2>1, <2>2 DEF Born, Source
  <2> QED
    BY <1>5, <2>1, <2>3
<1>8. CASE Listens(e, c)
  <2>1. DataFrom(e, c)' = DataFrom(e, c)
    BY <1>8 DEF Listens
  <2>2. Source(e, c)'
    BY <1>1, <1>4, <1>8, <2>1 DEF Listens, Source
  <2> QED
    BY <1>5, <2>1, <2>2
<1>9. CASE Tells(e, c)
  <2> DEFINE k == ep[e].sessions[c].send_seq
  <2>1. c \in Live(ep[e]) /\ ep'[e].sessions[c].send_seq = k + 1 /\ k \in Nat
    BY <1>3, <1>9 DEF Tells
  <2>2. \A i \in DataFrom(e, c) : log[y][i].stream.seq < k
    BY <2>1 DEF Source
  <2>3. Chunks(e, c) = k \/ Gap(SeqsFrom(e, c), k)
    BY <2>1 DEF Source
  <2> HIDE DEF k
  <2>4. k \notin SeqsFrom(e, c)
    <3>1. \A i \in DataFrom(e, c) : log[y][i].stream.seq # k
      BY <1>1, <2>1, <2>2
    <3> QED
      BY <3>1 DEF SeqsFrom
  <2>5. CASE DataFrom(e, c)' = DataFrom(e, c)
    <3>1. Gap(SeqsFrom(e, c)', k + 1)
      BY <1>4, <2>1, <2>4, <2>5 DEF Gap
    <3>2. ASSUME NEW i \in DataFrom(e, c)' PROVE log'[y][i].stream.seq < k + 1
      BY <1>1, <2>1, <2>2, <2>5
    <3>3. Source(e, c)'
      BY <2>1, <3>1, <3>2 DEF Source
    <3> QED
      BY <1>5, <2>5, <3>3
  <2>6. CASE Says(e, c)
    <3>1. PICK n : /\ n \notin DataFrom(e, c) /\ DataFrom(e, c)' = DataFrom(e, c) \cup {n}
                   /\ log'[y][n].stream.seq = k /\ log'[y][n].payload = Chunks(e, c) + 1
                   /\ SeqsFrom(e, c)' = SeqsFrom(e, c) \cup {k}
                   /\ Chunks(e, c)' = Chunks(e, c) + 1
      BY <2>6, ChunkSaid DEF k
    <3>2. Gap(SeqsFrom(e, c), k) => Gap(SeqsFrom(e, c)', k) /\ Gap(SeqsFrom(e, c)', k + 1)
      <4>1. Gap(SeqsFrom(e, c), k) => Gap(SeqsFrom(e, c)', k)
        BY <2>1, <3>1, GapStays
      <4>2. Gap(SeqsFrom(e, c)', k) => Gap(SeqsFrom(e, c)', k + 1)
        BY <2>1 DEF Gap
      <4> QED
        BY <4>1, <4>2
    <3>3. ASSUME NEW i \in DataFrom(e, c)'
          PROVE  /\ log'[y][i].stream.seq < k + 1
                 /\ log'[y][i].payload \in 1 .. Chunks(e, c)'
                 /\ \/ log'[y][i].payload = log'[y][i].stream.seq + 1
                    \/ Gap(SeqsFrom(e, c)', log'[y][i].stream.seq)
      <4>1. CASE i = n
        BY <1>2, <2>1, <2>3, <3>1, <3>2, <4>1
      <4>2. CASE i \in DataFrom(e, c)
        <5>1. /\ log'[y][i] = log[y][i] /\ log[y][i].stream.seq \in Nat
              /\ log[y][i].stream.seq < k
          BY <1>1, <2>2, <4>2
        <5>2. /\ log[y][i].payload \in 1 .. Chunks(e, c)
              /\ \/ log[y][i].payload = log[y][i].stream.seq + 1
                 \/ Gap(SeqsFrom(e, c), log[y][i].stream.seq)
          BY <4>2 DEF Numbered
        <5>3. Gap(SeqsFrom(e, c), log[y][i].stream.seq) => Gap(SeqsFrom(e, c)', log[y][i].stream.seq)
          <6>1. log[y][i].stream.seq <= k
            BY <2>1, <5>1
          <6> QED
            BY <2>1, <3>1, <5>1, <6>1, GapStays
        <5>4. log[y][i].stream.seq < k + 1 /\ log[y][i].payload \in 1 .. Chunks(e, c)'
          BY <1>2, <2>1, <3>1, <5>1, <5>2
        <5> QED
          BY <5>1, <5>2, <5>3, <5>4
      <4> QED
        BY <3>1, <4>1, <4>2
    <3>4. Chunks(e, c)' = k + 1 \/ Gap(SeqsFrom(e, c)', k + 1)
      BY <2>3, <3>1, <3>2
    <3>5. Source(e, c)'
      BY <2>1, <3>3, <3>4 DEF Source
    <3>6. Numbered(e, c)'
      BY <3>3 DEF Numbered
    <3> QED
      BY <3>5, <3>6
  <2> QED
    BY <1>9, <2>5, <2>6 DEF Tells
<1> QED
  BY <1>6, <1>7, <1>8, <1>9, StreamStep

\* What an application is handed stays a prefix of what was posted: a chunk is taken only
\* with the next sequence number, so none before it was lost, and its number is the next.
LEMMA TakenStep ==
  ASSUME Inv, Inv', Happens, WideUsize, NEW e \in Ends, OpensOnce(e), NEW c \in Cids,
         Blank(e, c), Taken(e, c), Numbered(Peer(e), c)
  PROVE  Taken(e, c)'
<1> DEFINE p == Peer(e)
           G == got[e][c]
           n == Len(G)
<1> SUFFICES ASSUME e \notin restarted'
             PROVE  /\ \A i \in DOMAIN got'[e][c] :
                         got'[e][c][i] = i /\ i - 1 \in SeqsFrom(p, c)'
                    /\ Len(got'[e][c]) <= Chunks(p, c)'
                    /\ c \in Live(ep'[e]) => ep'[e].sessions[c].recv_seq = Len(got'[e][c])
  BY DEF Taken
<1>1. p \in Ends /\ Peer(p) = e
  BY PeerOf
<1>2. e \notin restarted
  BY RestartedGrows
<1>3. /\ \A i \in DOMAIN G : G[i] = i /\ i - 1 \in SeqsFrom(p, c)
      /\ n <= Chunks(p, c)
      /\ c \in Live(ep[e]) => ep[e].sessions[c].recv_seq = n
  BY <1>2 DEF Taken
<1>4. SeqsFrom(p, c) \subseteq SeqsFrom(p, c)' /\ Chunks(p, c) <= Chunks(p, c)'
  BY <1>1, ChunksGrow
<1>5. Chunks(p, c) \in Nat /\ Chunks(p, c)' \in Nat
  BY <1>1, ChunkCount, ChunkCountNext
<1>6. G \in Seq(Nat) /\ n \in Nat /\ DOMAIN G = 1 .. n
  <2>1. G \in Seq(Nat)
    BY DEF Inv
  <2> QED
    BY <2>1
<1>7. n <= Chunks(p, c)'
  BY <1>3, <1>4, <1>5, <1>6
<1>8. CASE Quiet(e, c) \/ Tells(e, c)
  <2>1. got'[e][c] = G
    BY <1>8 DEF Quiet, Tells
  <2>2. c \in Live(ep'[e]) => ep'[e].sessions[c].recv_seq = n
    BY <1>3, <1>8 DEF Quiet, Tells
  <2> HIDE DEF G
  <2> QED
    BY <1>3, <1>4, <1>7, <2>1, <2>2
<1>9. CASE Born(e, c)
  <2>1. got'[e][c] = <<>>
    BY <1>2, <1>9 DEF Born, Blank
  <2>2. c \in Live(ep'[e]) => ep'[e].sessions[c].recv_seq = 0
    BY <1>9 DEF Born
  <2> QED
    BY <1>5, <2>1, <2>2
<1>10. CASE Listens(e, c)
  <2>1. PICK i \in DataOf(e, c, log[e]) :
          /\ log[e][i].stream.seq = ep[e].sessions[c].recv_seq
          /\ got'[e][c] = Append(G, log[e][i].payload)
    BY <1>10 DEF Listens
  <2>2. i \in DataFrom(p, c) /\ log[e][i].stream.seq = n
    BY <1>1, <1>3, <1>10, <2>1 DEF DataFrom, Listens
  <2>3. /\ log[e][i].payload \in 1 .. Chunks(p, c)
        /\ log[e][i].payload = n + 1 \/ Gap(SeqsFrom(p, c), n)
    BY <1>1, <2>2 DEF Numbered
  <2>4. ~Gap(SeqsFrom(p, c), n)
    <3> SUFFICES ASSUME NEW m \in Nat, m < n PROVE m \in SeqsFrom(p, c)
      BY DEF Gap
    <3>1. m + 1 \in DOMAIN G /\ (m + 1) - 1 = m
      BY <1>6
    <3> QED
      BY <1>3, <3>1
  <2>5. n \in SeqsFrom(p, c)
    BY <1>1, <2>2 DEF SeqsFrom
  <2>6. log[e][i].payload = n + 1 /\ n + 1 <= Chunks(p, c)
    BY <1>5, <1>6, <2>3, <2>4
  <2>7. /\ DOMAIN got'[e][c] = 1 .. n + 1 /\ Len(got'[e][c]) = n + 1
        /\ got'[e][c][n + 1] = n + 1 /\ \A j \in 1 .. n : got'[e][c][j] = G[j]
    BY <1>6, <2>1, <2>6, AppendProperties
  <2>8. c \in Live(ep'[e]) => ep'[e].sessions[c].recv_seq = n + 1
    BY <1>3, <1>10 DEF Listens
  <2>9. n + 1 <= Chunks(p, c)'
    BY <1>4, <1>5, <1>6, <2>6
  <2> HIDE DEF G, n
  <2>10. ASSUME NEW j \in DOMAIN got'[e][c]
         PROVE  got'[e][c][j] = j /\ j - 1 \in SeqsFrom(p, c)'
    <3>1. CASE j = n + 1
      <4>1. j - 1 = n
        BY <1>6, <3>1
      <4> QED
        BY <1>4, <2>5, <2>7, <3>1, <4>1
    <3>2. CASE j \in 1 .. n
      BY <1>3, <1>4, <1>6, <2>7, <3>2
    <3> QED
      BY <1>6, <2>7, <3>1, <3>2
  <2> QED
    BY <2>7, <2>8, <2>9, <2>10
<1> QED
  BY <1>8, <1>9, <1>10, StreamStep

\* Everything that makes the chunks come in order.
OrderInv ==
  /\ Inv
  /\ \A e \in Ends : OpensOnce(e)
  /\ \A e \in Ends : \A c \in Cids : Blank(e, c) /\ Numbered(e, c) /\ Source(e, c) /\ Taken(e, c)

\* It holds at the start, where there is no stream and no frame.
LEMMA OrderInit == Init => OrderInv
<1> SUFFICES ASSUME Init PROVE OrderInv
  OBVIOUS
<1>1. Inv
  BY InvInit
<1>2. \A e \in Ends : log[e] = <<>> /\ DOMAIN log[e] = {} /\ ep[e] = StartOf(e)
  BY EmptySeq DEF Init
<1>3. \A e \in Ends : OpensOnce(e)
  BY <1>2 DEF OpensOnce
<1>4. ASSUME NEW e \in Ends, NEW c \in Cids
      PROVE  Blank(e, c) /\ Numbered(e, c) /\ Source(e, c) /\ Taken(e, c)
  <2>1. Peer(e) \in Ends
    BY PeerOf
  <2>2. DataFrom(e, c) = {}
    BY <1>2, <2>1 DEF DataFrom, DataOf
  <2>3. Live(ep[e]) = {}
    BY <1>2, StartGood
  <2>4. got[e][c] = <<>> /\ Len(<<>>) = 0 /\ DOMAIN <<>> = {}
    BY EmptySeq DEF Init
  <2>5. Chunks(Peer(e), c) \in Nat
    BY <1>1, <2>1, ChunkCount
  <2>6. Taken(e, c)
    BY <2>3, <2>4, <2>5 DEF Taken
  <2> QED
    BY <2>2, <2>3, <2>4, <2>6 DEF Blank, Numbered, Source
<1> QED
  BY <1>1, <1>3, <1>4 DEF OrderInv

\* It survives every step.
LEMMA OrderStep ==
  ASSUME WideUsize, OnlyOpenersRestart, OrderInv, [Next]_vars
  PROVE  OrderInv'
<1>1. Inv /\ Inv' /\ Happens
  <2>1. Inv
    BY DEF OrderInv
  <2> QED
    BY <2>1, InvStep, StepHappens
<1>2. \A e \in Ends : OpensOnce(e) /\ OpensOnce(e)'
  BY <1>1, OpensOnceStep DEF OrderInv
<1>3. ASSUME NEW e \in Ends, NEW c \in Cids
      PROVE  Blank(e, c)' /\ Numbered(e, c)' /\ Source(e, c)' /\ Taken(e, c)'
  <2>1. Blank(e, c) /\ Numbered(e, c) /\ Source(e, c) /\ Taken(e, c) /\ Numbered(Peer(e), c)
    BY PeerOf DEF OrderInv
  <2>2. Blank(e, c)'
    BY <1>1, <1>2, <2>1, BlankStep
  <2>3. Numbered(e, c)' /\ Source(e, c)'
    BY <1>1, <1>2, <2>1, SourceStep
  <2>4. Taken(e, c)'
    BY <1>1, <1>2, <2>1, TakenStep
  <2> QED
    BY <2>2, <2>3, <2>4
<1> QED
  BY <1>1, <1>2, <1>3 DEF OrderInv

\* Whatever an untrusted relay reorders, repeats or withholds, whatever seals fail, and
\* whenever an end that only opens streams is restarted, the application of an endpoint
\* that was not restarted is handed a prefix of the chunks its peer sent on a stream:
\* send_seq, recv_seq and the replay guard leave no other way into a session.
THEOREM ChunksInOrderUnlessRestarted ==
  ASSUME WideUsize, OnlyOpenersRestart
  PROVE  Spec => []DeliveredInOrderUnlessRestarted
<1>1. OrderInv => DeliveredInOrderUnlessRestarted
  BY DEF OrderInv, Taken, DeliveredInOrderUnlessRestarted, InOrder
<1> QED
  BY <1>1, OrderInit, OrderStep, PTL DEF Spec

\* Between ends that are not restarted, both applications are.
THEOREM ChunksInOrder ==
  ASSUME WideUsize, Restartable = {}
  PROVE  Spec => []DeliveredInOrder
<1>1. Spec => []DeliveredInOrderUnlessRestarted
  BY ChunksInOrderUnlessRestarted DEF OnlyOpenersRestart
<1>2. Inv /\ DeliveredInOrderUnlessRestarted => DeliveredInOrder
  BY DEF Inv, DeliveredInOrderUnlessRestarted, DeliveredInOrder
<1> QED
  BY <1>1, <1>2, InvAlways, PTL
=============================================================================
