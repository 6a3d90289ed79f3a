----------------------------- MODULE StreamPair -----------------------------
(***************************************************************************)
(* Two honest StreamEndpoints that stream to each other over a transport.  *)
(*                                                                         *)
(* log[e] is every envelope ever sent to e.  The transport the crate is    *)
(* written for delivers log[e] in order (delivered[e] of them so far); what it    *)
(* delivered may be presented again.  With Relay, an untrusted relay may   *)
(* present any envelope of log[e], in any order, any number of times or    *)
(* never.  got is the application's durable record of the chunks it was    *)
(* handed; it is history, like the log.                                    *)
(*                                                                         *)
(* The caller is the environment: it calls any method, in any state, with  *)
(* these disciplines, each of them a constant: it opens a correlation id   *)
(* at most once (CidsOf, `used`), and, unless EarlyClose, calls close only *)
(* on an established stream.                                               *)
(***************************************************************************)
EXTENDS StreamEndpoint

CONSTANTS A, B,            \* the DIDs of the two endpoints
          CidsOf,          \* the correlation ids each of them may open
          MaxConcurrent,   \* the stream cap of each of them
          Grants,          \* windows and credit grants the callers use
          TTLs,            \* lifetimes the callers give frames, besides none
          EarlyClose,      \* may close be called before the handshake is done?
          Relay,           \* is the transport an untrusted relay?
          Restartable,     \* the endpoints that may be restarted (once)
          MaxFrames,       \* bound on the counter up to which each endpoint is called
          MaxNow,          \* bound on the clock
          FailingFrames,   \* the kinds of frame whose sealing may fail
          MaxSealFailures  \* bound on the number of failed seals

Ends == {A, B}
Peer(e) == IF e = A THEN B ELSE A
Cids == CidsOf[A] \cup CidsOf[B]

ASSUME PairAssumption ==
  /\ A # B
  /\ CidsOf[A] \cap CidsOf[B] = {}   \* the ids are random: no two streams share one
  /\ MaxConcurrent \in [Ends -> Nat]
  /\ Grants \subseteq U32 /\ TTLs \subseteq Nat
  /\ MaxFrames \in [Ends -> U64] /\ MaxSealFailures \in Nat /\ MaxNow \in U64 \ {0}
  /\ FailingFrames \subseteq KnownFrames
  /\ {EarlyClose, Relay} \subseteq BOOLEAN
  /\ Restartable \subseteq Ends
  /\ BadPayload \notin Nat   \* the numbered chunks decompress

VARIABLES ep,         \* the endpoints
          log,        \* the envelopes sent to each endpoint
          delivered,  \* how many of them the transport delivered
          now,        \* the wall clock
          used,       \* the correlation ids each endpoint has opened
          got,        \* the chunks each application was handed, per stream
          failures,   \* the seals that failed
          restarted   \* the endpoints that were restarted

vars == <<ep, log, delivered, now, used, got, failures, restarted>>

StartOf(e) == NewEndpoint(e, 0, Peer(e), MaxConcurrent[e])

Init ==
  /\ ep = [e \in Ends |-> StartOf(e)]
  /\ log = [e \in Ends |-> <<>>]
  /\ delivered = [e \in Ends |-> 0]
  /\ now = 1   \* Unix time: 0, the expires_at that means never, is long past
  /\ used = [e \in Ends |-> {}]
  /\ got = [e \in Ends |-> [c \in Cids |-> <<>>]]
  /\ failures = 0
  /\ restarted = {}

\* Endpoint e returns r to its caller, who sends what there is to send.
Returns(e, r) ==
  /\ ep' = [ep EXCEPT ![e] = r.ep]
  /\ log' = [log EXCEPT ![Peer(e)] = @ \o r.sent]

Sealing(frame, sealed) ==
  /\ ~sealed => frame \in FailingFrames /\ failures < MaxSealFailures
  /\ failures' = IF sealed THEN failures ELSE failures + 1

Expiries == {0} \cup {now + t : t \in TTLs}

\* A call of one of e's methods that seals a frame.
Call(e, frame, sealed) ==
  /\ ep[e].send_counter < MaxFrames[e]
  /\ Sealing(frame, sealed)
  /\ UNCHANGED <<delivered, now, got, restarted>>

Open(e, c, w, x, sealed) ==
  /\ c \in CidsOf[e] \ used[e]
  /\ CanOpen(ep[e], c)
  /\ Returns(e, open(ep[e], c, w, now, x, sealed))
  /\ used' = [used EXCEPT ![e] = @ \cup {c}]
  /\ Call(e, OPEN, sealed)

OpenAck(e, c, w, x, sealed) ==
  /\ c \in Live(ep[e]) /\ CanOpenAck(ep[e].sessions[c])
  /\ Returns(e, open_ack(ep[e], c, w, now, x, sealed))
  /\ Call(e, OPEN_ACK, sealed) /\ UNCHANGED used

\* The chunks of a stream that were sealed and sent are numbered from 1.
Chunks(e, c) ==
  Cardinality({i \in DOMAIN log[Peer(e)] :
                 /\ log[Peer(e)][i].correlation_id = c
                 /\ log[Peer(e)][i].stream.frame = DATA})

SendData(e, c, x, sealed) ==
  /\ c \in Live(ep[e]) /\ CanSendData(ep[e].sessions[c])
  /\ Returns(e, send_data(ep[e], c, Chunks(e, c) + 1, now, x, sealed))
  /\ Call(e, DATA, sealed) /\ UNCHANGED used

GrantCredit(e, c, n, x, sealed) ==
  /\ c \in Live(ep[e]) /\ CanGrantCredit(ep[e].sessions[c])
  /\ Returns(e, grant_credit(ep[e], c, n, now, x, sealed))
  /\ Call(e, CREDIT, sealed) /\ UNCHANGED used

Close(e, c, x, sealed) ==
  /\ c \in Live(ep[e]) /\ CanClose(ep[e].sessions[c])
  /\ EarlyClose \/ Established(ep[e].sessions[c])
  /\ Returns(e, close(ep[e], c, now, x, sealed))
  /\ Call(e, CLOSE, sealed) /\ UNCHANGED used

Cancel(e, c, x, sealed) ==
  /\ c \in Live(ep[e])
  /\ Returns(e, reset(ep[e], c, now, x, sealed))
  /\ Call(e, RESET, sealed) /\ UNCHANGED used

\* e accepts env; a delivered chunk is recorded by the application.  The counter,
\* of which accept may use up one for a RESET, does not reach the end of u64.
Accept(e, env, sealed) ==
  /\ ep[e].send_counter < U64_MAX
  /\ \E r \in accept(ep[e], env, now, sealed) :
       /\ Returns(e, r)
       /\ got' = IF r.why = "Data"
                   THEN [got EXCEPT ![e][env.correlation_id] = Append(@, env.payload)]
                   ELSE got
       /\ ~sealed => r.kind = "Err"
       /\ Sealing(RESET, sealed)
       /\ UNCHANGED <<now, used, restarted>>

Pending(e) == delivered[e] < Len(log[e])
Upcoming(e) == log[e][delivered[e] + 1]

\* The transport delivers the next envelope ...
Deliver(e) ==
  /\ ~Relay /\ Pending(e)
  /\ delivered' = [delivered EXCEPT ![e] = @ + 1]
  /\ \E sealed \in BOOLEAN : Accept(e, Upcoming(e), sealed)

\* ... or presents one it delivered again; a relay presents any of them.
Present(e) ==
  /\ \E i \in 1 .. IF Relay THEN Len(log[e]) ELSE delivered[e] :
       \E sealed \in BOOLEAN : Accept(e, log[e][i], sealed)
  /\ UNCHANGED delivered

Tick ==
  /\ now < MaxNow
  /\ now' = now + 1
  /\ UNCHANGED <<ep, log, delivered, used, got, failures, restarted>>

\* The process of e dies and is started again: StreamEndpoint::new.
Restart(e) ==
  /\ e \in Restartable \ restarted
  /\ ep' = [ep EXCEPT ![e] = StartOf(e)]
  /\ restarted' = restarted \cup {e}
  /\ UNCHANGED <<log, delivered, now, used, got, failures>>

Step(e) ==
  \/ \E c \in Cids, x \in Expiries, sealed \in BOOLEAN :
       \/ \E w \in Grants : \/ Open(e, c, w, x, sealed)
                            \/ OpenAck(e, c, w, x, sealed)
                            \/ GrantCredit(e, c, w, x, sealed)
       \/ SendData(e, c, x, sealed)
       \/ Close(e, c, x, sealed)
       \/ Cancel(e, c, x, sealed)
  \/ Present(e)
  \/ Restart(e)

Next == Tick \/ \E e \in Ends : Step(e) \/ Deliver(e)

Spec == Init /\ [][Next]_vars

\* The transport is reliable: what is pending is delivered.
FairSpec == Spec /\ \A e \in Ends : WF_vars(Deliver(e))
-----------------------------------------------------------------------------
\* The type invariant.
TypeOK ==
  /\ \A e \in Ends :
       /\ ep[e].send_counter \in Nat
       /\ Live(ep[e]) \subseteq Cids
       /\ \A c \in Live(ep[e]) : ep[e].sessions[c] \in Sessions
       /\ \A k \in DOMAIN ep[e].guard : ep[e].guard[k] \in Windows
       /\ delivered[e] \in 0 .. Len(log[e])
       /\ \A i \in DOMAIN log[e] : log[e][i].stream \in Headers
       /\ used[e] \subseteq CidsOf[e]
  /\ now \in 1 .. MaxNow
  /\ failures \in 0 .. MaxSealFailures
  /\ restarted \subseteq Restartable

Outcomes(e, env) == accept(ep[e], env, now, TRUE)

\* Between two honest endpoints on the ordered transport, accept answers a
\* delivered frame with a RESET only because its stream cap is reached: no
\* interleaving of the calls of the two callers makes one endpoint take the
\* other's frames for a protocol violation.
HonestFramesAccepted ==
  \A e \in Ends : Pending(e) =>
    \A r \in Outcomes(e, Upcoming(e)) : r.kind = "Reset" => r.why = "StreamLimit"

InFlight(e, c, kinds) ==
  {i \in delivered[e] + 1 .. Len(log[e]) :
     log[e][i].correlation_id = c /\ log[e][i].stream.frame \in kinds}

\* The units of credit granted to e on stream c that are on their way to it.
CreditInFlight(e, c) ==
  UNION {{i} \X (1 .. log[e][i].stream.window) : i \in InFlight(e, c, {OPEN_ACK, CREDIT})}

\* Flow control conserves credit: what e may still send on a stream, plus the
\* chunks on their way to its peer, plus the grants on their way to e, is what
\* the peer still permits.
CreditConserved ==
  \A e \in Ends : \A c \in Live(ep[e]) \cap Live(ep[Peer(e)]) :
    ep[e].sessions[c].send_credit
      + Cardinality(InFlight(Peer(e), c, {DATA}))
      + Cardinality(CreditInFlight(e, c))
    = ep[Peer(e)].sessions[c].recv_window_remaining

\* What one half of a stream says about its sending direction ...
Sending(s) == <<s.handshake, s.send_seq, s.local_closed>>
\* ... and the other half about its receiving direction.
Receiving(s) == <<s.handshake, s.recv_seq, s.remote_closed>>

\* Once everything sent was delivered, the two endpoints hold the same streams
\* and agree on them: handshake, sequence numbers, closed directions.  Neither
\* end is left with a stream the other end does not have.
AgreeWhenQuiet ==
  (\A e \in Ends : ~Pending(e)) =>
    \A e \in Ends :
      /\ Live(ep[e]) = Live(ep[Peer(e)])
      /\ \A c \in Live(ep[e]) :
           Sending(ep[e].sessions[c]) = Receiving(ep[Peer(e)].sessions[c])

\* The first presentation of a frame is never refused as a replay.
FirstDeliveryNotReplay ==
  \A e \in Ends : Pending(e) => \A r \in Outcomes(e, Upcoming(e)) : r.why # "Replay"

\* A frame that was delivered and is presented again is dropped and leaves the
\* sessions as they are, a live session of its stream included.
ReplayIsInert ==
  \A e \in Ends : \A i \in 1 .. delivered[e] : \A r \in Outcomes(e, log[e][i]) :
    r.kind = "Dropped" /\ r.ep.sessions = ep[e].sessions

\* A session that is fully closed or reset does not stay in the table, where it
\* would count against the stream cap.
ClosedSessionsAreDropped ==
  \A e \in Ends : \A c \in Live(ep[e]) : ~is_closed(ep[e].sessions[c])

\* The slots held by sessions that are finished.
DeadSlots ==
  {p \in Ends \X Cids : p[2] \in Live(ep[p[1]]) /\ is_closed(ep[p[1]].sessions[p[2]])}

\* close and reset leave a finished session in the table when the seal of their
\* frame fails.  This is the only way to lose a slot, and one failed seal costs
\* one slot at most: nothing a relay presents afterwards, no frame that meets
\* the dead session and no restart makes it more.
SlotsLostOnlyToFailedSeals == Cardinality(DeadSlots) <= failures

InOrder(e) ==
  \A c \in Cids :
    /\ Len(got[e][c]) <= Chunks(Peer(e), c)
    /\ \A i \in DOMAIN got[e][c] : got[e][c][i] = i

\* Each application is handed a prefix of the chunks its peer sent on a stream:
\* in order, without gap or repetition.
DeliveredInOrder == \A e \in Ends : InOrder(e)

\* The same, for the endpoints that were never restarted, whatever the relay,
\* failed seals, the clock and a restart of the other end do.
DeliveredInOrderUnlessRestarted == \A e \in Ends \ restarted : InOrder(e)

\* Once a stream has outlived the expires_at of its OPEN, no further chunk of it
\* is handed to the application, whatever the chunk's own expires_at.
SessionExpiryEnforced ==
  \A e \in Ends : Pending(e) =>
    LET env == Upcoming(e)
    IN  (\E i \in 1 .. delivered[e] :
           /\ log[e][i].stream.frame = OPEN
           /\ log[e][i].correlation_id = env.correlation_id
           /\ Expired(log[e][i], now))
        => \A r \in Outcomes(e, env) : r.why # "Data"

\* The streams stay below the cap of the endpoint, whoever opens them.
StreamsBounded == \A e \in Ends : Cardinality(Live(ep[e])) <= MaxConcurrent[e]

\* A stream only one endpoint has does not stay that way: the other gets it, or
\* the first drops it.
NoOrphanStream ==
  \A e \in Ends, c \in Cids :
    (c \in Live(ep[e]) /\ c \notin Live(ep[Peer(e)]))
      ~> (c \in Live(ep[e]) <=> c \in Live(ep[Peer(e)]))
=============================================================================
