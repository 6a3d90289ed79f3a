# dig-message in TLA+

A verification project for `dig-message`: the anti-replay guard, the streaming
state machine, and the way of one sealed message from its sender to its handler.
TLC checks the specifications on small instances; TLAPS proves every safety
property that passes there, of the guard, of the streams and of sealed messages, for
every value of the constants. `PROJECT.json` lists the
components, the runs, the source lines each definition models, the mutants of
each property, the findings, the hazards and the theorems. Source paths below
are relative to the repository root (`src/` in `PROJECT.json`).

## The system

`dig-message` seals a message for one recipient (DHKEM + AEAD), signs it (BLS),
and on the other side verifies it, refuses replays, decompresses it, and, for a
stream frame, drives a per-stream state machine. It is a library without threads
or I/O of its own: the caller serialises the calls on one endpoint, sends the
envelopes it is handed, and passes in the clock. What is hard lies in the order
in which *two* endpoints' calls and deliveries interleave, in what the transport
or a relay does with envelopes, in failures half-way through a call, and in the
arithmetic of the replay window.

| Component | State | Operations | Interacts with |
|---|---|---|---|
| Anti-replay guard, `src/replay.rs` | per `(sender, epoch)`: `highest`, a bitmap of `WINDOW_WORDS` words, `last_seen_ms`, `started`; a table of at most `MAX_TRACKED_SENDERS` of these | `check_and_admit` (freshness, eviction, `admit`) | called by `open_message`, owned by an endpoint |
| Stream session, `src/stream.rs` | role, handshake, two sequence numbers, two credit counters, two half-close flags, `reset` | `build_*` on the sending side, `on_recv` on the receiving side | owned by an endpoint |
| Stream endpoint, `src/stream.rs` | `send_counter`, sessions by correlation id, cap, guard | `open`, `open_ack`, `send_data`, `grant_credit`, `close`, `reset`, `accept` | seals through `seal_message`, opens through `open_message`; its peer, over the transport |
| Seal pipeline, `src/seal.rs` | none; it advances the caller's guard | `seal_message`, `open_message`, `check_expiry` | guard, envelope, transcript, compression |
| Envelope, `src/envelope.rs` | none | `header_bytes`, `encode_envelope`, `decode_envelope`, shapes and frame kinds | seal, transport |
| Transcript, `src/transcript.rs` | none | `signing_bytes`, `sign`, `verify` | seal |
| Registry, `src/registry.rs` | table from message type to handler | `register`, `dispatch` | applications |
| Compression, `src/compression.rs` | none | `compress_payload`, `decompress_payload` with output bounds | seal |

What makes each correct, and where it is hard:

- **Guard.** A counter is accepted once; nothing new is refused; the table stays
  bounded and drops the right sender. Hard: shifts across words, jumps at and
  beyond the window, saturation at both ends of `u64`, casts to `usize`, eviction
  of a sender whose messages are still fresh.
- **Session and endpoint.** Chunks are delivered in order, once, without gaps;
  the two ends' credit adds up; frames an honest peer sends are never taken for a
  violation; the two ends end up with the same streams; closed streams free their
  slot. Hard: frames that cross, OPENs that cross at the cap, replays, expiry on
  the way, restarts, a seal that fails after the session was changed.
- **Seal, envelope, transcript.** What passes is exactly what the holder of the
  sender's key sealed for this recipient. Hard: the AAD and the signature bind
  overlapping but different sets of fields; envelopes are recombined, re-addressed
  and forwarded; keys rotate.
- **Opening, as a sequence.** Expiry, guard, decompression, dispatch come in this
  order and the guard is advanced in the middle: what a late failure leaves behind,
  and what others' messages do to the guard, must not cost a good message.
- **Registry and compression.** One handler per type for good; a request is never
  dropped silently; no length a sender declares makes the recipient hand on
  anything else.

The 37 hazards in `PROJECT.json` are these difficulties, each at its line.

## Modules

| Module | Models | Correspondence |
|---|---|---|
| `Machine` | `u64` saturating arithmetic and the cast to `usize` | `U64_MAX`, `USIZE_RANGE` are constants, so overflow and truncation happen in small instances |
| `SenderWindow` | `struct SenderWindow` | the bitmap is a function from word index to the set of bits set in that word; `Shl`/`Shr` are the word shifts; `ShiftedWord` is the body of the loop of `shift_left`; `Admits`/`admit` are the verdict and the effect of `admit` |
| `ReplayTable` | `check_and_admit`, `evict_if_full` | operators on a table; the result is a set of `[ok, tab]` because `min_by_key` over a `HashMap` breaks ties in an unspecified order |
| `AntiReplay` | the promise: a bounded memory of accepted counters | abstract, independent of bitmaps and of which sender is evicted |
| `ReplayGuard` | one guard, its clock, and a network that presents any message at any time | actions `Check(m)` and `Tick`; `accepted`, `live`, `lost`, `again` are history |
| `HashMap` | `HashMap` insert and remove | a map is a function; external |
| `Frames` | shapes, `flags`, `StreamFrame`, `StreamHeader` | the shape bits by arithmetic; frame codes as numbers, so unknown ones exist |
| `StreamSession` | `struct StreamSession` | `CanX` is the early returns of `build_x`, `build_x` the new session; `Legal`/`on_recv` likewise for a received frame |
| `Admission` | the second half of `open_message`: `check_expiry`, guard, decompression | the set of (verdict, guard) pairs; shared by `StreamEndpoint` and `Seal` |
| `StreamEndpoint` | `struct StreamEndpoint` | each method returns the new endpoint and the frames sent; `sealed` says whether sealing succeeded; `accept` gives its `StreamAccept` |
| `StreamPair` | two endpoints that are each other's peer | one action per method, `Deliver` (ordered transport), `Present` (again, or anything, by a relay), `Tick`, `Restart` |
| `StreamPeer` | one endpoint against anything that may be presented to it | one action per method, `Accept`; `told` is what the application knows from its results and events alone |
| `Compression` | `compress_payload`, `decompress_payload` | a byte string is a payload or the zstd frame of one, and its length |
| `Envelope` | `DigMessageEnvelope`, `header_bytes`, `encode_envelope`, `decode_envelope` | a serialisation is a sequence of fields; on the wire, a length and the envelope |
| `Transcript` | `TranscriptFields` | the tuple of signed fields; an ideal signature is a key and a tuple |
| `Seal` | `seal_with_ephemeral`, `open_message` | symbolic terms, see below; every check and its error in the code's order |
| `MessageRegistry` | `struct MessageRegistry` | operators on the table; a handler decodes its kind's payloads only |
| `Messaging` | nodes that seal, a relay, dishonest senders, guards, registries | `Send` is `seal_message` and `encode_envelope`; `Receive` is `decode_envelope`, `open_message`, `dispatch`; `Register`, `Rotate`, `Tick`; `Craft` is what a dishonest sender may seal |
| `MCReplayGuard`, `MCStreamPair`, `MCStreamPeer`, `MCMessaging` | instances for TLC | message sets, stream ownership, caps, what is sent and made up |
| `ReplayTableProofs`, `StreamEndpointProofs`, `SealProofs` | lemmas about the operators of `SenderWindow` and `ReplayTable`, of `StreamEndpoint` and `Admission`, of `Compression`, `Envelope`, `Transcript` and `Seal` | |
| `ReplayGuardProofs`, `StreamPeerProofs`, `StreamPairProofs`, `MessagingProofs` | theorems about the specification each is named after | |
| `StreamAgreementProofs` | theorems about what the two ends of `StreamPair` make of each other's frames | |

Definitions named with a suffix and introduced as *Faulty* are plausible mistakes
in the code (a lost carry, a dropped guard, a missing reset). They are used only
to show that the properties can fail: replacing the original by its faulty form
makes the property named in `PROJECT.json` fail.

Abstractions. In `Seal` the cryptography is symbolic: a Diffie-Hellman term is the
set of the two secrets, the derived key the tuple of what enters the key schedule,
a ciphertext the triple of key, AAD and plaintext, a hash its preimage, a signature
the pair of key and transcript. Nobody computes with secrets they do not have: the
relay recombines what was sent, a dishonest node uses its own key. In the stream
modules all of this is one Boolean of an envelope, `authentic`; `AuthenticExactly`
is what justifies it. A chunk is its number on its stream. DIDs, message types
and correlation ids are model values or small numbers. Error values are the
reason's name.

Environment of `StreamPair`. The caller opens a correlation id at most once, no two
streams have the same one (ids are random, `SPEC.md` line 126), and the caller
calls `close` only on an established stream except where `EarlyClose` is set
(`StreamPeer` has none of these restrictions). The clock is shared and monotone.
`got`, the chunks an application was handed, and `log`, the
envelopes in existence, survive a restart; an endpoint does not.

## Runs

Passing runs:

| Run | Question | States |
|---|---|---|
| `ReplayWindow` | Is one sender's bitmap (3 words of 2 bits) right under every order of 10 counters? | 3 072 |
| `ReplayEviction` | Three senders, room for two, clock to the last `u64`: freshness, eviction and window together | 30 122 |
| `StreamPair` | One stream, two honest ends, ordered transport with repetitions, at most 5 frames sealed per end | 168 152 |
| `StreamShared` | Both ends open a stream, room for one, reliable delivery: crossing OPENs and RESETs; does a stream only one end has go away? | 4 424 |
| `StreamRelay` | An untrusted relay, a failed seal of DATA, CLOSE or RESET, expiry, early close and a restart of the opener, together | 364 002 |
| `StreamPeer` | One endpoint, any caller, any frame of the peer, of another sender or of nobody | 9 760 |
| `Messaging` | Sealed messages between an honest and a dishonest node over a relay that alters, splices, delays and repeats | 74 912 |

What they check:

- `NeverTwice`, `NothingNewRejected`: the verdict of `check_and_admit` is exactly
  "new and inside the window", against the set of messages really accepted.
- `NoReplay` (no message is accepted twice; one sender), `AgainOnlyIfLost` (with
  eviction: only after a sender was forgotten while the message was fresh),
  `TableBounded`, `EvictsLeastRecent`.
- `ImplementsPromise`: `ReplayGuard` refines `AntiReplay`, the bitmaps mapped to
  the sets of counters they stand for.
- `HonestFramesAccepted`: the only RESET between honest ends is for the cap.
- `CreditConserved`: send credit + chunks in flight + grants in flight = receive
  window.
- `AgreeWhenQuiet`: when nothing is in flight, both ends have the same streams in
  the same state.
- `FirstDeliveryNotReplay`, `ReplayIsInert`: a frame is refused as a replay
  exactly when it is one, and a replay changes no session.
- `ClosedSessionsAreDropped`, `StreamsBounded`: slots are freed and bounded.
- `SlotsLostOnlyToFailedSeals`: where CLOSE and RESET may fail to be sealed, each failure
  leaves at most one finished session in a table, and nothing else leaves any.
- `DeliveredInOrder`, `DeliveredInOrderUnlessRestarted`: an application gets a
  prefix of what its peer sent.
- `NoOrphanStream` (liveness): under reliable delivery, a stream only one end has
  does not stay that way.
- `ApplicationKnows`, `ChunksAsGranted`: from its own calls and the events alone, an
  application knows which streams are live, and gets chunks only on those, in
  sequence and within its grants, whatever the peer sends.
- `NoReflection`: a RESET answers only a new, authentic frame of the peer that is no
  RESET. `RefusedIsInert`: a frame that used its counter and was then refused is a
  replay ever after. `PeerUndisturbed`: other senders' messages, which pass the
  guard before `accept` looks at the sender, do not use up the peer's counters.
- `AuthenticExactly`: a frame passes the cryptographic checks if and only if it is,
  unaltered in every field, an envelope the holder of its sender's key sealed and
  signed for this node's key.
- `GoodMessageOpens`: such a message, fresh, in the window and presented for the
  first time, is opened with the sender's payload, type and shape, whatever was
  presented before it.
- `HandledOnce`, `OneHandlerPerType`, `SilentOnlyIfOneWay`: with registrations early,
  late and in duplicate, a message reaches one handler once, the first registered
  for its type, and is dropped silently only if its sender asked for no answer.
- `DeliveredWithinCap`: what is handed on has the declared length, within the cap,
  also when an authenticated sender lies about it.

Runs that are expected to find a violation, each a disagreement between the code
and what its documentation says; `PROJECT.json` quotes both:

| Run | Shows |
|---|---|
| `ReplayUsize32` | With a 32-bit `usize`, a counter far below the window is aliased into it and accepted. |
| `StreamEarlyClose` | `close` before the handshake is done makes the peer RESET the stream. |
| `StreamSealGap` | `send_data` whose seal fails makes the next chunk a gap. |
| `StreamSenderRestart` | A restarted sender's frames are refused as replays. |
| `StreamExpiry` | Chunks are delivered after the stream's OPEN has expired. |

Consequences of the code that no run is spent on:

- `NoReplay` fails in `ReplayEviction`: evicting a sender whose messages are fresh
  lets them in again (`AgainOnlyIfLost` says this is the only way).
- `PeerUndisturbed` assumes that the guard's table holds every sender the resolver
  finds. With a resolver that finds more, their messages can evict the peer's
  entry from the endpoint's guard.
- `ClosedSessionsAreDropped` fails in `StreamPair` when the seal of a CLOSE may fail
  (`FailingFrames` {4}): `close` returns before `drop_if_closed`, and the session holds
  its slot (`SlotsLostOnlyToFailedSeals` bounds the loss).
- `NoOrphanStream` and `AgreeWhenQuiet` fail in `StreamShared` when the seal of a RESET
  may fail (`FailingFrames` {6}): `accept` has refused the OPEN and used its counter,
  the opener never hears of it, and there is no retry and no timeout. `SPEC.md`
  (348-349) says "a new OPEN beyond the cap is rejected and the stream RESET".
- `DeliveredInOrder` fails in `StreamRelay` when the receiver is restarted
  (`Restartable` {B}): its guard is empty, and captured frames, OPEN first, are
  delivered a second time. `src/stream.rs` (19-20) counts on "the persistent
  `ReplayGuard`", but `StreamEndpoint::new` takes none.
- A payload between `MAX_DECOMPRESSED_BYTES` and `u32::MAX` that compresses below the
  envelope cap is sealed without complaint and refused by every recipient (the
  payload `bomb` of `MCMessaging`).
- A message in flight when its *recipient* rotates its key can no longer be opened.
- `MAX_CHUNK_BYTES` and `MAX_CHUNK_DECOMPRESSED_BYTES` are never read: a chunk is
  bounded by the message caps only, although `SPEC.md` (175, 343) asks for them.

### Bounds

- `WINDOW_WORDS`, `WORD_BITS`: 3 words of 2 bits give a window of 6. With counters
  0..9 every distance below, at and beyond the window occurs, with whole-word and
  in-word shifts and carries through a middle word. The theorems remove the bound.
- `U64_MAX` is the largest counter, timestamp or clock value, so saturation is
  reached (`ReplayEviction`: `FRESHNESS_WINDOW_MS` 1, clock 0..3).
- `MAX_TRACKED_SENDERS` 2 with three senders, ties among them included.
- `MaxFrames` bounds each endpoint's counter, so the frames its caller makes it
  seal; RESETs sealed by `accept` come on top. 5 per end allow open, ack, two
  chunks, a grant, close and what comes after; with 3 the handshake, one or two
  chunks and a close or reset still cross. `StreamRelay` gives 4 to the opener and 1
  to its peer: the handshake, a chunk that is lost, one after it, and a close.
- `Accept` of `StreamPair` is taken only while `send_counter` is below `U64_MAX`, since
  it may use up a counter for a RESET. No run comes near; the theorems need the bound
  in place of the overflow of a `u64` that is incremented once per frame.
- `Grants` {2} lets two chunks be in flight; {1} makes the window the limit.
- `MaxNow`, `TTLs`: the clock starts at 1 (an `expires_at` of 0 means none); one
  tick is enough for a frame to expire on the way.
- `MaxSealFailures` 1, `FailingFrames`: one failure in a behaviour, of each kind of frame
  the run names.

- `StreamPeer`: `MaxCalls` 3 (open or ack, a chunk or a grant, close or reset),
  peer counters 0..4 inside a window of 6, so a refusal as a replay is one; two
  correlation ids, interchangeable (symmetry), and room for one stream, so every
  OPEN may meet the cap. The peer's frames carry seq 0 or 1 (`PeerSeqs`) and a window
  of 1 (`PeerWindows`); the theorems are about any. Frames wrong in some way are
  DATA or RESET, since what is wrong with them is noticed before their kind matters.
  The clock stands still: timestamps vary instead.
- `Messaging`: `MaxSeals` 2. Splicing, forwarding, re-addressing and confusing two
  messages take two envelopes; three take the run past its time. A writes to itself
  too, so sender and recipient may coincide. A rotates its key once (`MaxEpoch`). The
  clock runs from 1 to 3 (`MaxNow`) with `FRESHNESS_WINDOW_MS` 1 and `MAX_MESSAGE_TTL_MS`
  2: a message sealed at 1 is stale at 3, one with a lifetime of 1 has expired by then,
  and one has a lifetime of 3, too long. Payload lengths lie on both sides of every limit. All of `Presentable`,
  and not only what a behaviour presents, is tried in every state by the invariants.

Deadlock is checked in every run: there is always a call to make or an envelope to
deliver or present again.

### Fairness

`FairSpec` is `Spec` with weak fairness of `Deliver(e)` for each end: the transport
the crate is written for is reliable and ordered (`src/stream.rs`, lines 25-27), so
an envelope that is pending is delivered. Nothing is assumed of the callers: they
may stop calling at any time.

## Proofs

The theorems hold for every value of the constants that satisfies the modules' named
assumptions: every window geometry, table size, cap, set of streams, messages, nodes
and grants, and every bound. The assumptions say that the constants are what the code
declares (positive word sizes, counters, timestamps and clocks in `u64`, frames in
`KnownFrames`), that the values standing for "no stream header" and for a payload that
does not decompress are none of the others, and name what is taken of the environment:
distinct endpoints, disjoint correlation ids, in `StreamPeer` a table with room for the
two senders that resolve. What a theorem needs beyond that is in its own hypotheses:

- `WideUsize`: every `u64` fits in a `usize`, as on 64-bit targets. `ReplayUsize32`
  shows that the guard's theorems are false without it.
- *room*: the guard's table has room for every sender key that can occur. `ReplayEviction`
  is a state space in which `NoReplay` fails without it.
- the others are explained with the theorems.

### The guard

| Theorem | States | Needs |
|---|---|---|
| `TypeCorrect` | `TypeOK` | |
| `TableStaysBounded` | `TableBounded` | |
| `EvictsLeastRecentHolds` | `EvictsLeastRecent`, an action property | |
| `WindowsExact` | `Exact` | `WideUsize` |
| `NeverTwiceHolds` | `NeverTwice` | `WideUsize` |
| `NothingNewRejectedHolds` | `NothingNewRejected` | `WideUsize` |
| `AgainOnlyIfLostHolds` | `AgainOnlyIfLost` | `WideUsize` |
| `NoReplayWithRoom` | `NoReplay` | `WideUsize`, room |
| `GuardKeepsPromise` | `ImplementsPromise`, the refinement of `AntiReplay` | `WideUsize` |

`NeverTwice` is not inductive: from a state where the bitmap and the
accepted counters disagree, one more `admit` breaks it. `Exact` says they agree:
for each tracked sender, `highest` is the largest counter accounted for, and bit
`i` is set exactly when `highest - i` is accounted for. Lemmas on the
bitmap lead up to it: `ShiftedWordFlat` shows that the word-wise shift with
carries is the shift of one long row of bits, hence `ShiftLeft` and `SetBit`, hence
the verdict and the effect of `admit`. A step of `check_and_admit` then either changes
nothing, or evicts at most one sender and accepts one message. `Ledger`, the invariant
behind `AgainOnlyIfLost`, says of each accepted message that it is accounted for,
was lost while fresh, or is too old to be fresh again; the clock being monotone and
the saturating bounds meaning what the unbounded ones do make it
inductive. `Recency`, behind `EvictsLeastRecent`, says that `last_seen_ms` is the
newest timestamp accounted for, which holds although timestamps come out of order.
The refinement needs `Exact` and that the table is finite.

### One endpoint against anything: `StreamPeer`

| Theorem | States | Needs |
|---|---|---|
| `InStepAlways` | `Inv` | |
| `TypeCorrect` | `TypeOK` | |
| `StreamsStayBounded` | `StreamsBounded` | |
| `ApplicationAlwaysKnows` | `ApplicationKnows` | |
| `ChunksOnlyAsGranted` | `ChunksAsGranted` | |
| `GuardAlwaysTracks` | `GuardInv` | `WideUsize` |
| `NoReflectionHolds` | `NoReflection` | `WideUsize` |
| `RefusedStaysInert` | `RefusedIsInert` | `WideUsize` |
| `PeerStaysUndisturbed` | `PeerUndisturbed` | `WideUsize`, counters within one window |

The peer's frames are of every kind, with any sequence number (but the last `u64`, which
takes a stream of 2^64 chunks to reach) and any window (`PeerSeqs` and `PeerWindows` are
constants), in any order, with any counter up to the bound.

`Inv` relates each live session to what the application can count from the outside:
`recv_seq` is the number of chunks it was handed, these and the receive window add up
to no more than it granted, the flags are what it was told. A call or a frame enters or
changes one stream, drops one, or leaves all as they are, and one lemma for each
covers all actions. `GuardInv` adds that a presented counter is refused ever after.
`PeerUndisturbed` is about frames that are not too old for the window, so the
counters must lie within one.

### Two endpoints: `StreamPair`

| Theorem | States | Needs |
|---|---|---|
| `InvAlways` | `Inv` | |
| `PairTypeCorrect` | `TypeOK` | |
| `PairStreamsBounded` | `StreamsBounded` | |
| `ClosedAreDropped` | `ClosedSessionsAreDropped` | no CLOSE or RESET fails to be sealed |
| `SlotsAreLostOnlyToFailedSeals` | `SlotsLostOnlyToFailedSeals` | |
| `FreshFramesAreNew` | a first delivery that is fresh is no replay | ordered transport, no restarts |
| `FirstDeliveriesAreNew` | `FirstDeliveryNotReplay` | the same, and the clock stays within the freshness window |
| `ReplaysAreInert` | `ReplayIsInert` | `WideUsize`, no restarts |
| `ChunksInOrderUnlessRestarted` | `DeliveredInOrderUnlessRestarted` | `WideUsize`, only an end whose peer opens no streams restarts |
| `ChunksInOrder` | `DeliveredInOrder` | `WideUsize`, no restarts |

The last three hold under an untrusted relay, expiry and seals that fail after the
session was changed. The hypotheses are the conditions under which the code keeps its
promise, not of the proof: a `close` whose seal fails leaves its session in the table;
the guard refuses what is too old with the same error as what is a replay; a
restarted end has an empty guard and counter, and a relay that presents a captured
OPEN to it revives the stream.

The argument. Every step is a call at one end (`Called`), an `accept` (`Receives`), a
restart or a tick, and to one stream at one end it is one of: nothing, its birth, a
frame posted, a frame taken. `Inv` is typing and caps, and what is known of every
envelope in existence.

- *Slots.* `Tidy`, a fact about every call and frame: the one session it touches is not
  left finished, unless it was before or a CLOSE or RESET seal failed in that step.
  The finished sessions are then counted against the failures, which only grow.
- *First deliveries.* `Counted`: counters of the envelopes to one end ascend and lie
  below the sender's counter. `Seen`: the window's `highest` is a counter
  that was delivered. So the next envelope is above `highest`, where the bitmap plays
  no role: no hypothesis on `usize`.
- *Replays.* A delivered envelope is `Barred`: the window refuses its counter, or it
  cannot reach the guard because it is too old or expired. Both last: the
  window refuses for good what it refuses (`RefusesOn`), and time only passes.
- *Order.* The property is about the *numbers* of chunks, the code about *sequence*
  numbers, and a failed seal uses up one and not the other. `OrderInv` connects the
  two: `Numbered`, chunk `k` has sequence number `k - 1`, or a smaller sequence number was
  lost with a failed seal; `Source`, the sender's `send_seq` is ahead of what it
  posted; `Taken`, the application has chunks 1 to `n` with every sequence number below `n`
  posted, and `recv_seq = n`. The receiver takes only `seq = recv_seq`, before which
  nothing was lost, so it is chunk `n + 1`. A stream must start at 0 only once:
  `OpensOnce` (a stream is opened once) and `Blank` (a stream whose OPEN the guard would
  still let in has left no trace).

### What two honest endpoints make of each other's frames: `StreamPair`

| Theorem | States | Needs |
|---|---|---|
| `StreamsTold` | `Inv`, `AllTold`, `Modest` | `Steady`, `Prompt` |
| `HonestFramesAreAccepted` | `HonestFramesAccepted` | `Steady`, `Prompt` |
| `AgreementWhenQuiet` | `AgreeWhenQuiet` | `Steady`, `Prompt` |
| `CreditIsConserved` | `CreditConserved` | `Steady`, `Prompt`, `Unsaturated` |
| `FramesArePrompt` | `Prompt` | `Steady`, the clock's bound within the freshness window and within every lifetime |

They hold for any number of streams, frames and grants, any caps, and every order of the
two callers' calls and the deliveries, with any number of frames in flight both ways and
frames that were delivered presented again.

- `Steady`: an ordered transport and no relay, no restarts, no seal that fails, `close`
  only on established streams, `WideUsize` (for the frames that are presented again).
  `StreamEarlyClose`, `StreamSealGap` and `StreamSenderRestart` are counterexamples
  without one of them, and a relay may swap frames.
- `Prompt`: when an envelope is the next one, it is neither stale nor expired. A frame
  that is dropped on the way is a gap to its receiver, which is a protocol
  violation to the session. `Prompt` is an assumption on a behaviour, in
  `Spec /\ []Prompt => []...`, and the clock may run as far as it likes.
  `FramesArePrompt` shows that it is not an empty one: it holds of the constants of
  `StreamPair` and `StreamShared`, among others.
- `Unsaturated`: an end does not make so many grants that a `u64` saturates. Each is a
  `u32`, so it takes more than 2^32 of them; from then on `build_credit`'s
  `saturating_add` permits less than the CREDIT frame says.

The argument is about one stream at a time, as values: an end is the session it *holds*
(none or one), its *mail* (the headers sent to it, by place in the log) and the part
of it that it has *read*. `Story`, the inductive invariant of one stream, relates the two
ends:

- `Half`, for each end. The mail is in order: nothing after a RESET, no DATA or
  second CLOSE after a CLOSE, DATA numbered without gaps. The session is the summary
  of it: `send_seq` counts the chunks in the mail it sent, `recv_seq` those it has read,
  `local_closed` and `remote_closed` say whether a CLOSE was sent and read.
- `Balance`, for each direction: what the receiver permits in all (window left and chunks
  taken) is what its peer was permitted in all (credit left and chunks sent) and what the
  unread mail grants; every chunk sent is numbered below it.
- `Handshake`: the OPEN comes first in one direction and the OPEN_ACK in the other, and
  nothing but a RESET comes before; each end is established when it sent or read the ack.
- `Endings`: an end that knew of the stream and no longer holds it sent or was sent a
  RESET, or sent and read a CLOSE.

A call adds one frame to a mail (`OpenerSays`, `AnswererSays`), a delivery moves one frame
to what was read (`OpenerHears`, `AnswererHears`), and the other streams are as before.
From `Story` the next unread frame of a live stream is one its session takes
(`OpenerTakes`, `AnswererTakes`): that is `HonestFramesAccepted`. With everything read,
the two halves summarise the same mail: `AgreeWhenQuiet`. `Balance` with the number of
unread chunks (`ChunksBetween`) is `CreditConserved`; `Modest`, no session permits more
than its end has been able to grant, keeps it clear of saturation.

### Sealed messages: `Messaging`

| Theorem | States | Needs |
|---|---|---|
| `RelayHoldsOnlySealed` | `StoreInv` | |
| `AuthenticExactlyHolds` | `AuthenticExactly` | |
| `DeliveredWithinCapHolds` | `DeliveredWithinCap` | |
| `SilentOnlyIfOneWayHolds` | `SilentOnlyIfOneWay` | |
| `TablesInOrder` | `StoreInv`, `NodeInv` | |
| `TypeCorrect` | `TypeOK` | |
| `OneHandlerPerTypeHolds` | `OneHandlerPerType` | |
| `GuardRemembers` | `Remembers` | `WideUsize` |
| `HandledOnceHolds` | `HandledOnce` | `WideUsize`, room |
| `GoodMessageOpensHolds` | `GoodMessageOpens` | `WideUsize` |

`StoreInv` says how every envelope in existence was made: each has an ephemeral key of
its own, honest ones are what `seal_with_ephemeral` makes of their parameters, and
the honest envelopes of one route carry distinct counters. `AuthenticExactly` follows from it and
from the lemmas of `SealProofs` (which fields the header and the transcript tell
apart, and what has to agree for a key, an AAD and a signature to fit) without an
induction of its own. `NodeInv` is the type of the
tables and the fact that what was let in was sent to this node. `Remembers` (windows
hold nothing that was not let in) gives `GoodMessageOpens`; its converse `RemembersAll`,
for which the table must have room, gives `Once`: an envelope is handled only when
it is let in, and is let in once.

### Only model-checked

- `NoOrphanStream`: liveness under fairness, out of the prover's reach.
- The violations: a theorem cannot state them; their runs give the behaviours.

## Not modelled

- The byte widths and the parsing of the Streamable codec (`chia-traits`), zstd, BLS,
  the AEAD and the key derivation themselves: external, by what the code relies on.
  `Seal` assumes they are ideal.
- The zstd encoder failing in `compress_payload` and `random_ephemeral` failing, outside
  streams: `seal_message` returns before anything happened. In streams they are among the
  reasons a seal fails.
- `MessageType::band`, a total classification of ids that no other code of the crate
  reads; `contains`, `len`, `stream_count`, `session` and other read-only accessors.
- What a handler does after it decoded its payload, and the errors of its own that
  `dispatch` passes on.
- Idle timeouts of streams: the code has none.
- `constants.rs` and `error.rs` are declarations; `lib.rs` re-exports.

## Plan

Every invariant and action property of a passing run is a theorem; `NoOrphanStream` is
the one property that only TLC checks. What would extend the project:

- `HonestFramesAccepted` and `CreditConserved` where the seal of an OPEN or of a CREDIT
  fails: the session is changed and no frame is posted, so `Balance` becomes an
  inequality.
- An idle timeout of streams, should the code get one: `NoOrphanStream` could then be
  asked of a transport that loses frames.
