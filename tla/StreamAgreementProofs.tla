----------------------- MODULE StreamAgreementProofs -----------------------
(***************************************************************************)
(* Theorems about what two honest StreamEndpoints make of each other's     *)
(* frames over the ordered transport: neither takes the other's frames for *)
(* a protocol violation, credit is conserved, and they agree on their      *)
(* streams once everything sent was delivered.                             *)
(*                                                                         *)
(* The argument is about one stream at a time, as values: an end is the    *)
(* sessions it holds of the stream (none or one), the mail that was sent   *)
(* to it (headers by their place in the log) and what it has read of it.   *)
(***************************************************************************)
EXTENDS StreamPairProofs

\* One of the frames S of mail M is of kind f.
Has(M, S, f) == \E i \in S : M[i].frame = f

\* Nothing follows a RESET, an OPEN or OPEN_ACK comes first, no chunk and no CLOSE
\* follows a CLOSE, and the chunks are in order.
Ordered(M) ==
  \A i, j \in DOMAIN M : i < j =>
    /\ M[i].frame # RESET /\ M[j].frame \notin {OPEN, OPEN_ACK}
    /\ M[i].frame = CLOSE => M[j].frame \notin {DATA, CLOSE}
    /\ M[i].frame = DATA /\ M[j].frame = DATA => M[i].seq < M[j].seq

\* The chunks among the frames S of mail M are those numbered below n.
Covers(M, S, n) ==
  /\ \A i \in S : M[i].frame = DATA => M[i].seq < n
  /\ \A k \in Nat : k < n => \E i \in S : M[i].frame = DATA /\ M[i].seq = k

\* What an end that holds H, was sent M and has read R of it knows of the stream;
\* N is the mail it sent to its peer.
Half(H, M, R, N) ==
  /\ Ordered(M) /\ ~Has(M, DOMAIN M, CLOSE_ACK)
  /\ \E n \in Nat : Covers(M, DOMAIN M, n)
  /\ \A s \in H :
       /\ ~Has(N, DOMAIN N, RESET) /\ ~Has(M, R, RESET) /\ ~is_closed(s)
       /\ Established(s) \/ \A i \in DOMAIN N : N[i].frame = OPEN
       /\ s.local_closed <=> Has(N, DOMAIN N, CLOSE)
       /\ s.remote_closed <=> Has(M, R, CLOSE)
       /\ Covers(N, DOMAIN N, s.send_seq) /\ Covers(M, R, s.recv_seq)

\* The units of credit the frames S of mail M grant.
Units(M, S) ==
  UNION {{i} \X (1 .. M[i].window) : i \in {j \in S : M[j].frame \in {OPEN_ACK, CREDIT}}}

\* How many units of credit mail M grants beyond what was read of it.
Due(M, R) == Cardinality(Units(M, DOMAIN M \ R))

\* How many chunks a session permits its peer in all, and how many it was permitted.
Permits(s) == s.recv_window_remaining + s.recv_seq
Permitted(t) == t.send_credit + t.send_seq

\* Between an end that holds H and was sent M, and its peer that holds K, was sent N
\* and has read Q of it: unless u64 saturated, what the end permits is what the peer
\* was permitted and the grants it has not read.
Balance(H, M, K, N, Q) ==
  \A s \in H :
    \/ Permits(s) >= U64_MAX
    \/ /\ \A i \in DOMAIN M : M[i].frame = DATA => M[i].seq < Permits(s)
       /\ \A t \in K : Permitted(t) + Due(N, Q) = Permits(s)

\* The end that opened the stream (H, M, R) and the one that answers (K, N, Q).
Handshake(H, M, R, K, N, Q) ==
  /\ \A s \in H :
       /\ s.role = "Initiator" /\ (Established(s) <=> Has(M, R, OPEN_ACK))
       /\ ~Established(s) =>
            /\ s.send_credit = 0
            /\ \A i \in DOMAIN N : N[i].frame = OPEN => N[i].window = s.recv_window_remaining
  /\ \A t \in K :
       /\ t.role = "Responder" /\ (Established(t) <=> Has(M, DOMAIN M, OPEN_ACK))
       /\ ~Established(t) => t.recv_window_remaining = 0
  /\ \A i \in DOMAIN M :
       /\ M[i].frame # OPEN
       /\ M[i].frame = RESET \/ \E j \in DOMAIN M : j <= i /\ M[j].frame = OPEN_ACK
  /\ \A i \in DOMAIN N :
       /\ N[i].frame # OPEN_ACK
       /\ \E j \in DOMAIN N : j <= i /\ N[j].frame = OPEN
       /\ N[i].frame \in {DATA, CREDIT, CLOSE} => Has(M, R, OPEN_ACK)
  /\ DOMAIN N = {} => H = {}
  /\ Q = {} => K = {} /\ DOMAIN M = {}

\* An end that was sent M, has read R of it and sent N has reason to have dropped the
\* stream.
Over(M, R, N) ==
  \/ Has(M, DOMAIN M, RESET) \/ Has(N, DOMAIN N, RESET)
  \/ Has(N, DOMAIN N, CLOSE) /\ Has(M, R, CLOSE)

\* An end that knew of the stream and no longer holds it has reason to.
Endings(H, M, R, K, N, Q) ==
  /\ DOMAIN N # {} /\ H = {} => Over(M, R, N)
  /\ Q # {} /\ K = {} => Over(N, Q, M)

\* The part of the invariant that looks the same from both ends.
Mutual(H, M, R, K, N, Q) ==
  /\ Half(H, M, R, N) /\ Half(K, N, Q, M)
  /\ Balance(H, M, K, N, Q) /\ Balance(K, N, H, M, R)

\* The invariant of one stream.
Story(H, M, R, K, N, Q) ==
  /\ Mutual(H, M, R, K, N, Q)
  /\ Handshake(H, M, R, K, N, Q)
  /\ Endings(H, M, R, K, N, Q)

\* The values are those of a stream: at most one session, mail in the order of its
\* places, of which what was read comes first.
Boxed(H, M, R) ==
  /\ H \subseteq Sessions /\ \A s, t \in H : s = t
  /\ DOMAIN M \subseteq Nat /\ IsFiniteSet(DOMAIN M)
  /\ \A i \in DOMAIN M : M[i] \in Headers /\ M[i].seq < U64_MAX
  /\ R \subseteq DOMAIN M /\ \A i \in DOMAIN M, j \in R : i <= j => i \in R
-----------------------------------------------------------------------------
(***************************************************************************)
(* One frame more in the mail, one frame more read.                        *)
(***************************************************************************)

\* Mail L is mail N with header h at place n, after all others.
Adds(L, N, n, h) ==
  /\ DOMAIN N \subseteq Nat /\ n \in Nat /\ \A i \in DOMAIN N : i < n
  /\ h \in Headers /\ h.seq < U64_MAX
  /\ DOMAIN L = DOMAIN N \cup {n} /\ n \notin DOMAIN N
  /\ L[n] = h /\ \A i \in DOMAIN N : L[i] = N[i]

\* The kinds of frame in the mail then.
LEMMA HasGrows ==
  ASSUME NEW L, NEW N, NEW n, NEW h, Adds(L, N, n, h), NEW S \in SUBSET DOMAIN N, NEW f
  PROVE  /\ Has(L, S, f) <=> Has(N, S, f)
         /\ Has(L, DOMAIN L, f) <=> Has(N, DOMAIN N, f) \/ h.frame = f
  BY DEF Has, Adds

\* The kinds of frame that were read, when one more is.
LEMMA HasRead ==
  ASSUME NEW M, NEW R, NEW i, NEW f
  PROVE  Has(M, R \cup {i}, f) <=> Has(M, R, f) \/ M[i].frame = f
  BY DEF Has

\* A frame may follow what was sent before it.
Follows(N, h) ==
  /\ ~Has(N, DOMAIN N, RESET) /\ h.frame # CLOSE_ACK
  /\ DOMAIN N = {} \/ h.frame \notin {OPEN, OPEN_ACK}
  /\ Has(N, DOMAIN N, CLOSE) => h.frame \notin {DATA, CLOSE}
  /\ h.frame = DATA => Covers(N, DOMAIN N, h.seq)

\* The chunks of the mail then.
LEMMA CoversGrows ==
  ASSUME NEW L, NEW N, NEW n, NEW h, Adds(L, N, n, h), NEW S \in SUBSET DOMAIN N, NEW m \in Nat,
         \A i \in DOMAIN N : N[i].seq \in Nat
  PROVE  /\ Covers(L, S, m) <=> Covers(N, S, m)
         /\ Covers(N, DOMAIN N, m) /\ h.frame # DATA => Covers(L, DOMAIN L, m)
         /\ Covers(N, DOMAIN N, m) /\ h.frame = DATA /\ h.seq = m => Covers(L, DOMAIN L, m + 1)
<1>1. DOMAIN L = DOMAIN N \cup {n} /\ L[n] = h /\ \A i \in DOMAIN N : L[i] = N[i]
  BY DEF Adds
<1>2. Covers(L, S, m) <=> Covers(N, S, m)
  BY <1>1 DEF Covers
<1>3. ASSUME Covers(N, DOMAIN N, m), h.frame # DATA PROVE Covers(L, DOMAIN L, m)
  BY <1>1, <1>3 DEF Covers
<1>4. ASSUME Covers(N, DOMAIN N, m), h.frame = DATA, h.seq = m PROVE Covers(L, DOMAIN L, m + 1)
  <2>1. ASSUME NEW i \in DOMAIN L, L[i].frame = DATA PROVE L[i].seq < m + 1
    BY <1>1, <1>4, <2>1 DEF Covers
  <2>2. ASSUME NEW k \in Nat, k < m + 1 PROVE \E i \in DOMAIN L : L[i].frame = DATA /\ L[i].seq = k
    <3>1. CASE k = m
      BY <1>1, <1>4, <3>1
    <3>2. CASE k < m
      <4>1. PICK i \in DOMAIN N : N[i].frame = DATA /\ N[i].seq = k
        BY <1>4, <3>2 DEF Covers
      <4> QED
        BY <1>1, <4>1
    <3> QED
      BY <2>2, <3>1, <3>2
  <2> QED
    BY <2>1, <2>2 DEF Covers
<1> QED
  BY <1>2, <1>3, <1>4

\* The order of the mail then.
LEMMA OrderedGrows ==
  ASSUME NEW L, NEW N, NEW n, NEW h, Adds(L, N, n, h), Ordered(N), Follows(N, h)
  PROVE  Ordered(L)
<1>1. DOMAIN L = DOMAIN N \cup {n} /\ L[n] = h /\ \A i \in DOMAIN N : L[i] = N[i]
  BY DEF Adds
<1>2. ASSUME NEW i \in DOMAIN L, NEW j \in DOMAIN L, i < j
      PROVE  /\ L[i].frame # RESET /\ L[j].frame \notin {OPEN, OPEN_ACK}
             /\ L[i].frame = CLOSE => L[j].frame \notin {DATA, CLOSE}
             /\ L[i].frame = DATA /\ L[j].frame = DATA => L[i].seq < L[j].seq
  <2>1. i \in DOMAIN N
    BY <1>1, <1>2 DEF Adds
  <2>2. CASE j \in DOMAIN N
    BY <1>1, <1>2, <2>1, <2>2 DEF Ordered
  <2>3. CASE j = n
    BY <1>1, <2>1, <2>3 DEF Follows, Has, Covers
  <2> QED
    BY <1>1, <2>2, <2>3
<1> QED
  BY <1>2 DEF Ordered

\* The mail is still that of a stream.
LEMMA BoxGrows ==
  ASSUME NEW L, NEW N, NEW n, NEW h, Adds(L, N, n, h), NEW K, NEW Q, Boxed(K, N, Q)
  PROVE  Boxed(K, L, Q)
<1>1. IsFiniteSet(DOMAIN L)
  BY FS_AddElement DEF Boxed, Adds
<1>2. \A i \in DOMAIN L : L[i] \in Headers /\ L[i].seq < U64_MAX
  BY DEF Boxed, Adds
<1>3. \A i \in DOMAIN L, j \in Q : i <= j => i \in Q
  BY DEF Boxed, Adds
<1> QED
  BY <1>1, <1>2, <1>3 DEF Boxed, Adds

\* The grants a frame makes.
Granted(h) == IF h.frame \in {OPEN_ACK, CREDIT} THEN h.window ELSE 0

\* A frame grants as many units as its window says, all of them its own.
LEMMA UnitsOf ==
  ASSUME NEW i, NEW w \in Nat
  PROVE  IsFiniteSet({i} \X (1 .. w)) /\ Cardinality({i} \X (1 .. w)) = w
<1>1. IsFiniteSet(1 .. w) /\ Cardinality(1 .. w) = w
  BY FS_Interval
<1>2. IsFiniteSet({i}) /\ Cardinality({i}) = 1
  BY FS_Singleton
<1> DEFINE X == {i}
           Y == 1 .. w
<1>3. /\ IsFiniteSet(X \X Y)
      /\ Cardinality(X \X Y) = Cardinality(X) * Cardinality(Y)
  <2>1. IsFiniteSet(X) /\ IsFiniteSet(Y)
    BY <1>1, <1>2
  <2> HIDE DEF X, Y
  <2> QED
    BY <2>1, FS_Product
<1>4. Cardinality(X) * Cardinality(Y) = w
  BY <1>1, <1>2
<1> QED
  BY <1>3, <1>4

\* The units of credit in the mail are finitely many.
LEMMA UnitsFinite ==
  ASSUME NEW M, NEW S, IsFiniteSet(S), \A j \in S : M[j].window \in U32
  PROVE  IsFiniteSet(Units(M, S)) /\ Cardinality(Units(M, S)) \in Nat
<1>1. IsFiniteSet(1 .. U32_MAX)
  BY MachineAssumption, FS_Interval DEF U64
<1>2. IsFiniteSet(S \X (1 .. U32_MAX))
  BY <1>1, FS_Product
<1>3. Units(M, S) \subseteq S \X (1 .. U32_MAX)
  BY MachineAssumption DEF Units, U32, U64
<1> QED
  BY <1>2, <1>3, FS_Subset, FS_CardinalityType

\* A frame more makes its grants more.
LEMMA UnitsAdd ==
  ASSUME NEW M, NEW S, IsFiniteSet(S), NEW i, i \notin S,
         \A j \in S \cup {i} : M[j].window \in U32
  PROVE  /\ Cardinality(Units(M, S)) \in Nat /\ Granted(M[i]) \in Nat
         /\ Cardinality(Units(M, S \cup {i})) = Cardinality(Units(M, S)) + Granted(M[i])
<1> DEFINE U == Units(M, S)
           V == {i} \X (1 .. M[i].window)
           w == M[i].window
<1>1. IsFiniteSet(U) /\ Cardinality(U) \in Nat
  BY UnitsFinite
<1>2. w \in Nat
  BY MachineAssumption DEF U32, U64
<1>3. IsFiniteSet(V) /\ Cardinality(V) = w
  <2> HIDE DEF w
  <2>1. V = {i} \X (1 .. w)
    BY DEF w
  <2> QED
    BY <1>2, <2>1, UnitsOf
<1>4. CASE M[i].frame \in {OPEN_ACK, CREDIT}
  <2>1. Units(M, S \cup {i}) = U \cup V
    BY <1>4 DEF Units
  <2>2. U \cap V = {}
    BY DEF Units
  <2>3. Granted(M[i]) = w
    BY <1>4 DEF Granted
  <2> HIDE DEF U, V, w
  <2>4. Cardinality(U \cup V) = Cardinality(U) + Cardinality(V) - Cardinality(U \cap V)
    BY <1>1, <1>3, FS_Union
  <2>5. Cardinality(U \cap V) = 0
    BY <2>2, FS_EmptySet
  <2>6. Cardinality(U \cup V) = Cardinality(U) + w
    BY <1>1, <1>2, <1>3, <2>4, <2>5
  <2> QED
    BY <1>1, <1>2, <2>1, <2>3, <2>6 DEF U
<1>5. CASE M[i].frame \notin {OPEN_ACK, CREDIT}
  <2>1. Units(M, S \cup {i}) = U
    BY <1>5 DEF Units
  <2>2. Granted(M[i]) = 0
    BY <1>5 DEF Granted
  <2> QED
    BY <1>1, <2>1, <2>2
<1> QED
  BY <1>4, <1>5

\* They grow with what is sent ...
LEMMA DueGrows ==
  ASSUME NEW L, NEW N, NEW n, NEW h, Adds(L, N, n, h), NEW K, NEW Q, Boxed(K, N, Q)
  PROVE  Due(N, Q) \in Nat /\ Granted(h) \in Nat /\ Due(L, Q) = Due(N, Q) + Granted(h)
<1> DEFINE S == DOMAIN N \ Q
<1>1. IsFiniteSet(S)
  BY FS_Subset DEF Boxed
<1>2. n \notin S /\ DOMAIN L \ Q = S \cup {n} /\ L[n] = h
  BY DEF Adds, Boxed
<1>3. \A j \in S \cup {n} : L[j].window \in U32
  BY DEF Adds, Boxed, Headers
<1>4. Units(L, S) = Units(N, S)
  BY DEF Units, Adds
<1> HIDE DEF S
<1>5. /\ Cardinality(Units(L, S)) \in Nat /\ Granted(L[n]) \in Nat
      /\ Cardinality(Units(L, S \cup {n})) = Cardinality(Units(L, S)) + Granted(L[n])
  BY <1>1, <1>2, <1>3, UnitsAdd
<1>6. Due(N, Q) = Cardinality(Units(N, S)) /\ Due(L, Q) = Cardinality(Units(L, S \cup {n}))
  BY <1>2 DEF Due, S
<1> QED
  BY <1>2, <1>4, <1>5, <1>6

\* ... and shrink with what is read.
LEMMA DueRead ==
  ASSUME NEW K, NEW M, NEW R, Boxed(K, M, R), NEW i \in DOMAIN M \ R
  PROVE  /\ Due(M, R) \in Nat /\ Due(M, R \cup {i}) \in Nat /\ Granted(M[i]) \in Nat
         /\ Due(M, R) = Due(M, R \cup {i}) + Granted(M[i])
<1> DEFINE S == DOMAIN M \ (R \cup {i})
<1>1. IsFiniteSet(S)
  BY FS_Subset DEF Boxed
<1>2. i \notin S /\ DOMAIN M \ R = S \cup {i}
  BY DEF Boxed
<1>3. \A j \in S \cup {i} : M[j].window \in U32
  BY DEF Boxed, Headers
<1> HIDE DEF S
<1>4. /\ Cardinality(Units(M, S)) \in Nat /\ Granted(M[i]) \in Nat
      /\ Cardinality(Units(M, S \cup {i})) = Cardinality(Units(M, S)) + Granted(M[i])
  BY <1>1, <1>2, <1>3, UnitsAdd
<1>5. Due(M, R) = Cardinality(Units(M, S \cup {i}))
  BY <1>2 DEF Due
<1>6. Due(M, R \cup {i}) = Cardinality(Units(M, S))
  BY DEF Due, S
<1> QED
  BY <1>4, <1>5, <1>6

\* The first frame that was not read is next.
Next1(M, R, i) == i \in DOMAIN M \ R /\ \A j \in DOMAIN M : j < i => j \in R

\* The mail is still that of a stream when it is read.
LEMMA BoxRead ==
  ASSUME NEW H, NEW M, NEW R, Boxed(H, M, R), NEW i, Next1(M, R, i)
  PROVE  Boxed(H, M, R \cup {i})
<1>1. ASSUME NEW k \in DOMAIN M, NEW j \in R \cup {i}, k <= j PROVE k \in R \cup {i}
  <2>1. i \in Nat /\ k \in Nat
    BY DEF Boxed, Next1
  <2> QED
    BY <1>1, <2>1 DEF Boxed, Next1
<1> QED
  BY <1>1 DEF Boxed, Next1

\* The next chunk has the number the reader waits for.
LEMMA NextChunk ==
  ASSUME NEW H, NEW M, NEW R, Boxed(H, M, R), Ordered(M),
         NEW n \in Nat, Covers(M, DOMAIN M, n), NEW k \in Nat, Covers(M, R, k),
         NEW i, Next1(M, R, i), M[i].frame = DATA
  PROVE  M[i].seq = k /\ Covers(M, R \cup {i}, k + 1)
<1>1. i \in DOMAIN M /\ i \notin R /\ i \in Nat /\ M[i].seq \in Nat /\ M[i].seq < n
  BY DEF Boxed, Next1, Headers, U64, Covers
<1>2. \A j \in DOMAIN M : j \in Nat /\ M[j].seq \in Nat
  BY DEF Boxed, Headers, U64
<1>3. ASSUME NEW j \in DOMAIN M, j # i, M[j].frame = DATA PROVE M[j].seq # M[i].seq
  <2>1. j < i \/ i < j
    BY <1>1, <1>2, <1>3
  <2> QED
    BY <1>1, <1>2, <1>3, <2>1 DEF Ordered
<1>4. ~(M[i].seq < k)
  <2> SUFFICES ASSUME M[i].seq < k PROVE FALSE
    OBVIOUS
  <2>1. PICK j \in R : M[j].frame = DATA /\ M[j].seq = M[i].seq
    BY <1>1 DEF Covers
  <2> QED
    BY <1>1, <1>3, <2>1 DEF Boxed
<1>5. ~(k < M[i].seq)
  <2> SUFFICES ASSUME k < M[i].seq PROVE FALSE
    OBVIOUS
  <2>1. k < n
    BY <1>1
  <2>2. PICK j \in DOMAIN M : M[j].frame = DATA /\ M[j].seq = k
    BY <2>1 DEF Covers
  <2>3. CASE j < i
    <3>1. j \in R
      BY <2>3 DEF Next1
    <3> QED
      BY <2>2, <3>1 DEF Covers
  <2>4. CASE i < j
    <3>1. M[i].seq < M[j].seq
      BY <1>1, <2>2, <2>4 DEF Ordered
    <3> QED
      BY <1>1, <2>2, <3>1
  <2>5. j # i
    BY <1>1, <2>2
  <2> QED
    BY <1>1, <1>2, <2>3, <2>4, <2>5
<1>6. M[i].seq = k
  BY <1>1, <1>4, <1>5
<1>7. ASSUME NEW j \in R \cup {i}, M[j].frame = DATA PROVE M[j].seq < k + 1
  BY <1>2, <1>6, <1>7 DEF Covers, Boxed
<1>8. ASSUME NEW m \in Nat, m < k + 1 PROVE \E j \in R \cup {i} : M[j].frame = DATA /\ M[j].seq = m
  <2>1. CASE m = k
    BY <1>6, <2>1
  <2>2. CASE m < k
    BY <2>2 DEF Covers
  <2> QED
    BY <1>8, <2>1, <2>2
<1> QED
  BY <1>6, <1>7, <1>8 DEF Covers
-----------------------------------------------------------------------------
(***************************************************************************)
(* What one end does, seen from both.                                      *)
(***************************************************************************)

\* A session s of an end goes on as t when the end sends h.
Utters(s, t, h) ==
  /\ Established(t) /\ ~is_closed(t) /\ h.frame # RESET
  /\ t.local_closed <=> s.local_closed \/ h.frame = CLOSE
  /\ t.remote_closed <=> s.remote_closed
  /\ t.recv_seq = s.recv_seq
  /\ t.send_seq = IF h.frame = DATA THEN s.send_seq + 1 ELSE s.send_seq
  /\ Permitted(t) = Permitted(s)
  /\ Permits(t) = Permits(s) + Granted(h) \/ Permits(t) >= U64_MAX

\* A chunk is sent with the next number, against credit.
Earned(s, h) == h.frame = DATA => h.seq = s.send_seq /\ s.send_credit > 0

\* The numbers of a session.
LEMMA SessionNumbers ==
  ASSUME NEW s \in Sessions
  PROVE  /\ s.send_seq \in Nat /\ s.recv_seq \in Nat
         /\ s.send_credit \in Nat /\ s.recv_window_remaining \in Nat
         /\ Permits(s) \in Nat /\ Permitted(s) \in Nat
         /\ s.local_closed \in BOOLEAN /\ s.remote_closed \in BOOLEAN /\ s.reset \in BOOLEAN
  BY DEF Sessions, U64, Permits, Permitted

\* The peer of an end that sends h.
LEMMA HalfHears ==
  ASSUME NEW K, NEW N, NEW Q, NEW M, Boxed(K, N, Q), Half(K, N, Q, M),
         NEW L, NEW n, NEW h, Adds(L, N, n, h), Follows(N, h)
  PROVE  Half(K, L, Q, M)
<1>1. \A i \in DOMAIN N : N[i].seq \in Nat
  BY DEF Boxed, Headers, U64
<1>2. Q \in SUBSET DOMAIN N
  BY DEF Boxed
<1>3. Ordered(L)
  BY OrderedGrows DEF Half
<1>4. ~Has(L, DOMAIN L, CLOSE_ACK)
  BY <1>2, HasGrows DEF Half, Follows
<1>5. \E m \in Nat : Covers(L, DOMAIN L, m)
  <2>1. PICK m \in Nat : Covers(N, DOMAIN N, m)
    BY DEF Half
  <2>2. CASE h.frame # DATA
    BY <1>1, <1>2, <2>1, <2>2, CoversGrows
  <2>3. CASE h.frame = DATA
    <3>1. h.seq \in Nat
      BY DEF Adds, Headers, U64
    <3>2. Covers(N, DOMAIN N, h.seq)
      BY <2>3 DEF Follows
    <3>3. Covers(L, DOMAIN L, h.seq + 1)
      BY <1>1, <1>2, <2>3, <3>1, <3>2, CoversGrows
    <3> QED
      BY <3>1, <3>3
  <2> QED
    BY <2>2, <2>3
<1>6. ASSUME NEW t \in K
      PROVE  /\ ~Has(L, Q, RESET) /\ (t.remote_closed <=> Has(L, Q, CLOSE))
             /\ Covers(L, Q, t.recv_seq)
  <2>1. t.recv_seq \in Nat
    BY SessionNumbers DEF Boxed
  <2>2. ~Has(N, Q, RESET) /\ (t.remote_closed <=> Has(N, Q, CLOSE)) /\ Covers(N, Q, t.recv_seq)
    BY DEF Half
  <2> QED
    BY <1>1, <1>2, <2>1, <2>2, HasGrows, CoversGrows
<1> QED
  BY <1>3, <1>4, <1>5, <1>6 DEF Half

\* The end that sends h, where its session goes on or is gone.
LEMMA HalfSays ==
  ASSUME NEW H, NEW M, NEW R, NEW N, NEW K, NEW Q, Boxed(H, M, R), Boxed(K, N, Q),
         Half(H, M, R, N), NEW L, NEW n, NEW h, Adds(L, N, n, h),
         NEW s \in H, Earned(s, h), NEW J, \A t \in J : Utters(s, t, h)
  PROVE  Half(J, M, R, L)
<1>1. \A i \in DOMAIN N : N[i].seq \in Nat
  BY DEF Boxed, Headers, U64
<1>2. s.send_seq \in Nat
  BY SessionNumbers DEF Boxed
<1>3. ASSUME NEW t \in J
      PROVE  /\ ~Has(L, DOMAIN L, RESET) /\ ~Has(M, R, RESET) /\ ~is_closed(t)
             /\ Established(t)
             /\ t.local_closed <=> Has(L, DOMAIN L, CLOSE)
             /\ t.remote_closed <=> Has(M, R, CLOSE)
             /\ Covers(L, DOMAIN L, t.send_seq) /\ Covers(M, R, t.recv_seq)
  <2>1. Utters(s, t, h)
    OBVIOUS
  <2>2. ~Has(L, DOMAIN L, RESET)
    BY <2>1, HasGrows DEF Half, Utters
  <2>3. t.local_closed <=> Has(L, DOMAIN L, CLOSE)
    BY <2>1, HasGrows DEF Half, Utters
  <2>4. Covers(L, DOMAIN L, t.send_seq)
    <3>1. Covers(N, DOMAIN N, s.send_seq)
      BY DEF Half
    <3> QED
      BY <1>1, <1>2, <2>1, <3>1, CoversGrows DEF Utters, Earned
  <2>5. ~Has(M, R, RESET) /\ (s.remote_closed <=> Has(M, R, CLOSE)) /\ Covers(M, R, s.recv_seq)
    BY DEF Half
  <2> QED
    BY <2>1, <2>2, <2>3, <2>4, <2>5 DEF Utters
<1>4. Ordered(M) /\ ~Has(M, DOMAIN M, CLOSE_ACK) /\ \E m \in Nat : Covers(M, DOMAIN M, m)
  BY DEF Half
<1> QED
  BY <1>3, <1>4 DEF Half

\* The credit between them, when an end sends h.
LEMMA BalanceKept ==
  ASSUME NEW H, NEW M, NEW R, NEW K, NEW N, NEW Q, Boxed(H, M, R), Boxed(K, N, Q),
         Balance(H, M, K, N, Q), Balance(K, N, H, M, R),
         NEW L, NEW n, NEW h, Adds(L, N, n, h),
         NEW s \in H, Earned(s, h), NEW J \in SUBSET Sessions, \A t \in J : Utters(s, t, h)
  PROVE  Balance(J, M, K, L, Q) /\ Balance(K, L, J, M, R)
<1>1. /\ Due(N, Q) \in Nat /\ Granted(h) \in Nat /\ Due(L, Q) = Due(N, Q) + Granted(h)
  BY DueGrows
<1>2. s \in Sessions /\ Permits(s) \in Nat /\ Permitted(s) \in Nat
      /\ s.send_seq \in Nat /\ s.send_credit \in Nat
  BY SessionNumbers DEF Boxed
<1>3. U64_MAX \in Nat
  BY MachineAssumption
<1>4. ASSUME NEW t \in J
      PROVE  \/ Permits(t) >= U64_MAX
             \/ /\ \A i \in DOMAIN M : M[i].frame = DATA => M[i].seq < Permits(t)
                /\ \A u \in K : Permitted(u) + Due(L, Q) = Permits(t)
  <2>1. Permits(t) = Permits(s) + Granted(h) \/ Permits(t) >= U64_MAX
    BY DEF Utters
  <2>2. CASE Permits(s) >= U64_MAX
    BY <1>1, <1>2, <1>3, <2>1, <2>2
  <2>3. ASSUME Permits(t) = Permits(s) + Granted(h),
               \A i \in DOMAIN M : M[i].frame = DATA => M[i].seq < Permits(s),
               \A u \in K : Permitted(u) + Due(N, Q) = Permits(s)
        PROVE  /\ \A i \in DOMAIN M : M[i].frame = DATA => M[i].seq < Permits(t)
               /\ \A u \in K : Permitted(u) + Due(L, Q) = Permits(t)
    <3>1. ASSUME NEW i \in DOMAIN M, M[i].frame = DATA PROVE M[i].seq < Permits(t)
      <4>1. M[i].seq \in Nat
        BY DEF Boxed, Headers, U64
      <4> QED
        BY <1>1, <1>2, <2>3, <3>1, <4>1
    <3>2. ASSUME NEW u \in K PROVE Permitted(u) + Due(L, Q) = Permits(t)
      <4>1. Permitted(u) \in Nat
        BY SessionNumbers DEF Boxed
      <4> QED
        BY <1>1, <1>2, <2>3, <4>1
    <3> QED
      BY <3>1, <3>2
  <2> QED
    BY <2>1, <2>2, <2>3 DEF Balance
<1>5. ASSUME NEW u \in K
      PROVE  \/ Permits(u) >= U64_MAX
             \/ /\ \A i \in DOMAIN L : L[i].frame = DATA => L[i].seq < Permits(u)
                /\ \A t \in J : Permitted(t) + Due(M, R) = Permits(u)
  <2>1. CASE Permits(u) >= U64_MAX
    BY <2>1
  <2>2. CASE /\ \A i \in DOMAIN N : N[i].frame = DATA => N[i].seq < Permits(u)
             /\ \A t \in H : Permitted(t) + Due(M, R) = Permits(u)
    <3>1. ASSUME NEW t \in J PROVE Permitted(t) + Due(M, R) = Permits(u)
      BY <2>2 DEF Utters
    <3>2. ASSUME NEW i \in DOMAIN L, L[i].frame = DATA PROVE L[i].seq < Permits(u)
      <4>1. CASE i \in DOMAIN N
        BY <2>2, <3>2, <4>1 DEF Adds
      <4>2. CASE i = n
        <5>1. L[i].seq = s.send_seq /\ s.send_credit > 0
          BY <3>2, <4>2 DEF Adds, Earned
        <5>2. Permitted(s) + Due(M, R) = Permits(u) /\ Due(M, R) \in Nat
          <6>1. \A j \in DOMAIN M \ R : M[j].window \in U32
            BY DEF Boxed, Headers
          <6>2. IsFiniteSet(DOMAIN M \ R)
            BY FS_Subset DEF Boxed
          <6> QED
            BY <2>2, <6>1, <6>2, UnitsFinite DEF Due
        <5> QED
          BY <1>2, <5>1, <5>2 DEF Permitted
      <4> QED
        BY <4>1, <4>2 DEF Adds
    <3> QED
      BY <3>1, <3>2
  <2> QED
    BY <2>1, <2>2 DEF Balance
<1> QED
  BY <1>4, <1>5 DEF Balance

\* What both ends have in common survives a frame that is sent.
LEMMA MutualSays ==
  ASSUME NEW H, NEW M, NEW R, NEW K, NEW N, NEW Q, Boxed(H, M, R), Boxed(K, N, Q),
         Mutual(H, M, R, K, N, Q), NEW L, NEW n, NEW h, Adds(L, N, n, h), Follows(N, h),
         NEW s \in H, Earned(s, h), NEW J \in SUBSET Sessions, \A t \in J : Utters(s, t, h)
  PROVE  Mutual(J, M, R, K, L, Q)
<1>1. Half(H, M, R, N) /\ Half(K, N, Q, M) /\ Balance(H, M, K, N, Q) /\ Balance(K, N, H, M, R)
  BY DEF Mutual
<1>2. Half(K, L, Q, M)
  BY <1>1, HalfHears
<1>3. Half(J, M, R, L)
  BY <1>1, HalfSays
<1>4. Balance(J, M, K, L, Q) /\ Balance(K, L, J, M, R)
  BY <1>1, BalanceKept
<1> QED
  BY <1>2, <1>3, <1>4 DEF Mutual

\* A session s of an end goes on as t when the end reads h.
Learns(s, t, h) ==
  /\ Established(t) /\ ~is_closed(t) /\ h.frame # RESET
  /\ t.local_closed <=> s.local_closed
  /\ t.remote_closed <=> s.remote_closed \/ h.frame = CLOSE
  /\ t.send_seq = s.send_seq
  /\ t.recv_seq = IF h.frame = DATA THEN s.recv_seq + 1 ELSE s.recv_seq
  /\ Permits(t) = Permits(s)
  /\ Permitted(t) = Permitted(s) + Granted(h) \/ Permitted(s) + Granted(h) > U64_MAX

\* The end that reads the next frame, where its session goes on.
LEMMA HalfReads ==
  ASSUME NEW H, NEW M, NEW R, NEW N, Boxed(H, M, R), Half(H, M, R, N),
         NEW i, Next1(M, R, i), NEW s \in H, NEW J, \A t \in J : Learns(s, t, M[i])
  PROVE  Half(J, M, R \cup {i}, N)
<1>1. PICK m \in Nat : Covers(M, DOMAIN M, m)
  BY DEF Half
<1>2. s.recv_seq \in Nat
  BY SessionNumbers DEF Boxed
<1>3. Ordered(M) /\ ~Has(M, DOMAIN M, CLOSE_ACK)
  BY DEF Half
<1>4. /\ ~Has(N, DOMAIN N, RESET) /\ ~Has(M, R, RESET)
      /\ s.local_closed <=> Has(N, DOMAIN N, CLOSE)
      /\ s.remote_closed <=> Has(M, R, CLOSE)
      /\ Covers(N, DOMAIN N, s.send_seq) /\ Covers(M, R, s.recv_seq)
  BY DEF Half
<1>5. ASSUME NEW t \in J PROVE Covers(M, R \cup {i}, t.recv_seq)
  <2>1. CASE M[i].frame = DATA
    <3>1. Covers(M, R \cup {i}, s.recv_seq + 1)
      BY <1>1, <1>2, <1>3, <1>4, <2>1, NextChunk
    <3> QED
      BY <2>1, <3>1 DEF Learns
  <2>2. CASE M[i].frame # DATA
    <3>1. Covers(M, R \cup {i}, s.recv_seq)
      BY <1>4, <2>2 DEF Covers
    <3> QED
      BY <2>2, <3>1 DEF Learns
  <2> QED
    BY <2>1, <2>2
<1>6. ASSUME NEW t \in J
      PROVE  /\ ~Has(M, R \cup {i}, RESET) /\ ~is_closed(t) /\ Established(t)
             /\ t.local_closed <=> Has(N, DOMAIN N, CLOSE)
             /\ t.remote_closed <=> Has(M, R \cup {i}, CLOSE)
             /\ Covers(N, DOMAIN N, t.send_seq)
  BY <1>4, HasRead DEF Learns
<1> QED
  BY <1>1, <1>3, <1>4, <1>5, <1>6 DEF Half

\* The credit between them, when an end reads the next frame.
LEMMA BalanceRead ==
  ASSUME NEW H, NEW M, NEW R, NEW K, NEW N, NEW Q, Boxed(H, M, R), Boxed(K, N, Q),
         Balance(H, M, K, N, Q), Balance(K, N, H, M, R), NEW i \in DOMAIN M \ R,
         NEW s \in H, NEW J \in SUBSET Sessions, \A t \in J : Learns(s, t, M[i])
  PROVE  Balance(J, M, K, N, Q) /\ Balance(K, N, J, M, R \cup {i})
<1>1. /\ Due(M, R) \in Nat /\ Due(M, R \cup {i}) \in Nat /\ Granted(M[i]) \in Nat
      /\ Due(M, R) = Due(M, R \cup {i}) + Granted(M[i])
  BY DueRead
<1>2. Permitted(s) \in Nat /\ U64_MAX \in Nat
  BY SessionNumbers, MachineAssumption DEF Boxed
<1>3. Balance(J, M, K, N, Q)
  BY DEF Balance, Learns
<1>4. ASSUME NEW u \in K
      PROVE  \/ Permits(u) >= U64_MAX
             \/ /\ \A j \in DOMAIN N : N[j].frame = DATA => N[j].seq < Permits(u)
                /\ \A t \in J : Permitted(t) + Due(M, R \cup {i}) = Permits(u)
  <2>1. CASE Permits(u) >= U64_MAX
    BY <2>1
  <2>2. CASE /\ \A j \in DOMAIN N : N[j].frame = DATA => N[j].seq < Permits(u)
             /\ \A t \in H : Permitted(t) + Due(M, R) = Permits(u)
             /\ ~(Permits(u) >= U64_MAX)
    <3>1. Permitted(s) + Due(M, R) = Permits(u) /\ Permits(u) \in Nat
      BY <2>2, SessionNumbers DEF Boxed
    <3>2. ~(Permitted(s) + Granted(M[i]) > U64_MAX)
      BY <1>1, <1>2, <2>2, <3>1
    <3>3. ASSUME NEW t \in J PROVE Permitted(t) + Due(M, R \cup {i}) = Permits(u)
      <4>1. Permitted(t) = Permitted(s) + Granted(M[i])
        BY <3>2 DEF Learns
      <4> QED
        BY <1>1, <1>2, <3>1, <4>1
    <3> QED
      BY <2>2, <3>3
  <2> QED
    BY <2>1, <2>2 DEF Balance
<1>5. Balance(K, N, J, M, R \cup {i})
  BY <1>4 DEF Balance
<1> QED
  BY <1>3, <1>5

\* What both ends have in common survives a frame that is read ...
LEMMA MutualReads ==
  ASSUME NEW H, NEW M, NEW R, NEW K, NEW N, NEW Q, Boxed(H, M, R), Boxed(K, N, Q),
         Mutual(H, M, R, K, N, Q), NEW i, Next1(M, R, i),
         NEW s \in H, NEW J \in SUBSET Sessions, \A t \in J : Learns(s, t, M[i])
  PROVE  Mutual(J, M, R \cup {i}, K, N, Q)
<1>1. Half(H, M, R, N) /\ Half(K, N, Q, M) /\ Balance(H, M, K, N, Q) /\ Balance(K, N, H, M, R)
  BY DEF Mutual
<1>2. Half(J, M, R \cup {i}, N)
  BY <1>1, HalfReads
<1>3. Balance(J, M, K, N, Q) /\ Balance(K, N, J, M, R \cup {i})
  BY <1>1, BalanceRead DEF Next1
<1> QED
  BY <1>1, <1>2, <1>3 DEF Mutual

\* ... by an end that holds no session of the stream, or no longer does.
LEMMA MutualDrops ==
  ASSUME NEW H, NEW M, NEW R, NEW K, NEW N, NEW Q, Mutual(H, M, R, K, N, Q), NEW P
  PROVE  Mutual({}, M, P, K, N, Q)
<1>1. Half({}, M, P, N) /\ Half(K, N, Q, M)
  BY DEF Mutual, Half
<1>2. Balance({}, M, K, N, Q) /\ Balance(K, N, {}, M, P)
  BY DEF Mutual, Balance
<1> QED
  BY <1>1, <1>2 DEF Mutual
-----------------------------------------------------------------------------
(***************************************************************************)
(* What a call or a frame makes of a session.                              *)
(***************************************************************************)

\* The sessions an end holds of a stream whose session is s, unless s is closed.
Kept(s) == IF is_closed(s) THEN {} ELSE {s}

\* A call that sends h turns the one session s into the sessions J.
Speech(s, J, h) ==
  /\ h.frame \in {DATA, CREDIT, CLOSE, RESET}
  /\ h.frame \in {DATA, CLOSE} => ~s.local_closed
  /\ h.frame # RESET => Established(s)
  /\ Earned(s, h)
  /\ J \subseteq Sessions
  /\ \A t \in J : Utters(s, t, h) /\ t.role = s.role /\ Permits(t) <= Permits(s) + U32_MAX
  /\ J = {} => h.frame = RESET \/ (h.frame = CLOSE /\ s.remote_closed)

\* A frame h that is read turns the one session s into the sessions J.
Hearing(s, J, h) ==
  /\ h.frame \in {OPEN_ACK, DATA, CREDIT, CLOSE, RESET}
  /\ J \subseteq Sessions /\ \A t \in J : Learns(s, t, h) /\ t.role = s.role
  /\ J = {} => h.frame = RESET \/ (h.frame = CLOSE /\ s.local_closed)

\* send_data.
LEMMA DataSpeech ==
  ASSUME NEW s \in Sessions, ~is_closed(s), CanSendData(s), build_data(s) \in Sessions
  PROVE  Speech(s, {build_data(s)}, header(DATA, s.send_seq, 0))
<1> DEFINE t == build_data(s)
           h == header(DATA, s.send_seq, 0)
<1>1. h.frame = DATA /\ h.seq = s.send_seq
  BY DEF header
<1>2. /\ t.role = s.role /\ t.handshake = s.handshake /\ t.send_seq = s.send_seq + 1
      /\ t.recv_seq = s.recv_seq /\ t.send_credit = s.send_credit - 1
      /\ t.recv_window_remaining = s.recv_window_remaining
      /\ t.local_closed = s.local_closed /\ t.remote_closed = s.remote_closed
      /\ t.reset = s.reset
  BY DEF build_data, Sessions
<1>3. Established(s) /\ ~s.local_closed /\ s.send_credit > 0
  BY DEF CanSendData
<1>4. s.send_seq \in Nat /\ s.send_credit \in Nat /\ Permits(s) \in Nat
  BY SessionNumbers
<1>5. Permitted(t) = Permitted(s) /\ Permits(t) = Permits(s)
  BY <1>2, <1>4 DEF Permitted, Permits
<1>6. Granted(h) = 0
  BY <1>1 DEF Granted, OPEN_ACK, CREDIT, DATA
<1>7. Established(t) /\ ~is_closed(t)
  BY <1>2, <1>3 DEF Established, is_closed
<1> HIDE DEF t, h
<1>8. Utters(s, t, h)
  BY <1>1, <1>2, <1>4, <1>5, <1>6, <1>7 DEF Utters, DATA, CLOSE, RESET
<1>9. Permits(t) <= Permits(s) + U32_MAX
  BY <1>4, <1>5, MachineAssumption DEF U64
<1>10. Speech(s, {t}, h)
  BY <1>1, <1>2, <1>3, <1>8, <1>9 DEF Speech, Earned, t
<1> QED
  BY <1>10 DEF t, h

\* grant_credit.
LEMMA CreditSpeech ==
  ASSUME NEW s \in Sessions, ~is_closed(s), CanGrantCredit(s), NEW w \in U32,
         build_credit(s, w) \in Sessions
  PROVE  Speech(s, {build_credit(s, w)}, header(CREDIT, 0, w))
<1> DEFINE t == build_credit(s, w)
           h == header(CREDIT, 0, w)
<1>1. h.frame = CREDIT /\ h.window = w
  BY DEF header
<1>2. /\ t.role = s.role /\ t.handshake = s.handshake /\ t.send_seq = s.send_seq
      /\ t.recv_seq = s.recv_seq /\ t.send_credit = s.send_credit
      /\ t.recv_window_remaining = saturating_add(s.recv_window_remaining, w)
      /\ t.local_closed = s.local_closed /\ t.remote_closed = s.remote_closed
      /\ t.reset = s.reset
  BY DEF build_credit, Sessions
<1>3. Established(s)
  BY DEF CanGrantCredit
<1>4. /\ s.recv_seq \in Nat /\ s.recv_window_remaining \in Nat /\ w \in Nat /\ U64_MAX \in Nat
  BY SessionNumbers, MachineAssumption DEF U32, U64
<1>5. Granted(h) = w
  BY <1>1 DEF Granted
<1>6. Permitted(t) = Permitted(s)
  BY <1>2 DEF Permitted
<1>7. Permits(t) = Permits(s) + w \/ Permits(t) >= U64_MAX
  BY <1>2, <1>4 DEF Permits, saturating_add
<1>8. Established(t) /\ ~is_closed(t)
  BY <1>2, <1>3 DEF Established, is_closed
<1> HIDE DEF t, h
<1>9. Utters(s, t, h)
  BY <1>1, <1>2, <1>5, <1>6, <1>7, <1>8 DEF Utters, DATA, CLOSE, RESET, CREDIT
<1>10. Permits(t) <= Permits(s) + U32_MAX
  <2>1. w <= U32_MAX /\ U32_MAX \in Nat
    BY MachineAssumption DEF U32, U64
  <2> QED
    BY <1>2, <1>4, <2>1 DEF Permits, saturating_add
<1>11. Speech(s, {t}, h)
  BY <1>1, <1>2, <1>3, <1>9, <1>10 DEF Speech, Earned, DATA, CLOSE, CREDIT, t
<1> QED
  BY <1>11 DEF t, h

\* close.
LEMMA CloseSpeech ==
  ASSUME NEW s \in Sessions, ~is_closed(s), CanClose(s), Established(s),
         build_close(s) \in Sessions
  PROVE  Speech(s, Kept(build_close(s)), header(CLOSE, 0, 0))
<1> DEFINE t == build_close(s)
           h == header(CLOSE, 0, 0)
<1>1. h.frame = CLOSE
  BY DEF header
<1>2. /\ t.role = s.role /\ t.handshake = s.handshake /\ t.send_seq = s.send_seq
      /\ t.recv_seq = s.recv_seq /\ t.send_credit = s.send_credit
      /\ t.recv_window_remaining = s.recv_window_remaining
      /\ t.local_closed = TRUE /\ t.remote_closed = s.remote_closed
      /\ t.reset = s.reset
  BY DEF build_close, Sessions
<1>3. Permits(s) \in Nat
  BY SessionNumbers
<1>4. Granted(h) = 0
  BY <1>1 DEF Granted, OPEN_ACK, CREDIT, CLOSE
<1>5. Permitted(t) = Permitted(s) /\ Permits(t) = Permits(s)
  BY <1>2 DEF Permitted, Permits
<1>6. Established(t) /\ ~s.local_closed
  BY <1>2 DEF Established, CanClose
<1> HIDE DEF t, h
<1>7. ~is_closed(t) => Utters(s, t, h)
  BY <1>1, <1>2, <1>3, <1>4, <1>5, <1>6 DEF Utters, DATA, CLOSE, RESET
<1>8. is_closed(t) => s.remote_closed
  BY <1>2 DEF is_closed
<1>9. Permits(t) <= Permits(s) + U32_MAX
  BY <1>3, <1>5, MachineAssumption DEF U64
<1>10. Speech(s, Kept(t), h)
  <2>1. CASE is_closed(t)
    BY <1>1, <1>6, <1>8, <2>1 DEF Speech, Earned, DATA, CLOSE, Kept
  <2>2. CASE ~is_closed(t)
    BY <1>1, <1>2, <1>6, <1>7, <1>9, <2>2 DEF Speech, Earned, DATA, CLOSE, Kept, t
  <2> QED
    BY <2>1, <2>2
<1> QED
  BY <1>10 DEF t, h

\* reset.
LEMMA ResetSpeech ==
  ASSUME NEW s \in Sessions
  PROVE  Speech(s, {}, header(RESET, 0, 0))
<1> DEFINE h == header(RESET, 0, 0)
<1>1. h.frame = RESET
  BY DEF header
<1> HIDE DEF h
<1>2. h.frame \notin {DATA, CLOSE} /\ h.frame \in {DATA, CREDIT, CLOSE, RESET}
  BY <1>1 DEF DATA, CLOSE, RESET
<1>3. Earned(s, h)
  BY <1>2 DEF Earned
<1>4. ASSUME NEW J, J = {} PROVE Speech(s, J, h)
  <2>1. /\ J \subseteq Sessions
        /\ \A t \in J : Utters(s, t, h) /\ t.role = s.role /\ Permits(t) <= Permits(s) + U32_MAX
    BY <1>4
  <2>2. h.frame \in {DATA, CLOSE} => ~s.local_closed
    BY <1>2
  <2>3. h.frame # RESET => Established(s)
    BY <1>1
  <2>4. J = {} => h.frame = RESET \/ (h.frame = CLOSE /\ s.remote_closed)
    BY <1>1
  <2> QED
    BY <1>2, <1>3, <2>1, <2>2, <2>3, <2>4 DEF Speech
<1> QED
  BY <1>4 DEF h

\* A frame that a session takes.
LEMMA LegalHearing ==
  ASSUME NEW s \in Sessions, ~is_closed(s), NEW h \in Headers, h.seq < U64_MAX, Legal(s, h),
         h.frame \in {OPEN_ACK, DATA, CREDIT, CLOSE}, h.frame = OPEN_ACK => s.send_credit = 0
  PROVE  Hearing(s, Kept(on_recv(s, h)), h)
<1> DEFINE t == on_recv(s, h)
<1> USE DEF OPEN, OPEN_ACK, DATA, CREDIT, CLOSE, CLOSE_ACK, RESET
<1>1. /\ s.send_seq \in Nat /\ s.recv_seq \in Nat /\ s.send_credit \in Nat
      /\ s.recv_window_remaining \in Nat /\ Permits(s) \in Nat /\ Permitted(s) \in Nat
  BY SessionNumbers
<1>2. h.window \in Nat /\ U64_MAX \in Nat
  BY MachineAssumption DEF Headers, U32, U64
<1>3. t \in Sessions
  <2>1. h.frame \in KnownFrames \ {OPEN, RESET} /\ h.window \in U32
    BY DEF Headers, KnownFrames
  <2> QED
    BY <2>1, RecvType
<1>4. CASE h.frame = OPEN_ACK
  <2>1. t = [s EXCEPT !.handshake = "Established", !.send_credit = h.window]
    BY <1>4 DEF on_recv
  <2>2. /\ t.role = s.role /\ t.handshake = "Established" /\ t.send_seq = s.send_seq
        /\ t.recv_seq = s.recv_seq /\ t.send_credit = h.window
        /\ t.recv_window_remaining = s.recv_window_remaining
        /\ t.local_closed = s.local_closed /\ t.remote_closed = s.remote_closed
        /\ t.reset = s.reset
    BY <2>1 DEF Sessions
  <2> HIDE DEF t
  <2>3. Granted(h) = h.window /\ s.send_credit = 0
    BY <1>4 DEF Granted
  <2>4. Permits(t) = Permits(s) /\ Permitted(t) = Permitted(s) + Granted(h)
    BY <1>1, <1>2, <2>2, <2>3 DEF Permits, Permitted
  <2>5. ~is_closed(t)
    BY <2>2 DEF is_closed
  <2>6. Learns(s, t, h)
    BY <1>4, <2>2, <2>4, <2>5 DEF Learns, Established
  <2> QED
    BY <1>3, <1>4, <2>2, <2>5, <2>6 DEF Hearing, Kept, t
<1>5. CASE h.frame = DATA
  <2>1. t = [s EXCEPT !.recv_window_remaining = s.recv_window_remaining - 1,
                      !.recv_seq = s.recv_seq + 1]
    BY <1>5 DEF on_recv
  <2>2. /\ t.role = s.role /\ t.handshake = s.handshake /\ t.send_seq = s.send_seq
        /\ t.recv_seq = s.recv_seq + 1 /\ t.send_credit = s.send_credit
        /\ t.recv_window_remaining = s.recv_window_remaining - 1
        /\ t.local_closed = s.local_closed /\ t.remote_closed = s.remote_closed
        /\ t.reset = s.reset
    BY <2>1 DEF Sessions
  <2> HIDE DEF t
  <2>3. Granted(h) = 0
    BY <1>5 DEF Granted
  <2>4. Permits(t) = Permits(s) /\ Permitted(t) = Permitted(s) + Granted(h)
    BY <1>1, <1>2, <2>2, <2>3 DEF Permits, Permitted
  <2>5. ~is_closed(t)
    BY <2>2 DEF is_closed
  <2>6. Established(t)
    BY <1>5, <2>2 DEF Established, Legal
  <2>7. Learns(s, t, h)
    BY <1>5, <2>2, <2>4, <2>5, <2>6 DEF Learns
  <2> QED
    BY <1>3, <1>5, <2>2, <2>5, <2>7 DEF Hearing, Kept, t
<1>6. CASE h.frame = CREDIT
  <2>1. t = [s EXCEPT !.send_credit = saturating_add(s.send_credit, h.window)]
    BY <1>6 DEF on_recv
  <2>2. /\ t.role = s.role /\ t.handshake = s.handshake /\ t.send_seq = s.send_seq
        /\ t.recv_seq = s.recv_seq /\ t.send_credit = saturating_add(s.send_credit, h.window)
        /\ t.recv_window_remaining = s.recv_window_remaining
        /\ t.local_closed = s.local_closed /\ t.remote_closed = s.remote_closed
        /\ t.reset = s.reset
    BY <2>1 DEF Sessions
  <2> HIDE DEF t
  <2>3. Granted(h) = h.window
    BY <1>6 DEF Granted
  <2>4. Permits(t) = Permits(s)
    BY <2>2 DEF Permits
  <2>5. Permitted(t) = Permitted(s) + Granted(h) \/ Permitted(s) + Granted(h) > U64_MAX
    BY <1>1, <1>2, <2>2, <2>3 DEF Permitted, saturating_add
  <2>6. ~is_closed(t)
    BY <2>2 DEF is_closed
  <2>7. Established(t)
    BY <1>6, <2>2 DEF Established, Legal
  <2>8. Learns(s, t, h)
    BY <1>6, <2>2, <2>4, <2>5, <2>6, <2>7 DEF Learns
  <2> QED
    BY <1>3, <1>6, <2>2, <2>6, <2>8 DEF Hearing, Kept, t
<1>7. CASE h.frame = CLOSE
  <2>1. t = [s EXCEPT !.remote_closed = TRUE]
    BY <1>7 DEF on_recv
  <2>2. /\ t.role = s.role /\ t.handshake = s.handshake /\ t.send_seq = s.send_seq
        /\ t.recv_seq = s.recv_seq /\ t.send_credit = s.send_credit
        /\ t.recv_window_remaining = s.recv_window_remaining
        /\ t.local_closed = s.local_closed /\ t.remote_closed = TRUE
        /\ t.reset = s.reset
    BY <2>1 DEF Sessions
  <2> HIDE DEF t
  <2>3. Granted(h) = 0
    BY <1>7 DEF Granted
  <2>4. Permits(t) = Permits(s) /\ Permitted(t) = Permitted(s) + Granted(h)
    BY <1>1, <1>2, <2>2, <2>3 DEF Permits, Permitted
  <2>5. Established(t)
    BY <1>7, <2>2 DEF Established, Legal
  <2>6. ~is_closed(t) => Learns(s, t, h)
    BY <1>7, <2>2, <2>4, <2>5 DEF Learns
  <2>7. is_closed(t) => s.local_closed
    BY <2>2 DEF is_closed
  <2>8. CASE is_closed(t)
    BY <1>7, <2>7, <2>8 DEF Hearing, Kept, t
  <2>9. CASE ~is_closed(t)
    BY <1>3, <1>7, <2>2, <2>6, <2>9 DEF Hearing, Kept, t
  <2> QED
    BY <2>8, <2>9
<1> QED
  BY <1>4, <1>5, <1>6, <1>7
-----------------------------------------------------------------------------
(***************************************************************************)
(* The opener (H, M, R) and the answerer (K, N, Q) of a stream.            *)
(***************************************************************************)

\* A frame of an end that holds a session may follow those it sent.
LEMMA SpeechFollows ==
  ASSUME NEW H, NEW M, NEW R, NEW N, Half(H, M, R, N), NEW s \in H, NEW J, NEW h, Speech(s, J, h)
  PROVE  Follows(N, h)
<1>1. ~Has(N, DOMAIN N, RESET) /\ (s.local_closed <=> Has(N, DOMAIN N, CLOSE))
      /\ Covers(N, DOMAIN N, s.send_seq)
  BY DEF Half
<1>2. h.frame \notin {CLOSE_ACK, OPEN, OPEN_ACK}
  BY DEF Speech, OPEN, OPEN_ACK, DATA, CREDIT, CLOSE, CLOSE_ACK, RESET
<1> QED
  BY <1>1, <1>2 DEF Follows, Speech, Earned

\* The reasons to drop a stream stay.
LEMMA OverSent ==
  ASSUME NEW L, NEW N, NEW n, NEW h, Adds(L, N, n, h), NEW M, NEW R, NEW Q \in SUBSET DOMAIN N
  PROVE  /\ Over(M, R, N) => Over(M, R, L)
         /\ Over(N, Q, M) => Over(L, Q, M)
<1>1. ASSUME NEW f, Has(N, DOMAIN N, f) PROVE Has(L, DOMAIN L, f)
  BY <1>1, HasGrows
<1>2. ASSUME NEW f, Has(N, Q, f) PROVE Has(L, Q, f)
  BY <1>2, HasGrows
<1> QED
  BY <1>1, <1>2 DEF Over

\* The opener sends.
LEMMA OpenerSays ==
  ASSUME NEW H, NEW M, NEW R, NEW K, NEW N, NEW Q, Boxed(H, M, R), Boxed(K, N, Q),
         Story(H, M, R, K, N, Q), NEW s \in H, NEW J, NEW h, Speech(s, J, h),
         NEW L, NEW n, Adds(L, N, n, h)
  PROVE  Story(J, M, R, K, L, Q)
<1>1. Mutual(H, M, R, K, N, Q) /\ Handshake(H, M, R, K, N, Q) /\ Endings(H, M, R, K, N, Q)
  BY DEF Story
<1>2. Half(H, M, R, N)
  BY <1>1 DEF Mutual
<1>3. Mutual(J, M, R, K, L, Q)
  <2>1. Follows(N, h)
    BY <1>2, SpeechFollows
  <2>2. Earned(s, h) /\ J \in SUBSET Sessions /\ \A t \in J : Utters(s, t, h)
    BY DEF Speech
  <2> QED
    BY <1>1, <2>1, <2>2, MutualSays
<1>4. DOMAIN L = DOMAIN N \cup {n} /\ L[n] = h /\ (\A i \in DOMAIN N : L[i] = N[i] /\ i < n)
      /\ n \in Nat /\ DOMAIN N \subseteq Nat
  BY DEF Adds
<1>5. s.role = "Initiator" /\ (Established(s) <=> Has(M, R, OPEN_ACK)) /\ DOMAIN N # {}
  BY <1>1 DEF Handshake
<1>6. Handshake(J, M, R, K, L, Q)
  <2>1. ASSUME NEW t \in J
        PROVE  t.role = "Initiator" /\ Established(t) /\ Has(M, R, OPEN_ACK)
    BY <1>5 DEF Speech, Utters
  <2>2. ASSUME NEW i \in DOMAIN L
        PROVE  /\ L[i].frame # OPEN_ACK
               /\ \E j \in DOMAIN L : j <= i /\ L[j].frame = OPEN
               /\ L[i].frame \in {DATA, CREDIT, CLOSE} => Has(M, R, OPEN_ACK)
    <3>1. CASE i \in DOMAIN N
      BY <1>1, <1>4, <3>1 DEF Handshake
    <3>2. CASE i = n
      <4>1. PICK j \in DOMAIN N : N[j].frame = OPEN
        BY <1>1, <1>5 DEF Handshake
      <4>2. j \in DOMAIN L /\ j <= n /\ L[j].frame = OPEN
        BY <1>4, <4>1
      <4>3. h.frame # OPEN_ACK /\ (h.frame \in {DATA, CREDIT, CLOSE} => Established(s))
        BY DEF Speech, OPEN_ACK, DATA, CREDIT, CLOSE, RESET
      <4> QED
        BY <1>4, <1>5, <3>2, <4>2, <4>3
    <3> QED
      BY <1>4, <3>1, <3>2
  <2>3. DOMAIN L # {}
    BY <1>4
  <2> QED
    BY <1>1, <2>1, <2>2, <2>3 DEF Handshake
<1>7. Endings(J, M, R, K, L, Q)
  <2>1. J = {} => Over(M, R, L)
    <3>1. s.remote_closed <=> Has(M, R, CLOSE)
      BY <1>2 DEF Half
    <3>2. Has(L, DOMAIN L, h.frame)
      BY <1>4 DEF Has
    <3> QED
      BY <3>1, <3>2 DEF Speech, Over
  <2>2. Q \in SUBSET DOMAIN N
    BY DEF Boxed
  <2>3. Over(N, Q, M) => Over(L, Q, M)
    BY <2>2, OverSent
  <2> QED
    BY <1>1, <2>1, <2>3 DEF Endings
<1> QED
  BY <1>3, <1>6, <1>7 DEF Story

\* The invariant's common part, from the other end.
LEMMA MutualTurns ==
  ASSUME NEW H, NEW M, NEW R, NEW K, NEW N, NEW Q
  PROVE  Mutual(H, M, R, K, N, Q) <=> Mutual(K, N, Q, H, M, R)
  BY DEF Mutual

\* The answerer sends, on an established stream or to refuse it.
LEMMA AnswererSays ==
  ASSUME NEW H, NEW M, NEW R, NEW K, NEW N, NEW Q, Boxed(H, M, R), Boxed(K, N, Q),
         Story(H, M, R, K, N, Q), NEW s \in K, NEW J, NEW h, Speech(s, J, h),
         NEW L, NEW n, Adds(L, M, n, h)
  PROVE  Story(H, L, R, J, N, Q)
<1>1. Mutual(H, M, R, K, N, Q) /\ Handshake(H, M, R, K, N, Q) /\ Endings(H, M, R, K, N, Q)
  BY DEF Story
<1>2. Half(K, N, Q, M) /\ Mutual(K, N, Q, H, M, R)
  BY <1>1, MutualTurns DEF Mutual
<1>3. Mutual(H, L, R, J, N, Q)
  <2>1. Follows(M, h)
    BY <1>2, SpeechFollows
  <2>2. Earned(s, h) /\ J \in SUBSET Sessions /\ \A t \in J : Utters(s, t, h)
    BY DEF Speech
  <2>3. Mutual(J, N, Q, H, L, R)
    BY <1>2, <2>1, <2>2, MutualSays
  <2> QED
    BY <2>3, MutualTurns
<1>4. DOMAIN L = DOMAIN M \cup {n} /\ L[n] = h /\ (\A i \in DOMAIN M : L[i] = M[i] /\ i < n)
      /\ n \in Nat /\ DOMAIN M \subseteq Nat
  BY DEF Adds
<1>5. s.role = "Responder" /\ (Established(s) <=> Has(M, DOMAIN M, OPEN_ACK)) /\ Q # {}
  BY <1>1 DEF Handshake
<1>6. R \in SUBSET DOMAIN M
  BY DEF Boxed
<1>7. Handshake(H, L, R, J, N, Q)
  <2>1. ASSUME NEW t \in J
        PROVE  t.role = "Responder" /\ Established(t) /\ Has(L, DOMAIN L, OPEN_ACK)
    <3>1. Established(s)
      BY DEF Speech, Utters
    <3> QED
      BY <1>5, <1>6, <3>1, HasGrows DEF Speech, Utters
  <2>2. ASSUME NEW i \in DOMAIN L
        PROVE  /\ L[i].frame # OPEN
               /\ L[i].frame = RESET \/ \E j \in DOMAIN L : j <= i /\ L[j].frame = OPEN_ACK
    <3>1. CASE i \in DOMAIN M
      BY <1>1, <1>4, <3>1 DEF Handshake
    <3>2. CASE i = n
      <4>1. h.frame # OPEN /\ (h.frame # RESET => Established(s))
        BY DEF Speech, OPEN, DATA, CREDIT, CLOSE, RESET
      <4>2. CASE h.frame # RESET
        <5>1. PICK j \in DOMAIN M : M[j].frame = OPEN_ACK
          BY <1>5, <4>1, <4>2 DEF Has
        <5>2. j \in DOMAIN L /\ j <= n /\ L[j].frame = OPEN_ACK
          BY <1>4, <5>1
        <5> QED
          BY <1>4, <3>2, <4>1, <5>2
      <4> QED
        BY <1>4, <3>2, <4>1, <4>2
    <3> QED
      BY <1>4, <3>1, <3>2
  <2>3. Has(L, R, OPEN_ACK) <=> Has(M, R, OPEN_ACK)
    BY <1>6, HasGrows
  <2> QED
    BY <1>1, <1>5, <2>1, <2>2, <2>3 DEF Handshake
<1>8. Endings(H, L, R, J, N, Q)
  <2>1. J = {} => Over(N, Q, L)
    <3>1. s.remote_closed <=> Has(N, Q, CLOSE)
      BY <1>2 DEF Half
    <3>2. Has(L, DOMAIN L, h.frame)
      BY <1>4 DEF Has
    <3> QED
      BY <3>1, <3>2 DEF Speech, Over
  <2>2. Over(M, R, N) => Over(L, R, N)
    BY <1>6, OverSent
  <2> QED
    BY <1>1, <2>1, <2>2 DEF Endings
<1> QED
  BY <1>3, <1>7, <1>8 DEF Story
\* The reasons to drop a stream stay when a frame is read.
LEMMA OverRead ==
  ASSUME NEW M, NEW R, NEW N, NEW i, Over(M, R, N)
  PROVE  Over(M, R \cup {i}, N)
  BY HasRead DEF Over

\* The opener reads a frame its session takes, or that ends it.
LEMMA OpenerHears ==
  ASSUME NEW H, NEW M, NEW R, NEW K, NEW N, NEW Q, Boxed(H, M, R), Boxed(K, N, Q),
         Story(H, M, R, K, N, Q), NEW i, Next1(M, R, i), NEW s \in H,
         NEW J, Hearing(s, J, M[i])
  PROVE  Story(J, M, R \cup {i}, K, N, Q)
<1>1. Mutual(H, M, R, K, N, Q) /\ Handshake(H, M, R, K, N, Q) /\ Endings(H, M, R, K, N, Q)
  BY DEF Story
<1>2. Half(H, M, R, N)
  BY <1>1 DEF Mutual
<1>3. Mutual(J, M, R \cup {i}, K, N, Q)
  <2>1. J \in SUBSET Sessions /\ \A t \in J : Learns(s, t, M[i])
    BY DEF Hearing
  <2> QED
    BY <1>1, <2>1, MutualReads
<1>4. s.role = "Initiator" /\ DOMAIN N # {}
  BY <1>1 DEF Handshake
<1>5. Has(M, R, OPEN_ACK) => Has(M, R \cup {i}, OPEN_ACK)
  BY HasRead
<1>6. Handshake(J, M, R \cup {i}, K, N, Q)
  <2>1. ASSUME NEW t \in J
        PROVE  t.role = "Initiator" /\ Established(t) /\ Has(M, R \cup {i}, OPEN_ACK)
    <3>1. Learns(s, t, M[i]) /\ t.role = s.role
      BY DEF Hearing
    <3>2. i \in DOMAIN M /\ M[i].frame # RESET
      BY <3>1 DEF Learns, Next1
    <3>3. PICK j \in DOMAIN M : j <= i /\ M[j].frame = OPEN_ACK
      BY <1>1, <3>2 DEF Handshake
    <3>4. j \in R \cup {i}
      <4>1. i \in Nat /\ j \in Nat
        BY <3>2 DEF Boxed
      <4> QED
        BY <3>3, <4>1 DEF Next1
    <3> QED
      BY <1>4, <3>1, <3>3, <3>4 DEF Learns, Has
  <2> QED
    BY <1>1, <1>4, <1>5, <2>1 DEF Handshake
<1>7. Endings(J, M, R \cup {i}, K, N, Q)
  <2>1. J = {} => Over(M, R \cup {i}, N)
    <3>1. s.local_closed <=> Has(N, DOMAIN N, CLOSE)
      BY <1>2 DEF Half
    <3>2. Has(M, DOMAIN M, M[i].frame) /\ Has(M, R \cup {i}, M[i].frame)
      BY DEF Has, Next1
    <3> QED
      BY <3>1, <3>2 DEF Hearing, Over
  <2> QED
    BY <1>1, <2>1 DEF Endings
<1> QED
  BY <1>3, <1>6, <1>7 DEF Story

\* The opener no longer has the stream and ignores a frame of it.
LEMMA OpenerIgnores ==
  ASSUME NEW M, NEW R, NEW K, NEW N, NEW Q, Story({}, M, R, K, N, Q), NEW i
  PROVE  Story({}, M, R \cup {i}, K, N, Q)
<1>1. Mutual({}, M, R, K, N, Q) /\ Handshake({}, M, R, K, N, Q) /\ Endings({}, M, R, K, N, Q)
  BY DEF Story
<1>2. Mutual({}, M, R \cup {i}, K, N, Q)
  BY <1>1, MutualDrops
<1>3. Has(M, R, OPEN_ACK) => Has(M, R \cup {i}, OPEN_ACK)
  BY HasRead
<1>4. Handshake({}, M, R \cup {i}, K, N, Q)
  BY <1>1, <1>3 DEF Handshake
<1>5. Endings({}, M, R \cup {i}, K, N, Q)
  BY <1>1, OverRead DEF Endings
<1> QED
  BY <1>2, <1>4, <1>5 DEF Story

\* The answerer reads a frame its session takes, or that ends it.
LEMMA AnswererHears ==
  ASSUME NEW H, NEW M, NEW R, NEW K, NEW N, NEW Q, Boxed(H, M, R), Boxed(K, N, Q),
         Story(H, M, R, K, N, Q), NEW i, Next1(N, Q, i), NEW s \in K,
         NEW J, Hearing(s, J, N[i])
  PROVE  Story(H, M, R, J, N, Q \cup {i})
<1>1. Mutual(H, M, R, K, N, Q) /\ Handshake(H, M, R, K, N, Q) /\ Endings(H, M, R, K, N, Q)
  BY DEF Story
<1>2. Half(K, N, Q, M) /\ Mutual(K, N, Q, H, M, R)
  BY <1>1, MutualTurns DEF Mutual
<1>3. Mutual(H, M, R, J, N, Q \cup {i})
  <2>1. J \in SUBSET Sessions /\ \A t \in J : Learns(s, t, N[i])
    BY DEF Hearing
  <2>2. Mutual(J, N, Q \cup {i}, H, M, R)
    BY <1>2, <2>1, MutualReads
  <2> QED
    BY <2>2, MutualTurns
<1>4. s.role = "Responder" /\ Q # {}
  BY <1>1 DEF Handshake
<1>5. Handshake(H, M, R, J, N, Q \cup {i})
  <2>1. ASSUME NEW t \in J
        PROVE  t.role = "Responder" /\ Established(t) /\ Has(M, DOMAIN M, OPEN_ACK)
    <3>1. Learns(s, t, N[i]) /\ t.role = s.role
      BY DEF Hearing
    <3>2. i \in DOMAIN N /\ N[i].frame \in {DATA, CREDIT, CLOSE}
      BY <1>1, <3>1 DEF Learns, Next1, Hearing, Handshake
    <3>3. Has(M, R, OPEN_ACK) /\ R \subseteq DOMAIN M
      BY <1>1, <3>2 DEF Handshake, Boxed
    <3> QED
      BY <1>4, <3>1, <3>3 DEF Learns, Has
  <2> QED
    BY <1>1, <1>4, <2>1 DEF Handshake
<1>6. Endings(H, M, R, J, N, Q \cup {i})
  <2>1. J = {} => Over(N, Q \cup {i}, M)
    <3>1. s.local_closed <=> Has(M, DOMAIN M, CLOSE)
      BY <1>2 DEF Half
    <3>2. Has(N, DOMAIN N, N[i].frame) /\ Has(N, Q \cup {i}, N[i].frame)
      BY DEF Has, Next1
    <3> QED
      BY <3>1, <3>2 DEF Hearing, Over
  <2> QED
    BY <1>1, <2>1 DEF Endings
<1> QED
  BY <1>3, <1>5, <1>6 DEF Story

\* The answerer no longer has the stream and ignores a frame of it.
LEMMA AnswererIgnores ==
  ASSUME NEW H, NEW M, NEW R, NEW N, NEW Q, Boxed({}, N, Q), Story(H, M, R, {}, N, Q),
         NEW i, Next1(N, Q, i), N[i].frame # OPEN
  PROVE  Story(H, M, R, {}, N, Q \cup {i})
<1>1. Mutual(H, M, R, {}, N, Q) /\ Handshake(H, M, R, {}, N, Q) /\ Endings(H, M, R, {}, N, Q)
  BY DEF Story
<1>2. Mutual(H, M, R, {}, N, Q \cup {i})
  BY <1>1, MutualTurns, MutualDrops
<1>3. Q # {}
  <2>1. i \in DOMAIN N
    BY DEF Next1
  <2>2. PICK j \in DOMAIN N : j <= i /\ N[j].frame = OPEN
    BY <1>1, <2>1 DEF Handshake
  <2>3. i \in Nat /\ j \in Nat
    BY <2>1 DEF Boxed
  <2> QED
    BY <2>2, <2>3 DEF Next1
<1>4. Handshake(H, M, R, {}, N, Q \cup {i})
  BY <1>1 DEF Handshake
<1>5. Endings(H, M, R, {}, N, Q \cup {i})
  BY <1>1, <1>3, OverRead DEF Endings
<1> QED
  BY <1>2, <1>4, <1>5 DEF Story

\* Before the stream was answered there is no chunk and no credit on it.
LEMMA Unanswered ==
  ASSUME NEW H, NEW M, NEW R, NEW K, NEW N, NEW Q, Boxed(H, M, R), Boxed(K, N, Q),
         Story(H, M, R, K, N, Q), DOMAIN M = {}
  PROVE  /\ R = {} /\ Due(M, R) = 0 /\ \A P : Due(N, P) = 0
         /\ \A i \in DOMAIN N : N[i].frame \notin {OPEN_ACK, DATA, CREDIT, CLOSE}
         /\ \A s \in H : /\ ~Established(s) /\ s.send_credit = 0
                         /\ s.send_seq = 0 /\ s.recv_seq = 0
<1>1. Mutual(H, M, R, K, N, Q) /\ Handshake(H, M, R, K, N, Q) /\ Half(H, M, R, N)
  BY DEF Story, Mutual
<1>2. R = {} /\ ~Has(M, R, OPEN_ACK)
  BY DEF Boxed, Has
<1>3. \A i \in DOMAIN N : N[i].frame \notin {OPEN_ACK, DATA, CREDIT, CLOSE}
  BY <1>1, <1>2 DEF Handshake
<1>4. Due(M, R) = 0
  <2>1. Units(M, DOMAIN M \ R) = {}
    BY DEF Units
  <2> QED
    BY <2>1, FS_EmptySet DEF Due
<1>5. ASSUME NEW P PROVE Due(N, P) = 0
  <2>1. Units(N, DOMAIN N \ P) = {}
    BY <1>3 DEF Units
  <2> QED
    BY <2>1, FS_EmptySet DEF Due
<1>6. ASSUME NEW s \in H
      PROVE  ~Established(s) /\ s.send_credit = 0 /\ s.send_seq = 0 /\ s.recv_seq = 0
  <2>1. ~Established(s) /\ s.send_credit = 0
    BY <1>1, <1>2 DEF Handshake
  <2>2. s.send_seq \in Nat /\ s.recv_seq \in Nat
    BY SessionNumbers DEF Boxed
  <2>3. Covers(N, DOMAIN N, s.send_seq) /\ Covers(M, R, s.recv_seq)
    BY <1>1 DEF Half
  <2>4. ~(0 < s.send_seq)
    BY <1>3, <2>2, <2>3 DEF Covers
  <2>5. ~(0 < s.recv_seq)
    BY <1>2, <2>2, <2>3 DEF Covers
  <2> QED
    BY <2>1, <2>2, <2>4, <2>5
<1> QED
  BY <1>2, <1>3, <1>4, <1>5, <1>6

\* The OPEN is the first frame the answerer reads.
LEMMA OpenFirst ==
  ASSUME NEW H, NEW M, NEW R, NEW K, NEW N, NEW Q, Boxed(H, M, R), Boxed(K, N, Q),
         Story(H, M, R, K, N, Q), NEW i, Next1(N, Q, i), N[i].frame = OPEN
  PROVE  Q = {} /\ K = {} /\ DOMAIN M = {}
<1>1. Ordered(N) /\ Handshake(H, M, R, K, N, Q)
  BY DEF Story, Mutual, Half
<1>2. ASSUME NEW j \in Q PROVE FALSE
  <2>1. i \in DOMAIN N /\ j \in DOMAIN N /\ i \in Nat /\ j \in Nat /\ i \notin Q
    BY DEF Boxed, Next1
  <2>2. j < i
    BY <2>1 DEF Boxed
  <2> QED
    BY <1>1, <2>1, <2>2 DEF Ordered
<1>3. Q = {}
  BY <1>2
<1> QED
  BY <1>1, <1>3 DEF Handshake

\* The session of a stream the peer opened.
LEMMA ResponderFields ==
  ASSUME NEW w
  PROVE  /\ responder(w).role = "Responder" /\ ~Established(responder(w))
         /\ responder(w).send_seq = 0 /\ responder(w).recv_seq = 0
         /\ responder(w).send_credit = w /\ responder(w).recv_window_remaining = 0
         /\ responder(w).local_closed = FALSE /\ responder(w).remote_closed = FALSE
         /\ responder(w).reset = FALSE /\ ~is_closed(responder(w))
  BY DEF responder, NewSession, Established, is_closed

\* The session of a stream the end opens.
LEMMA InitiatorFields ==
  ASSUME NEW w
  PROVE  /\ initiator(w).role = "Initiator" /\ ~Established(initiator(w))
         /\ initiator(w).send_seq = 0 /\ initiator(w).recv_seq = 0
         /\ initiator(w).send_credit = 0 /\ initiator(w).recv_window_remaining = w
         /\ initiator(w).local_closed = FALSE /\ initiator(w).remote_closed = FALSE
         /\ initiator(w).reset = FALSE /\ ~is_closed(initiator(w))
  BY DEF initiator, NewSession, Established, is_closed

\* The answerer reads the OPEN and takes it.
LEMMA AnswererOpens ==
  ASSUME NEW H, NEW M, NEW R, NEW K, NEW N, NEW Q, Boxed(H, M, R), Boxed(K, N, Q),
         Story(H, M, R, K, N, Q), NEW i, Next1(N, Q, i), N[i].frame = OPEN
  PROVE  Story(H, M, R, {responder(N[i].window)}, N, Q \cup {i})
<1> DEFINE t == responder(N[i].window)
<1>1. Q = {} /\ K = {} /\ DOMAIN M = {}
  BY OpenFirst
<1>2. Mutual(H, M, R, K, N, Q) /\ Handshake(H, M, R, K, N, Q) /\ Endings(H, M, R, K, N, Q)
      /\ Half(H, M, R, N) /\ Half(K, N, Q, M)
  BY DEF Story, Mutual
<1>3. /\ R = {} /\ Due(M, R) = 0 /\ Due(N, {i}) = 0
      /\ \A j \in DOMAIN N : N[j].frame \notin {OPEN_ACK, DATA, CREDIT, CLOSE}
      /\ \A s \in H : /\ ~Established(s) /\ s.send_credit = 0
                      /\ s.send_seq = 0 /\ s.recv_seq = 0
  BY <1>1, Unanswered
<1>4. i \in DOMAIN N /\ N[i].window \in Nat
  BY MachineAssumption DEF Next1, Boxed, Headers, U32, U64
<1>5. /\ t.role = "Responder" /\ ~Established(t) /\ t.send_seq = 0 /\ t.recv_seq = 0
      /\ t.send_credit = N[i].window /\ t.recv_window_remaining = 0
      /\ t.local_closed = FALSE /\ t.remote_closed = FALSE /\ ~is_closed(t)
  BY ResponderFields
<1> HIDE DEF t
<1>6. Half({t}, N, {i}, M)
  <2>1. ~Has(M, DOMAIN M, RESET) /\ ~Has(M, DOMAIN M, CLOSE) /\ ~Has(N, {i}, CLOSE)
        /\ ~Has(N, {i}, RESET)
    BY <1>1 DEF Has, OPEN, CLOSE, RESET
  <2>2. Covers(M, DOMAIN M, t.send_seq) /\ Covers(N, {i}, t.recv_seq)
    BY <1>1, <1>3, <1>4, <1>5 DEF Covers
  <2> QED
    BY <1>1, <1>2, <1>5, <2>1, <2>2 DEF Half
<1>7. Balance({t}, N, H, M, R)
  <2>1. \A j \in DOMAIN N : N[j].frame # DATA
    BY <1>3
  <2>2. ASSUME NEW s \in H PROVE Permitted(s) + Due(M, R) = Permits(t)
    BY <1>3, <1>5 DEF Permits, Permitted
  <2> QED
    BY <2>1, <2>2 DEF Balance
<1>8. Balance(H, M, {t}, N, {i})
  <2>1. ASSUME NEW s \in H PROVE Permitted(t) + Due(N, {i}) = Permits(s)
    <3>1. N[i].window = s.recv_window_remaining
      BY <1>2, <1>3, <1>4 DEF Handshake
    <3> QED
      BY <1>3, <1>4, <1>5, <3>1 DEF Permits, Permitted
  <2> QED
    BY <1>1, <2>1 DEF Balance
<1>9. Mutual(H, M, R, {t}, N, {i})
  BY <1>2, <1>6, <1>7, <1>8 DEF Mutual
<1>10. Handshake(H, M, R, {t}, N, {i})
  <2>1. ~Has(M, DOMAIN M, OPEN_ACK)
    BY <1>1 DEF Has
  <2> QED
    BY <1>2, <1>5, <2>1 DEF Handshake
<1>11. Endings(H, M, R, {t}, N, {i})
  BY <1>2 DEF Endings
<1>12. Q \cup {i} = {i}
  BY <1>1
<1> QED
  BY <1>9, <1>10, <1>11, <1>12 DEF Story, t

\* The answerer reads the OPEN and refuses it.
LEMMA AnswererRefuses ==
  ASSUME NEW H, NEW M, NEW R, NEW K, NEW N, NEW Q, Boxed(H, M, R), Boxed(K, N, Q),
         Story(H, M, R, K, N, Q), NEW i, Next1(N, Q, i), N[i].frame = OPEN,
         NEW L, NEW n, NEW h, Adds(L, M, n, h), h.frame = RESET
  PROVE  Story(H, L, R, {}, N, Q \cup {i})
<1>1. Q = {} /\ K = {} /\ DOMAIN M = {}
  BY OpenFirst
<1>2. Mutual(H, M, R, K, N, Q) /\ Handshake(H, M, R, K, N, Q) /\ Endings(H, M, R, K, N, Q)
      /\ Half(H, M, R, N) /\ Half(K, N, Q, M)
  BY DEF Story, Mutual
<1>3. R \in SUBSET DOMAIN M /\ DOMAIN L = {n} /\ L[n] = h
  BY <1>1 DEF Boxed, Adds
<1>4. Half(H, L, R, N)
  <2>1. Follows(M, h)
    BY <1>1 DEF Follows, Has, OPEN, CLOSE_ACK, RESET, DATA, CLOSE
  <2> QED
    BY <1>2, <2>1, HalfHears
<1>5. Half({}, N, Q \cup {i}, L)
  BY <1>2 DEF Half
<1>6. Balance(H, L, {}, N, Q \cup {i}) /\ Balance({}, N, H, L, R)
  BY <1>3 DEF Balance, DATA, RESET
<1>7. Handshake(H, L, R, {}, N, Q \cup {i})
  <2>1. Has(L, R, OPEN_ACK) <=> Has(M, R, OPEN_ACK)
    BY <1>3, HasGrows
  <2>2. h.frame # OPEN
    BY DEF OPEN, RESET
  <2> QED
    BY <1>2, <1>3, <2>1, <2>2 DEF Handshake
<1>8. Endings(H, L, R, {}, N, Q \cup {i})
  <2>1. Over(N, Q \cup {i}, L)
    BY <1>3 DEF Over, Has
  <2>2. Over(M, R, N) => Over(L, R, N)
    BY <1>3, OverSent
  <2> QED
    BY <1>2, <2>1, <2>2 DEF Endings
<1> QED
  BY <1>4, <1>5, <1>6, <1>7, <1>8 DEF Story, Mutual

\* The opener opens the stream.
LEMMA OpenerOpens ==
  ASSUME NEW H, NEW M, NEW R, NEW K, NEW N, NEW Q, Boxed(H, M, R), Boxed(K, N, Q),
         Story(H, M, R, K, N, Q), DOMAIN N = {}, NEW w \in U32,
         NEW L, NEW n, NEW h, Adds(L, N, n, h), h.frame = OPEN, h.window = w
  PROVE  Story({initiator(w)}, M, R, K, L, Q)
<1> DEFINE s == initiator(w)
<1>1. Mutual(H, M, R, K, N, Q) /\ Handshake(H, M, R, K, N, Q) /\ Endings(H, M, R, K, N, Q)
      /\ Half(H, M, R, N) /\ Half(K, N, Q, M)
  BY DEF Story, Mutual
<1>2. Q = {} /\ K = {} /\ DOMAIN M = {} /\ R = {}
  <2>1. Q = {}
    BY DEF Boxed
  <2>2. K = {} /\ DOMAIN M = {}
    BY <1>1, <2>1 DEF Handshake
  <2> QED
    BY <2>1, <2>2 DEF Boxed
<1>3. DOMAIN L = {n} /\ L[n] = h /\ n \in Nat
  BY DEF Adds
<1>4. /\ s.role = "Initiator" /\ ~Established(s) /\ s.send_seq = 0 /\ s.recv_seq = 0
      /\ s.send_credit = 0 /\ s.recv_window_remaining = w
      /\ s.local_closed = FALSE /\ s.remote_closed = FALSE /\ ~is_closed(s)
  BY InitiatorFields
<1> HIDE DEF s
<1>5. \A f : ~Has(M, DOMAIN M, f) /\ ~Has(M, R, f)
  BY <1>2 DEF Has
<1>6. Half({s}, M, R, L)
  <2>1. ~Has(L, DOMAIN L, RESET) /\ ~Has(L, DOMAIN L, CLOSE)
    BY <1>3 DEF Has, OPEN, CLOSE, RESET
  <2>2. Covers(L, DOMAIN L, 0) /\ Covers(M, R, 0)
    BY <1>2, <1>3 DEF Covers, OPEN, DATA
  <2>3. \A i \in DOMAIN L : L[i].frame = OPEN
    BY <1>3
  <2> QED
    BY <1>1, <1>4, <1>5, <2>1, <2>2, <2>3 DEF Half
<1>7. Half(K, L, Q, M)
  <2>1. Follows(N, h)
    BY DEF Follows, Has, OPEN, CLOSE_ACK, RESET, DATA, CLOSE
  <2> QED
    BY <1>1, <2>1, HalfHears
<1>8. Balance({s}, M, K, L, Q) /\ Balance(K, L, {s}, M, R)
  BY <1>2 DEF Balance
<1>9. Handshake({s}, M, R, K, L, Q)
  <2>1. \A i \in DOMAIN L : L[i].frame = OPEN /\ L[i].window = s.recv_window_remaining /\ i <= i
    BY <1>3, <1>4
  <2>2. OPEN \notin {OPEN_ACK, DATA, CREDIT, CLOSE}
    BY DEF OPEN, OPEN_ACK, DATA, CREDIT, CLOSE
  <2> QED
    BY <1>2, <1>3, <1>4, <1>5, <2>1, <2>2 DEF Handshake
<1>10. Endings({s}, M, R, K, L, Q)
  BY <1>2 DEF Endings
<1> QED
  BY <1>6, <1>7, <1>8, <1>9, <1>10 DEF Story, Mutual, s

\* The answerer acknowledges the stream.
LEMMA AnswererAcks ==
  ASSUME NEW H, NEW M, NEW R, NEW K, NEW N, NEW Q, Boxed(H, M, R), Boxed(K, N, Q),
         Story(H, M, R, K, N, Q), NEW s \in K, ~Established(s), NEW w \in U32,
         build_open_ack(s, w) \in Sessions,
         NEW L, NEW n, NEW h, Adds(L, M, n, h), h.frame = OPEN_ACK, h.window = w
  PROVE  Story(H, L, R, {build_open_ack(s, w)}, N, Q)
<1> DEFINE t == build_open_ack(s, w)
<1>1. Mutual(H, M, R, K, N, Q) /\ Handshake(H, M, R, K, N, Q) /\ Endings(H, M, R, K, N, Q)
      /\ Half(K, N, Q, M) /\ Mutual(K, N, Q, H, M, R)
  BY MutualTurns DEF Story, Mutual
<1>2. DOMAIN M = {} /\ Q # {} /\ s.role = "Responder" /\ s.recv_window_remaining = 0
  BY <1>1 DEF Half, Handshake
<1>3. R = {} /\ DOMAIN L = {n} /\ L[n] = h /\ n \in Nat
  BY <1>2 DEF Boxed, Adds
<1>4. s \in Sessions /\ s.recv_seq \in Nat /\ w \in Nat /\ ~is_closed(s)
  BY <1>1, SessionNumbers, MachineAssumption DEF Boxed, U32, U64, Half
<1>5. /\ t.role = s.role /\ t.handshake = "Established" /\ t.send_seq = s.send_seq
      /\ t.recv_seq = s.recv_seq /\ t.send_credit = s.send_credit
      /\ t.recv_window_remaining = w
      /\ t.local_closed = s.local_closed /\ t.remote_closed = s.remote_closed
      /\ t.reset = s.reset
  BY <1>4 DEF build_open_ack, Sessions
<1>6. Established(t) /\ ~is_closed(t) /\ t \in Sessions
  BY <1>4, <1>5 DEF Established, is_closed
<1> HIDE DEF t
<1>7. Utters(s, t, h)
  <2>1. Granted(h) = w
    BY DEF Granted
  <2>2. Permits(t) = Permits(s) + w /\ Permitted(t) = Permitted(s)
    BY <1>2, <1>4, <1>5 DEF Permits, Permitted
  <2> QED
    BY <1>5, <1>6, <2>1, <2>2 DEF Utters, OPEN_ACK, DATA, CLOSE, RESET
<1>8. Mutual(H, L, R, {t}, N, Q)
  <2>1. Follows(M, h)
    BY <1>2 DEF Follows, Has, OPEN_ACK, CLOSE_ACK, RESET, DATA, CLOSE
  <2>2. Earned(s, h)
    BY DEF Earned, OPEN_ACK, DATA
  <2>3. {t} \in SUBSET Sessions /\ \A u \in {t} : Utters(s, u, h)
    BY <1>6, <1>7
  <2>4. Mutual({t}, N, Q, H, L, R)
    BY <1>1, <2>1, <2>2, <2>3, MutualSays
  <2> QED
    BY <2>4, MutualTurns
<1>9. Handshake(H, L, R, {t}, N, Q)
  <2>1. (\A f : ~Has(L, R, f) /\ ~Has(M, R, f)) /\ Has(L, DOMAIN L, OPEN_ACK)
    BY <1>3 DEF Has
  <2>2. \A i \in DOMAIN L : L[i].frame = OPEN_ACK /\ i <= i
    BY <1>3
  <2>3. OPEN_ACK # OPEN
    BY DEF OPEN, OPEN_ACK
  <2> QED
    BY <1>1, <1>2, <1>5, <1>6, <2>1, <2>2, <2>3 DEF Handshake
<1>10. Endings(H, L, R, {t}, N, Q)
  <2>1. R \in SUBSET DOMAIN M
    BY DEF Boxed
  <2>2. Over(M, R, N) => Over(L, R, N)
    BY <2>1, OverSent
  <2> QED
    BY <1>1, <2>2 DEF Endings
<1> QED
  BY <1>8, <1>9, <1>10 DEF Story, t

-----------------------------------------------------------------------------
(***************************************************************************)
(* What follows: no frame is illegal, the ends agree, credit is conserved. *)
(***************************************************************************)

\* A frame that ends a session or that it takes.
Welcome(s, h) ==
  \/ h.frame = RESET
  \/ /\ h.frame \in {OPEN_ACK, DATA, CREDIT, CLOSE} /\ Legal(s, h)
     /\ h.frame = OPEN_ACK => s.send_credit = 0

\* What was read comes before the next frame.
LEMMA ReadBefore ==
  ASSUME NEW H, NEW M, NEW R, Boxed(H, M, R), NEW i, Next1(M, R, i), NEW j \in R
  PROVE  i \in DOMAIN M /\ j \in DOMAIN M /\ j < i
<1>1. i \in DOMAIN M /\ j \in DOMAIN M /\ i \in Nat /\ j \in Nat /\ i \notin R
  BY DEF Boxed, Next1
<1> QED
  BY <1>1 DEF Boxed

\* An established session takes the next frame of its peer.
LEMMA EstablishedTakes ==
  ASSUME NEW H, NEW M, NEW R, NEW K, NEW N, NEW Q, Boxed(H, M, R), Half(H, M, R, N),
         Balance(H, M, K, N, Q), NEW i, Next1(M, R, i), NEW s \in H, Established(s),
         M[i].frame \in {DATA, CREDIT, CLOSE}
  PROVE  Welcome(s, M[i])
<1>1. s \in Sessions /\ ~is_closed(s) /\ i \in DOMAIN M /\ Ordered(M)
  BY DEF Boxed, Half, Next1
<1>2. ~s.reset
  BY <1>1 DEF is_closed
<1>3. M[i].frame \in {DATA, CLOSE} => ~s.remote_closed
  <2> SUFFICES ASSUME M[i].frame \in {DATA, CLOSE}, s.remote_closed PROVE FALSE
    OBVIOUS
  <2>1. PICK j \in R : M[j].frame = CLOSE
    BY DEF Half, Has
  <2>2. j \in DOMAIN M /\ j < i
    BY ReadBefore
  <2> QED
    BY <1>1, <2>1, <2>2 DEF Ordered
<1>4. ASSUME M[i].frame = DATA
      PROVE  M[i].seq = s.recv_seq /\ s.recv_window_remaining > 0
  <2>1. s.recv_seq \in Nat /\ s.recv_window_remaining \in Nat /\ Covers(M, R, s.recv_seq)
    BY <1>1, SessionNumbers DEF Half
  <2>2. PICK n \in Nat : Covers(M, DOMAIN M, n)
    BY DEF Half
  <2>3. M[i].seq = s.recv_seq /\ Covers(M, R \cup {i}, s.recv_seq + 1)
    <3>1. Ordered(M) /\ s.recv_seq \in Nat /\ Covers(M, R, s.recv_seq) /\ M[i].frame = DATA
      BY <1>1, <1>4, <2>1
    <3> QED
      BY <2>2, <3>1, NextChunk
  <2>4. M[i].seq < U64_MAX /\ U64_MAX \in Nat
    BY <1>1, MachineAssumption DEF Boxed
  <2>5. Permits(s) >= U64_MAX \/ M[i].seq < Permits(s)
    BY <1>1, <1>4 DEF Balance
  <2> QED
    BY <2>1, <2>3, <2>4, <2>5 DEF Permits
<1> USE DEF OPEN, OPEN_ACK, DATA, CREDIT, CLOSE, CLOSE_ACK, RESET
<1>5. Legal(s, M[i])
  <2>1. CASE M[i].frame = DATA
    BY <1>2, <1>3, <1>4, <2>1 DEF Legal, NextInOrder
  <2>2. CASE M[i].frame = CREDIT
    BY <1>2, <2>2 DEF Legal
  <2>3. CASE M[i].frame = CLOSE
    BY <1>2, <1>3, <2>3 DEF Legal
  <2> QED
    BY <2>1, <2>2, <2>3
<1> QED
  BY <1>5 DEF Welcome

\* The kinds of frame.
LEMMA FrameKinds ==
  ASSUME NEW h \in Headers
  PROVE  h.frame \in {OPEN, OPEN_ACK, DATA, CREDIT, CLOSE, CLOSE_ACK, RESET}
  BY DEF Headers, KnownFrames, OPEN, OPEN_ACK, DATA, CREDIT, CLOSE, CLOSE_ACK, RESET

\* The opener's session takes the next frame.
LEMMA OpenerTakes ==
  ASSUME NEW H, NEW M, NEW R, NEW K, NEW N, NEW Q, Boxed(H, M, R), Boxed(K, N, Q),
         Story(H, M, R, K, N, Q), NEW i, Next1(M, R, i), NEW s \in H
  PROVE  Welcome(s, M[i])
<1>1. Handshake(H, M, R, K, N, Q) /\ Half(H, M, R, N) /\ Balance(H, M, K, N, Q) /\ Ordered(M)
  BY DEF Story, Mutual, Half
<1>2. i \in DOMAIN M /\ M[i] \in Headers /\ i \in Nat
  BY DEF Next1, Boxed
<1>3. M[i].frame \in {OPEN_ACK, DATA, CREDIT, CLOSE, RESET}
  <2>1. M[i].frame # OPEN /\ M[i].frame # CLOSE_ACK
    BY <1>1, <1>2 DEF Handshake, Half, Has
  <2> QED
    BY <1>2, <2>1, FrameKinds
<1>4. CASE M[i].frame = OPEN_ACK
  <2>1. ~Has(M, R, OPEN_ACK)
    <3> SUFFICES ASSUME NEW j \in R, M[j].frame = OPEN_ACK PROVE FALSE
      BY DEF Has
    <3>1. j \in DOMAIN M /\ j < i
      BY ReadBefore
    <3> QED
      BY <1>1, <1>2, <1>4, <3>1 DEF Ordered
  <2>2. s.role = "Initiator" /\ ~Established(s) /\ s.send_credit = 0 /\ ~is_closed(s)
    BY <1>1, <2>1 DEF Handshake, Half
  <2>3. Legal(s, M[i])
    BY <1>4, <2>2 DEF Legal, is_closed, OPEN, OPEN_ACK, DATA, CREDIT, CLOSE, CLOSE_ACK, RESET
  <2> QED
    BY <1>4, <2>2, <2>3 DEF Welcome
<1>5. CASE M[i].frame \in {DATA, CREDIT, CLOSE}
  <2>1. PICK j \in DOMAIN M : j <= i /\ M[j].frame = OPEN_ACK
    BY <1>1, <1>2, <1>5 DEF Handshake, DATA, CREDIT, CLOSE, RESET
  <2>2. j \in Nat /\ j # i
    BY <1>5, <2>1 DEF Boxed, DATA, CREDIT, CLOSE, OPEN_ACK
  <2>3. j \in R
    BY <1>2, <2>1, <2>2 DEF Next1
  <2>4. Established(s)
    BY <1>1, <2>1, <2>3 DEF Handshake, Has
  <2> QED
    BY <1>1, <1>5, <2>4, EstablishedTakes
<1>6. CASE M[i].frame = RESET
  BY <1>6 DEF Welcome
<1> QED
  BY <1>3, <1>4, <1>5, <1>6

\* The answerer's session takes the next frame.
LEMMA AnswererTakes ==
  ASSUME NEW H, NEW M, NEW R, NEW K, NEW N, NEW Q, Boxed(H, M, R), Boxed(K, N, Q),
         Story(H, M, R, K, N, Q), NEW i, Next1(N, Q, i), NEW s \in K
  PROVE  Welcome(s, N[i])
<1>1. Handshake(H, M, R, K, N, Q) /\ Half(K, N, Q, M) /\ Balance(K, N, H, M, R)
  BY DEF Story, Mutual
<1>2. i \in DOMAIN N /\ N[i] \in Headers
  BY DEF Next1, Boxed
<1>3. N[i].frame \in {DATA, CREDIT, CLOSE, RESET}
  <2>1. N[i].frame # OPEN_ACK /\ N[i].frame # CLOSE_ACK
    BY <1>1, <1>2 DEF Handshake, Half, Has
  <2>2. N[i].frame # OPEN
    BY OpenFirst
  <2> QED
    BY <1>2, <2>1, <2>2, FrameKinds
<1>4. CASE N[i].frame \in {DATA, CREDIT, CLOSE}
  <2>1. Has(M, R, OPEN_ACK) /\ R \subseteq DOMAIN M
    BY <1>1, <1>2, <1>4 DEF Handshake, Boxed
  <2>2. Established(s)
    BY <1>1, <2>1 DEF Handshake, Has
  <2> QED
    BY <1>1, <1>4, <2>2, EstablishedTakes
<1>5. CASE N[i].frame = RESET
  BY <1>5 DEF Welcome
<1> QED
  BY <1>3, <1>4, <1>5

\* The chunks are numbered in one way only.
LEMMA CoversOnce ==
  ASSUME NEW M, NEW S, NEW m \in Nat, NEW n \in Nat, Covers(M, S, m), Covers(M, S, n)
  PROVE  m = n
<1>1. ~(m < n)
  BY DEF Covers
<1>2. ~(n < m)
  BY DEF Covers
<1> QED
  BY <1>1, <1>2

\* An end that holds the stream and has read everything has no reason to have dropped it.
LEMMA NotOver ==
  ASSUME NEW H, NEW M, NEW R, NEW N, Half(H, M, R, N), R = DOMAIN M, NEW s \in H
  PROVE  ~Over(N, DOMAIN N, M) /\ ~Over(M, R, N)
<1>1. /\ ~Has(N, DOMAIN N, RESET) /\ ~Has(M, R, RESET) /\ ~is_closed(s)
      /\ s.local_closed <=> Has(N, DOMAIN N, CLOSE)
      /\ s.remote_closed <=> Has(M, R, CLOSE)
  BY DEF Half
<1> QED
  BY <1>1 DEF Over, is_closed

\* When everything was read, both ends hold the stream or neither, and they agree on it.
LEMMA QuietAgree ==
  ASSUME NEW H, NEW M, NEW R, NEW K, NEW N, NEW Q, Boxed(H, M, R), Boxed(K, N, Q),
         Story(H, M, R, K, N, Q), R = DOMAIN M, Q = DOMAIN N
  PROVE  /\ H = {} <=> K = {}
         /\ \A s \in H, t \in K :
              Sending(s) = Receiving(t) /\ Sending(t) = Receiving(s)
<1>1. Handshake(H, M, R, K, N, Q) /\ Endings(H, M, R, K, N, Q)
      /\ Half(H, M, R, N) /\ Half(K, N, Q, M)
  BY DEF Story, Mutual
<1>2. ASSUME NEW t \in K, H = {} PROVE FALSE
  <2>1. Over(M, R, N)
    BY <1>1, <1>2 DEF Handshake, Endings
  <2>2. ~Over(M, DOMAIN M, N)
    BY <1>1, NotOver
  <2> QED
    BY <2>1, <2>2
<1>3. ASSUME NEW s \in H, K = {} PROVE FALSE
  <2>1. Over(N, Q, M)
    BY <1>1, <1>3 DEF Handshake, Endings
  <2>2. ~Over(N, DOMAIN N, M)
    BY <1>1, NotOver
  <2> QED
    BY <2>1, <2>2
<1>4. ASSUME NEW s \in H, NEW t \in K
      PROVE  Sending(s) = Receiving(t) /\ Sending(t) = Receiving(s)
  <2>1. s \in Sessions /\ t \in Sessions
    BY DEF Boxed
  <2>2. s.handshake = t.handshake
    <3>1. Established(s) <=> Established(t)
      BY <1>1 DEF Handshake
    <3>2. s.handshake \in {"Opening", "Established"} /\ t.handshake \in {"Opening", "Established"}
      BY <2>1 DEF Sessions
    <3> QED
      BY <3>1, <3>2 DEF Established
  <2>3. s.send_seq = t.recv_seq /\ t.send_seq = s.recv_seq
    <3>1. s.send_seq \in Nat /\ t.recv_seq \in Nat /\ t.send_seq \in Nat /\ s.recv_seq \in Nat
      BY <2>1, SessionNumbers
    <3>2. Covers(N, DOMAIN N, s.send_seq) /\ Covers(N, DOMAIN N, t.recv_seq)
          /\ Covers(M, DOMAIN M, t.send_seq) /\ Covers(M, DOMAIN M, s.recv_seq)
      BY <1>1 DEF Half
    <3> QED
      BY <3>1, <3>2, CoversOnce
  <2>4. s.local_closed = t.remote_closed /\ t.local_closed = s.remote_closed
    <3>1. /\ s.local_closed \in BOOLEAN /\ s.remote_closed \in BOOLEAN
          /\ t.local_closed \in BOOLEAN /\ t.remote_closed \in BOOLEAN
      BY <2>1, SessionNumbers
    <3>2. /\ s.local_closed <=> t.remote_closed
          /\ t.local_closed <=> s.remote_closed
      BY <1>1 DEF Half
    <3> QED
      BY <3>1, <3>2
  <2> QED
    BY <2>2, <2>3, <2>4 DEF Sending, Receiving
<1> QED
  BY <1>2, <1>3, <1>4

\* The chunks on their way are those sent and not yet received.
LEMMA ChunksBetween ==
  ASSUME NEW H, NEW M, NEW R, Boxed(H, M, R), Ordered(M), NEW m \in Nat, NEW n \in Nat,
         Covers(M, R, m), Covers(M, DOMAIN M, n)
  PROVE  m <= n /\ Cardinality({i \in DOMAIN M \ R : M[i].frame = DATA}) = n - m
<1> DEFINE D == {i \in DOMAIN M \ R : M[i].frame = DATA}
           T == m .. (n - 1)
           g == [i \in D |-> M[i].seq]
<1>1. \A i \in DOMAIN M : i \in Nat /\ M[i].seq \in Nat
  BY DEF Boxed, Headers, U64
<1>2. R \subseteq DOMAIN M
  BY DEF Boxed
<1>3. m <= n
  <2> SUFFICES ASSUME n < m PROVE FALSE
    OBVIOUS
  <2>1. PICK i \in R : M[i].frame = DATA /\ M[i].seq = n
    BY DEF Covers
  <2> QED
    BY <1>2, <2>1 DEF Covers
<1>4. ASSUME NEW i \in DOMAIN M, NEW j \in DOMAIN M, M[i].frame = DATA, M[j].frame = DATA,
             M[i].seq = M[j].seq
      PROVE  i = j
  <2>1. ~(i < j) /\ ~(j < i)
    BY <1>1, <1>4 DEF Ordered
  <2> QED
    BY <1>1, <2>1
<1>5. ASSUME NEW i \in D PROVE M[i].seq \in T
  <2>1. i \in DOMAIN M /\ i \notin R /\ M[i].frame = DATA /\ M[i].seq \in Nat
    BY <1>1
  <2>2. M[i].seq < n
    BY <2>1 DEF Covers
  <2>3. ~(M[i].seq < m)
    <3> SUFFICES ASSUME M[i].seq < m PROVE FALSE
      OBVIOUS
    <3>1. PICK j \in R : M[j].frame = DATA /\ M[j].seq = M[i].seq
      BY <2>1 DEF Covers
    <3> QED
      BY <1>2, <1>4, <2>1, <3>1
  <2> QED
    BY <2>1, <2>2, <2>3
<1>6. ASSUME NEW k \in T PROVE \E i \in D : M[i].seq = k
  <2>1. k \in Nat /\ k < n /\ ~(k < m)
    OBVIOUS
  <2>2. PICK i \in DOMAIN M : M[i].frame = DATA /\ M[i].seq = k
    BY <2>1 DEF Covers
  <2>3. i \notin R
    BY <2>1, <2>2 DEF Covers
  <2> QED
    BY <2>2, <2>3
<1>7. IsFiniteSet(D)
  BY FS_Subset DEF Boxed
<1>8. \A i, j \in D : M[i].seq = M[j].seq => i = j
  BY <1>4
<1> HIDE DEF D, T
<1>9. g \in Bijection(D, T)
  <2>1. g \in [D -> T]
    BY <1>5
  <2>2. g \in Injection(D, T)
    BY <1>8, <2>1 DEF Injection, IsInjective
  <2>3. g \in Surjection(D, T)
    BY <1>6, <2>1 DEF Surjection
  <2> QED
    BY <2>2, <2>3 DEF Bijection
<1>10. Cardinality(T) = Cardinality(D)
  BY <1>7, <1>9, FS_Bijection DEF ExistsBijection
<1>11. Cardinality(T) = n - m
  <2>1. n - 1 \in Int
    OBVIOUS
  <2>2. Cardinality(m .. (n - 1)) = IF m > n - 1 THEN 0 ELSE (n - 1) - m + 1
    BY <2>1, FS_Interval
  <2> QED
    BY <1>3, <2>2 DEF T
<1> QED
  BY <1>3, <1>10, <1>11 DEF D

\* Between two ends whose windows are not saturated, credit is conserved.
LEMMA CreditBetween ==
  ASSUME NEW H, NEW M, NEW R, NEW K, NEW N, NEW Q, Boxed(H, M, R), Boxed(K, N, Q),
         Mutual(H, M, R, K, N, Q), NEW s \in H, NEW t \in K, Permits(s) < U64_MAX
  PROVE  t.send_credit + Cardinality({i \in DOMAIN M \ R : M[i].frame = DATA}) + Due(N, Q)
           = s.recv_window_remaining
<1>1. Half(H, M, R, N) /\ Half(K, N, Q, M) /\ Balance(H, M, K, N, Q)
  BY DEF Mutual
<1>2. /\ t.send_credit \in Nat /\ t.send_seq \in Nat /\ s.recv_seq \in Nat
      /\ s.recv_window_remaining \in Nat /\ Permits(s) \in Nat /\ U64_MAX \in Nat
  BY SessionNumbers, MachineAssumption DEF Boxed
<1>3. Covers(M, R, s.recv_seq) /\ Covers(M, DOMAIN M, t.send_seq) /\ Ordered(M)
  BY <1>1 DEF Half
<1> DEFINE n == Cardinality({i \in DOMAIN M \ R : M[i].frame = DATA})
<1>4. s.recv_seq <= t.send_seq /\ n = t.send_seq - s.recv_seq
  BY <1>2, <1>3, ChunksBetween
<1>5. Permitted(t) + Due(N, Q) = Permits(s)
  BY <1>1, <1>2 DEF Balance
<1>6. Due(N, Q) \in Nat
  <2>1. \A j \in DOMAIN N \ Q : N[j].window \in U32
    BY DEF Boxed, Headers
  <2>2. IsFiniteSet(DOMAIN N \ Q)
    BY FS_Subset DEF Boxed
  <2> QED
    BY <2>1, <2>2, UnitsFinite DEF Due
<1> HIDE DEF n
<1>7. t.send_credit + n + Due(N, Q) = s.recv_window_remaining
  BY <1>2, <1>4, <1>5, <1>6 DEF Permits, Permitted
<1> QED
  BY <1>7 DEF n
-----------------------------------------------------------------------------
\* Stream c at end e.
Held(e, c) == {ep[e].sessions[d] : d \in Live(ep[e]) \cap {c}}
Mail(e, c) ==
  [i \in {j \in DOMAIN log[e] : log[e][j].correlation_id = c} |-> log[e][i].stream]
Read(e, c) == {i \in DOMAIN Mail(e, c) : i <= delivered[e]}

\* Stream c, which o opens, at both ends.
Told(o, c) ==
  /\ Story(Held(o, c), Mail(o, c), Read(o, c),
           Held(Peer(o), c), Mail(Peer(o), c), Read(Peer(o), c))
  /\ c \in used[o] <=> DOMAIN Mail(Peer(o), c) # {}

AllTold == \A o \in Ends : \A c \in CidsOf[o] : Told(o, c)
-----------------------------------------------------------------------------
(***************************************************************************)
(* The streams of the two endpoints, and the steps that touch them.        *)
(***************************************************************************)

\* The mail of a stream.
LEMMA MailOf ==
  ASSUME NEW e, NEW c
  PROVE  /\ DOMAIN Mail(e, c) = {j \in DOMAIN log[e] : log[e][j].correlation_id = c}
         /\ \A i \in DOMAIN Mail(e, c) : Mail(e, c)[i] = log[e][i].stream
         /\ Read(e, c) = {i \in DOMAIN Mail(e, c) : i <= delivered[e]}
  BY DEF Mail, Read

\* The values the argument is about are those of a stream.
LEMMA StreamBoxed ==
  ASSUME Inv, NEW e \in Ends, NEW c
  PROVE  Boxed(Held(e, c), Mail(e, c), Read(e, c))
<1>1. \A d \in Live(ep[e]) : ep[e].sessions[d] \in Sessions
  BY EndTypes
<1>2. Held(e, c) \subseteq Sessions /\ \A s, t \in Held(e, c) : s = t
  BY <1>1 DEF Held
<1>3. log[e] \in Seq(Letters) /\ DOMAIN log[e] = 1 .. Len(log[e]) /\ Len(log[e]) \in Nat
      /\ delivered[e] \in Nat
  BY EndTypes DEF Inv
<1> DEFINE M == Mail(e, c)
<1>4. DOMAIN M \subseteq 1 .. Len(log[e])
  BY <1>3 DEF Mail
<1>5. DOMAIN M \subseteq Nat /\ IsFiniteSet(DOMAIN M)
  <2> DEFINE n == Len(log[e])
  <2>1. n \in Nat /\ DOMAIN M \subseteq 1 .. n
    BY <1>3, <1>4
  <2> HIDE DEF n, M
  <2>2. IsFiniteSet(1 .. n)
    BY <2>1, FS_Interval
  <2> QED
    BY <2>1, <2>2, FS_Subset
<1>6. ASSUME NEW i \in DOMAIN M PROVE M[i] \in Headers /\ M[i].seq < U64_MAX
  <2>1. i \in DOMAIN log[e] /\ M[i] = log[e][i].stream
    BY DEF Mail
  <2> QED
    BY <2>1, LetterFields
<1>7. Read(e, c) = {i \in DOMAIN M : i <= delivered[e]}
  BY MailOf
<1> HIDE DEF M
<1>8. Read(e, c) \subseteq DOMAIN M
  BY <1>7
<1>9. \A i \in DOMAIN M, j \in Read(e, c) : i <= j => i \in Read(e, c)
  BY <1>3, <1>5, <1>7
<1> QED
  BY <1>2, <1>5, <1>6, <1>8, <1>9 DEF Boxed, M

\* Nothing happens to stream c at end e.
Same(e, c) ==
  Held(e, c)' = Held(e, c) /\ Mail(e, c)' = Mail(e, c) /\ Read(e, c)' = Read(e, c)

\* A stream to which nothing happens.
LEMMA SameTold ==
  ASSUME NEW o, NEW c, Told(o, c), Same(o, c), Same(Peer(o), c),
         c \in used'[o] <=> c \in used[o]
  PROVE  Told(o, c)'
  BY DEF Told, Same

\* e posts header h on stream c, with a lifetime the callers use.
Writes(e, c, h) ==
  \E l \in Letters : /\ log' = [log EXCEPT ![Peer(e)] = @ \o <<l>>]
                     /\ l.correlation_id = c /\ l.stream = h /\ l.timestamp_ms = now
                     /\ l.expires_at \in Expiries

\* A frame that is sealed is posted.
LEMMA SealedWrites ==
  ASSUME Inv, NEW e \in Ends, NEW c \in Cids, NEW h \in Headers, h.seq < U64_MAX, NEW y \in Nat,
         NEW x \in Expiries, log' = [log EXCEPT ![Peer(e)] = @ \o Sends(ep[e], c, h, y, now, x, TRUE)]
  PROVE  Writes(e, c, h)
<1> DEFINE l == Sealed(ep[e], c, h, y, now, x)
<1>1. /\ ep[e].local_did = e /\ ep[e].local_epoch = 0 /\ ep[e].send_counter \in U64
  <2>1. Good(e, ep[e]) /\ ep[e].send_counter \in Nat
    BY EndTypes
  <2> QED
    BY <2>1, MachineAssumption DEF Good, Endpoints, U64
<1>2. now \in U64
  BY PairAssumption, MachineAssumption DEF Inv, U64
<1>3. x \in Nat
  <2>1. now \in Nat /\ TTLs \subseteq Nat
    BY PairAssumption DEF Inv
  <2> QED
    BY <2>1 DEF Expiries
<1>4. l = [authentic |-> TRUE, sender |-> e, sender_epoch |-> 0, shape |-> "StreamFrame",
           correlation_id |-> c, stream |-> h, counter |-> ep[e].send_counter,
           timestamp_ms |-> now, expires_at |-> x, payload |-> y]
  BY <1>1 DEF Sealed
<1>5. log' = [log EXCEPT ![Peer(e)] = @ \o <<l>>]
  BY DEF Sends
<1> HIDE DEF l
<1>6. l \in Letters
  BY <1>1, <1>2, <1>3, <1>4 DEF Letters
<1>7. l.correlation_id = c /\ l.stream = h /\ l.timestamp_ms = now /\ l.expires_at \in Expiries
  BY <1>4
<1> QED
  BY <1>5, <1>6, <1>7 DEF Writes

\* The transport afterwards.
LEMMA WritesLog ==
  ASSUME Inv, NEW e \in Ends, NEW l \in Letters, log' = [log EXCEPT ![Peer(e)] = @ \o <<l>>]
  PROVE  LET p == Peer(e)
             n == Len(log[p]) + 1
         IN  /\ log'[e] = log[e] /\ Len(log[p]) \in Nat
             /\ DOMAIN log[p] = 1 .. Len(log[p])
             /\ DOMAIN log'[p] = DOMAIN log[p] \cup {n} /\ n \notin DOMAIN log[p]
             /\ \A i \in DOMAIN log[p] : i \in Nat /\ i < n
             /\ log'[p][n] = l /\ \A i \in DOMAIN log[p] : log'[p][i] = log[p][i]
<1> DEFINE p == Peer(e)
           n == Len(log[p]) + 1
<1>1. p \in Ends /\ p # e /\ log \in [Ends -> Seq(Letters)] /\ log[p] \in Seq(Letters)
  BY PeerOf DEF Inv
<1>2. log'[e] = log[e] /\ log'[p] = log[p] \o <<l>>
  BY <1>1
<1>3. log[p] \o <<l>> = Append(log[p], l)
  BY <1>1, AppendIsConcat
<1>4. Len(log[p]) \in Nat /\ DOMAIN log[p] = 1 .. Len(log[p])
  BY <1>1
<1>5. /\ DOMAIN log'[p] = 1 .. n /\ log'[p][n] = l
      /\ \A i \in 1 .. Len(log[p]) : log'[p][i] = log[p][i]
  BY <1>1, <1>2, <1>3, AppendProperties
<1> HIDE DEF p
<1>6. DOMAIN log'[p] = DOMAIN log[p] \cup {n} /\ n \notin DOMAIN log[p]
  BY <1>4, <1>5
<1>7. \A i \in DOMAIN log[p] : i \in Nat /\ i < n
  BY <1>4
<1> QED
  BY <1>2, <1>4, <1>5, <1>6, <1>7 DEF p

\* The mail of all streams afterwards.
LEMMA WritesMail ==
  ASSUME Inv, NEW e \in Ends, NEW c, NEW h, Writes(e, c, h)
  PROVE  /\ Adds(Mail(Peer(e), c)', Mail(Peer(e), c), Len(log[Peer(e)]) + 1, h)
         /\ \A d : Mail(e, d)' = Mail(e, d)
         /\ \A d : d # c => Mail(Peer(e), d)' = Mail(Peer(e), d)
<1> DEFINE p == Peer(e)
           n == Len(log[p]) + 1
<1>1. PICK l \in Letters : /\ log' = [log EXCEPT ![Peer(e)] = @ \o <<l>>]
                           /\ l.correlation_id = c /\ l.stream = h
  BY DEF Writes
<1>2. /\ log'[e] = log[e] /\ Len(log[p]) \in Nat
      /\ DOMAIN log'[p] = DOMAIN log[p] \cup {n} /\ n \notin DOMAIN log[p]
      /\ \A i \in DOMAIN log[p] : i \in Nat /\ i < n
      /\ log'[p][n] = l /\ \A i \in DOMAIN log[p] : log'[p][i] = log[p][i]
  BY <1>1, WritesLog
<1>3. n \in Nat
  BY <1>2
<1>4. h \in Headers /\ h.seq < U64_MAX
  BY <1>1 DEF Letters
<1> HIDE DEF n, p
<1>5. ASSUME NEW d PROVE Mail(e, d)' = Mail(e, d)
  BY <1>2 DEF Mail
<1>6. ASSUME NEW d, d # c PROVE Mail(p, d)' = Mail(p, d)
  <2>1. {j \in DOMAIN log'[p] : log'[p][j].correlation_id = d}
          = {j \in DOMAIN log[p] : log[p][j].correlation_id = d}
    BY <1>1, <1>2, <1>6
  <2> QED
    BY <1>2, <2>1 DEF Mail
<1>7. Adds(Mail(p, c)', Mail(p, c), n, h)
  <2>1. DOMAIN Mail(p, c)' = DOMAIN Mail(p, c) \cup {n} /\ n \notin DOMAIN Mail(p, c)
    BY <1>1, <1>2 DEF Mail
  <2>2. Mail(p, c)'[n] = h
    BY <1>1, <1>2 DEF Mail
  <2>3. \A i \in DOMAIN Mail(p, c) : Mail(p, c)'[i] = Mail(p, c)[i] /\ i \in Nat /\ i < n
    BY <1>2 DEF Mail
  <2> QED
    BY <1>3, <1>4, <2>1, <2>2, <2>3 DEF Adds
<1> QED
  BY <1>5, <1>6, <1>7 DEF p, n

\* What was read stays read, and no more, unless the transport delivers.
LEMMA ReadKept ==
  ASSUME NEW e, NEW c, Mail(e, c)' = Mail(e, c), delivered'[e] = delivered[e]
  PROVE  Read(e, c)' = Read(e, c)
  BY DEF Read

\* A posted frame was not read yet.
LEMMA ReadUnposted ==
  ASSUME Inv, NEW e \in Ends, NEW c, NEW h,
         Adds(Mail(e, c)', Mail(e, c), Len(log[e]) + 1, h), delivered'[e] = delivered[e]
  PROVE  Read(e, c)' = Read(e, c)
<1>1. delivered[e] \in Nat /\ delivered[e] <= Len(log[e]) /\ Len(log[e]) \in Nat
  BY EndTypes DEF Inv
<1>2. ~(Len(log[e]) + 1 <= delivered[e])
  BY <1>1
<1>3. DOMAIN Mail(e, c)' = DOMAIN Mail(e, c) \cup {Len(log[e]) + 1}
  BY DEF Adds
<1>4. Read(e, c)' = {i \in DOMAIN Mail(e, c)' : i <= delivered[e]}
  BY DEF Read
<1>5. Read(e, c) = {i \in DOMAIN Mail(e, c) : i <= delivered[e]}
  BY DEF Read
<1> QED
  BY <1>2, <1>3, <1>4, <1>5

\* The sessions of the other streams, and those of the other end.
LEMMA HeldKept ==
  ASSUME Inv, NEW e \in Ends, NEW c \in Cids, NEW n, NEW g, Touches(e, c, n, g)
  PROVE  /\ \A d \in Cids \ {c} : Held(e, d)' = Held(e, d)
         /\ \A d : Held(Peer(e), d)' = Held(Peer(e), d)
<1>1. ASSUME NEW d \in Cids \ {c} PROVE Held(e, d)' = Held(e, d)
  <2>1. d \in Live(ep'[e]) <=> d \in Live(ep[e])
    BY DEF Touches
  <2>2. d \in Live(ep[e]) => ep'[e].sessions[d] = ep[e].sessions[d]
    BY DEF Touches
  <2> QED
    BY <2>1, <2>2 DEF Held
<1>2. ep'[Peer(e)] = ep[Peer(e)]
  BY DEF Touches
<1>3. ASSUME NEW d PROVE Held(Peer(e), d)' = Held(Peer(e), d)
  BY <1>2 DEF Held
<1> QED
  BY <1>1, <1>3

\* The sessions of a stream that is there, and of one that is not.
LEMMA HeldIs ==
  ASSUME NEW e, NEW c
  PROVE  /\ c \in Live(ep[e]) => Held(e, c) = {ep[e].sessions[c]}
         /\ c \notin Live(ep[e]) => Held(e, c) = {}
         /\ c \in Live(ep'[e]) => Held(e, c)' = {ep'[e].sessions[c]}
         /\ c \notin Live(ep'[e]) => Held(e, c)' = {}
  BY DEF Held
-----------------------------------------------------------------------------
(***************************************************************************)
(* The calls of the two applications.                                      *)
(***************************************************************************)

\* e holds J of stream c afterwards and posts h on it.
Saying(e, c, J, h) ==
  /\ Touches(e, c, ep'[e].send_counter, ep'[e].guard)
  /\ Held(e, c)' = J /\ Writes(e, c, h)

\* A call at e on stream c: a frame is posted, one counter is used up, and what the
\* session permits grows by no more than one grant.
OneCall(e, c) ==
  /\ ep'[e].send_counter = ep[e].send_counter + 1
  /\ \E J, h : /\ Saying(e, c, J, h)
               /\ \A t \in J : \/ Permits(t) <= U32_MAX
                               \/ \E s \in Held(e, c) : Permits(t) <= Permits(s) + U32_MAX

\* The sessions and the mail of all streams afterwards.
LEMMA SayingShape ==
  ASSUME Inv, NEW e \in Ends, NEW c \in Cids, NEW J, NEW h, Saying(e, c, J, h)
  PROVE  /\ Held(e, c)' = J /\ \A d \in Cids \ {c} : Held(e, d)' = Held(e, d)
         /\ \A d : Held(Peer(e), d)' = Held(Peer(e), d)
         /\ Adds(Mail(Peer(e), c)', Mail(Peer(e), c), Len(log[Peer(e)]) + 1, h)
         /\ \A d : Mail(e, d)' = Mail(e, d)
         /\ \A d : d # c => Mail(Peer(e), d)' = Mail(Peer(e), d)
<1>1. /\ \A d \in Cids \ {c} : Held(e, d)' = Held(e, d)
      /\ \A d : Held(Peer(e), d)' = Held(Peer(e), d)
  BY HeldKept DEF Saying
<1>2. /\ Adds(Mail(Peer(e), c)', Mail(Peer(e), c), Len(log[Peer(e)]) + 1, h)
      /\ \A d : Mail(e, d)' = Mail(e, d)
      /\ \A d : d # c => Mail(Peer(e), d)' = Mail(Peer(e), d)
  BY WritesMail DEF Saying
<1> QED
  BY <1>1, <1>2 DEF Saying

\* A call reads nothing and leaves the other streams alone.
LEMMA SayingReads ==
  ASSUME Inv, NEW e \in Ends, NEW c \in Cids, NEW J, NEW h, Saying(e, c, J, h),
         delivered' = delivered
  PROVE  /\ Read(e, c)' = Read(e, c) /\ Read(Peer(e), c)' = Read(Peer(e), c)
         /\ \A d \in Cids \ {c} : Same(e, d) /\ Same(Peer(e), d)
<1>1. /\ \A d \in Cids \ {c} : Held(e, d)' = Held(e, d)
      /\ \A d : Held(Peer(e), d)' = Held(Peer(e), d)
      /\ Adds(Mail(Peer(e), c)', Mail(Peer(e), c), Len(log[Peer(e)]) + 1, h)
      /\ \A d : Mail(e, d)' = Mail(e, d)
      /\ \A d : d # c => Mail(Peer(e), d)' = Mail(Peer(e), d)
  BY SayingShape
<1>2. delivered'[e] = delivered[e] /\ delivered'[Peer(e)] = delivered[Peer(e)] /\ Peer(e) \in Ends
  BY PeerOf
<1>3. ASSUME NEW d PROVE Read(e, d)' = Read(e, d)
  <2>1. Mail(e, d)' = Mail(e, d)
    BY <1>1
  <2> QED
    BY <1>2, <2>1, ReadKept
<1>4. Read(Peer(e), c)' = Read(Peer(e), c)
  BY <1>1, <1>2, ReadUnposted
<1>5. ASSUME NEW d \in Cids \ {c} PROVE Read(Peer(e), d)' = Read(Peer(e), d)
  <2>1. Mail(Peer(e), d)' = Mail(Peer(e), d)
    BY <1>1
  <2> QED
    BY <1>2, <2>1, ReadKept
<1>6. ASSUME NEW d \in Cids \ {c} PROVE Same(e, d) /\ Same(Peer(e), d)
  <2>1. Held(e, d)' = Held(e, d) /\ Held(Peer(e), d)' = Held(Peer(e), d)
    BY <1>1
  <2>2. Mail(e, d)' = Mail(e, d) /\ Mail(Peer(e), d)' = Mail(Peer(e), d)
    BY <1>1
  <2>3. Read(e, d)' = Read(e, d) /\ Read(Peer(e), d)' = Read(Peer(e), d)
    BY <1>3, <1>5
  <2> QED
    BY <2>1, <2>2, <2>3 DEF Same
<1> QED
  BY <1>3, <1>4, <1>6

\* Where no seal fails, a call that stores session s posts its frame.
LEMMA CallSays ==
  ASSUME Inv, FailingFrames = {}, NEW e \in Ends, NEW c \in Cids, NEW hdr \in Headers,
         hdr.seq < U64_MAX, NEW y \in Nat, NEW x \in Expiries, NEW sealed \in BOOLEAN,
         Call(e, hdr.frame, sealed), NEW s \in Sessions, s.send_seq <= ep[e].send_counter + 1,
         c \in Live(ep[e]) \/ ~Full(ep[e]),
         Returns(e, seal_frame(WithSession(ep[e], c, s), c, hdr, y, now, x, sealed))
  PROVE  /\ Saying(e, c, {s}, hdr) /\ delivered' = delivered
         /\ ep'[e].send_counter = ep[e].send_counter + 1
<1> DEFINE r == seal_frame(WithSession(ep[e], c, s), c, hdr, y, now, x, sealed)
           n == ep[e].send_counter + 1
<1>1. /\ ep[e] \in Endpoints(Ends, Cids) /\ ep[e].guard \in Maps(Ends \X {0}, UsedWindows)
  BY EndTypes
<1>2. n \in Nat /\ ep[e].send_counter <= n /\ n <= U64_MAX
  BY OneMore DEF Call
<1>3. sealed = TRUE /\ delivered' = delivered
  <2>1. ~sealed => hdr.frame \in FailingFrames
    BY SealingCounts DEF Call
  <2> QED
    BY <2>1 DEF Call
<1>4. /\ r.ep = With(ep[e], Insert(ep[e].sessions, c, s), n, ep[e].guard)
      /\ r.sent = Sends(ep[e], c, hdr, y, now, x, sealed)
  BY <1>1, StoreAndSeal
<1>5. /\ ep' = [ep EXCEPT ![e] = With(ep[e], Insert(ep[e].sessions, c, s), n, ep[e].guard)]
      /\ log' = [log EXCEPT ![Peer(e)] = @ \o Sends(ep[e], c, hdr, y, now, x, TRUE)]
  BY <1>3, <1>4 DEF Returns
<1>6. Writes(e, c, hdr)
  BY <1>5, SealedWrites
<1>7. s.send_seq <= n
  OBVIOUS
<1>8. Touches(e, c, n, ep[e].guard) /\ c \in Live(ep'[e]) /\ ep'[e].sessions[c] = s
  <2> HIDE DEF n
  <2> QED
    BY <1>1, <1>2, <1>5, <1>7, StoreStream, ZenonT(40)
<1>9. Held(e, c)' = {s}
  BY <1>8, HeldIs
<1>10. Touches(e, c, ep'[e].send_counter, ep'[e].guard)
  <2>1. ep'[e].send_counter = n /\ ep'[e].guard = ep[e].guard
    BY <1>8 DEF Touches
  <2> QED
    BY <1>8, <2>1
<1>11. ep'[e].send_counter = ep[e].send_counter + 1
  BY <1>8 DEF Touches
<1> QED
  BY <1>3, <1>6, <1>9, <1>10, <1>11 DEF Saying

\* The streams a step is not about.
LEMMA OthersTold ==
  ASSUME NEW e \in Ends, NEW c \in Cids, AllTold, NEW o \in Ends, NEW d \in CidsOf[o], d # c,
         \A b \in Cids \ {c} : Same(e, b) /\ Same(Peer(e), b),
         d \in used'[o] <=> d \in used[o]
  PROVE  Told(o, d)'
<1>1. d \in Cids \ {c}
  BY DEF Cids, Ends
<1>2. {o, Peer(o)} = {e, Peer(e)}
  BY PeerOf
<1>3. Same(o, d) /\ Same(Peer(o), d)
  BY <1>1, <1>2
<1> QED
  BY <1>3, SameTold DEF AllTold

\* What a stream is at both ends.
LEMMA ToldBoxed ==
  ASSUME Inv, AllTold, NEW o \in Ends, NEW c \in CidsOf[o]
  PROVE  /\ Boxed(Held(o, c), Mail(o, c), Read(o, c))
         /\ Boxed(Held(Peer(o), c), Mail(Peer(o), c), Read(Peer(o), c))
         /\ Story(Held(o, c), Mail(o, c), Read(o, c),
                  Held(Peer(o), c), Mail(Peer(o), c), Read(Peer(o), c))
         /\ c \in used[o] <=> DOMAIN Mail(Peer(o), c) # {}
<1>1. Peer(o) \in Ends
  BY PeerOf
<1>2. Told(o, c)
  BY DEF AllTold
<1> QED
  BY <1>1, <1>2, StreamBoxed DEF Told

\* The end that opens a stream, seen from one that takes part in it.
LEMMA OpenerOf ==
  ASSUME NEW e \in Ends, NEW c \in Cids
  PROVE  \/ c \in CidsOf[e] /\ c \notin CidsOf[Peer(e)]
         \/ c \in CidsOf[Peer(e)] /\ c \notin CidsOf[e] /\ Peer(e) \in Ends /\ Peer(Peer(e)) = e
  BY PeerOf, PairAssumption DEF Cids, Ends, Peer

\* A frame on a stream the end holds.
LEMMA SpeechTold ==
  ASSUME Inv, AllTold, NEW e \in Ends, NEW c \in Cids, NEW s \in Held(e, c), NEW J, NEW h,
         Speech(s, J, h), Saying(e, c, J, h), delivered' = delivered, used' = used,
         ep'[e].send_counter = ep[e].send_counter + 1
  PROVE  AllTold' /\ OneCall(e, c)
<1> DEFINE p == Peer(e)
           n == Len(log[p]) + 1
<1>1. /\ Held(e, c)' = J /\ Held(p, c)' = Held(p, c) /\ Mail(e, c)' = Mail(e, c)
      /\ Adds(Mail(p, c)', Mail(p, c), n, h)
  BY SayingShape
<1>2. /\ Read(e, c)' = Read(e, c) /\ Read(p, c)' = Read(p, c)
      /\ \A d \in Cids \ {c} : Same(e, d) /\ Same(p, d)
  BY SayingReads
<1>3. DOMAIN Mail(p, c)' # {}
  BY <1>1 DEF Adds
<1>4. OneCall(e, c)
  BY DEF Speech, OneCall
<1>5. CASE c \in CidsOf[e]
  <2>1. /\ Boxed(Held(e, c), Mail(e, c), Read(e, c)) /\ Boxed(Held(p, c), Mail(p, c), Read(p, c))
        /\ Story(Held(e, c), Mail(e, c), Read(e, c), Held(p, c), Mail(p, c), Read(p, c))
        /\ c \in used[e] <=> DOMAIN Mail(p, c) # {}
    BY <1>5, ToldBoxed
  <2>2. Story(J, Mail(e, c), Read(e, c), Held(p, c), Mail(p, c)', Read(p, c))
    <3> HIDE DEF p, n
    <3> QED
      BY <1>1, <2>1, OpenerSays
  <2>3. c \in used[e]
    <3>1. DOMAIN Mail(p, c) # {}
      BY <2>1 DEF Story, Handshake
    <3> QED
      BY <2>1, <3>1
  <2>4. Told(e, c)'
    BY <1>1, <1>2, <1>3, <2>2, <2>3 DEF Told
  <2> QED
    BY <1>2, <1>4, <1>5, <2>4, OthersTold, OpenerOf, PeerOf DEF AllTold
<1>6. CASE c \in CidsOf[p] /\ p \in Ends /\ Peer(p) = e
  <2>1. /\ Boxed(Held(e, c), Mail(e, c), Read(e, c)) /\ Boxed(Held(p, c), Mail(p, c), Read(p, c))
        /\ Story(Held(p, c), Mail(p, c), Read(p, c), Held(e, c), Mail(e, c), Read(e, c))
        /\ c \in used[p] <=> DOMAIN Mail(e, c) # {}
    <3>1. /\ Boxed(Held(Peer(p), c), Mail(Peer(p), c), Read(Peer(p), c))
          /\ Boxed(Held(p, c), Mail(p, c), Read(p, c))
          /\ Story(Held(p, c), Mail(p, c), Read(p, c),
                   Held(Peer(p), c), Mail(Peer(p), c), Read(Peer(p), c))
          /\ c \in used[p] <=> DOMAIN Mail(Peer(p), c) # {}
      <4> HIDE DEF p
      <4> QED
        BY <1>6, ToldBoxed
    <3> QED
      BY <1>6, <3>1
  <2>2. Story(Held(p, c), Mail(p, c)', Read(p, c), J, Mail(e, c), Read(e, c))
    <3> HIDE DEF p, n
    <3> QED
      BY <1>1, <2>1, AnswererSays
  <2>3. Told(p, c)'
    BY <1>1, <1>2, <1>6, <2>1, <2>2 DEF Told
  <2> QED
    BY <1>2, <1>4, <1>6, <2>3, OthersTold, OpenerOf, PeerOf DEF AllTold
<1> QED
  BY <1>4, <1>5, <1>6, OpenerOf

\* The stream an end opens.
LEMMA OpenTold ==
  ASSUME Inv, AllTold, FailingFrames = {}, NEW e \in Ends, NEW c \in Cids, NEW w \in Grants,
         NEW x \in Expiries, NEW sealed \in BOOLEAN, Open(e, c, w, x, sealed)
  PROVE  AllTold' /\ OneCall(e, c)
<1> DEFINE p == Peer(e)
           n == Len(log[p]) + 1
           h == header(OPEN, 0, w)
           s == initiator(w)
<1>1. w \in U32 /\ w \in U64 /\ 0 \in U64 /\ w \in Nat
  BY PairAssumption, MachineAssumption DEF U32, U64
<1>2. s \in Sessions /\ s.send_seq = 0
  BY <1>1 DEF initiator, NewSession, Sessions
<1>3. ep[e].send_counter + 1 \in Nat /\ ep[e].send_counter + 1 <= U64_MAX /\ ep[e].send_counter \in Nat
  BY OneMore, EndTypes DEF Open, Call
<1>4. h \in Headers /\ h.seq < U64_MAX /\ h.frame = OPEN /\ h.window = w
  BY <1>1, <1>3, MachineAssumption DEF header, Headers, KnownFrames, OPEN, RESET
<1>5. /\ Call(e, OPEN, sealed) /\ ~Full(ep[e]) /\ c \in CidsOf[e] \ used[e]
      /\ used' = [used EXCEPT ![e] = @ \cup {c}]
      /\ Returns(e, seal_frame(WithSession(ep[e], c, s), c, h, 0, now, x, sealed))
  BY DEF Open, CanOpen, open
<1>6. /\ Saying(e, c, {s}, h) /\ delivered' = delivered
      /\ ep'[e].send_counter = ep[e].send_counter + 1
  <2>1. s.send_seq <= ep[e].send_counter + 1
    BY <1>2, <1>3
  <2>2. Call(e, h.frame, sealed) /\ (c \in Live(ep[e]) \/ ~Full(ep[e])) /\ 0 \in Nat
    BY <1>4, <1>5
  <2>3. Returns(e, seal_frame(WithSession(ep[e], c, s), c, h, 0, now, x, sealed))
    BY <1>5
  <2> HIDE DEF s, h
  <2> QED
    BY <1>2, <1>4, <2>1, <2>2, <2>3, CallSays, ZenonT(40)
<1> HIDE DEF h
<1>7. /\ Held(e, c)' = {s} /\ Held(p, c)' = Held(p, c) /\ Mail(e, c)' = Mail(e, c)
      /\ Adds(Mail(p, c)', Mail(p, c), n, h)
  <2> HIDE DEF s
  <2> QED
    BY <1>6, SayingShape
<1>8. /\ Read(e, c)' = Read(e, c) /\ Read(p, c)' = Read(p, c)
      /\ \A d \in Cids \ {c} : Same(e, d) /\ Same(p, d)
  <2> HIDE DEF s
  <2> QED
    BY <1>6, SayingReads
<1>9. DOMAIN Mail(p, c)' # {}
  BY <1>7 DEF Adds
<1>10. /\ Boxed(Held(e, c), Mail(e, c), Read(e, c)) /\ Boxed(Held(p, c), Mail(p, c), Read(p, c))
       /\ Story(Held(e, c), Mail(e, c), Read(e, c), Held(p, c), Mail(p, c), Read(p, c))
       /\ c \in used[e] <=> DOMAIN Mail(p, c) # {}
  BY <1>5, ToldBoxed
<1>11. Story({s}, Mail(e, c), Read(e, c), Held(p, c), Mail(p, c)', Read(p, c))
  <2> HIDE DEF p, n
  <2> QED
    BY <1>1, <1>4, <1>5, <1>7, <1>10, OpenerOpens
<1>12. used \in [Ends -> SUBSET Cids]
  BY DEF Inv
<1>13. c \in used'[e] /\ \A o \in Ends : \A d \in CidsOf[o] : d # c => (d \in used'[o] <=> d \in used[o])
  BY <1>5, <1>12
<1>14. Permits(s) <= U32_MAX
  <2>1. w <= U32_MAX /\ w + 0 = w
    BY <1>1 DEF U32
  <2>2. s.recv_window_remaining = w /\ s.recv_seq = 0
    BY DEF initiator, NewSession
  <2> QED
    BY <2>1, <2>2 DEF Permits
<1> HIDE DEF s
<1>15. Told(e, c)'
  BY <1>7, <1>8, <1>9, <1>11, <1>13 DEF Told
<1>16. ASSUME NEW o \in Ends, NEW d \in CidsOf[o] PROVE Told(o, d)'
  <2>1. CASE d = c
    BY <1>5, <1>15, <1>16, <2>1, OpenerOf, PeerOf
  <2>2. CASE d # c
    BY <1>8, <1>13, <1>16, <2>2, OthersTold
  <2> QED
    BY <2>1, <2>2
<1>17. OneCall(e, c)
  BY <1>6, <1>14 DEF OneCall
<1> QED
  BY <1>16, <1>17 DEF AllTold

\* The stream an end acknowledges.
LEMMA AckTold ==
  ASSUME Inv, AllTold, FailingFrames = {}, NEW e \in Ends, NEW c \in Cids, NEW w \in Grants,
         NEW x \in Expiries, NEW sealed \in BOOLEAN, OpenAck(e, c, w, x, sealed)
  PROVE  AllTold' /\ OneCall(e, c)
<1> DEFINE p == Peer(e)
           n == Len(log[p]) + 1
           h == header(OPEN_ACK, 0, w)
           s == ep[e].sessions[c]
           t == build_open_ack(s, w)
<1>1. w \in U32 /\ w \in U64
  BY PairAssumption, MachineAssumption DEF U32, U64
<1>2. /\ c \in Live(ep[e]) /\ CanOpenAck(s) /\ Call(e, OPEN_ACK, sealed) /\ used' = used
      /\ Returns(e, seal_frame(WithSession(ep[e], c, t), c, h, 0, now, x, sealed))
  BY DEF OpenAck, open_ack
<1>3. s \in Sessions /\ 0 < U64_MAX /\ s.send_seq <= ep[e].send_counter + 1
  BY <1>2, CallFinds
<1>4. t \in Sessions /\ t.send_seq = s.send_seq
  BY <1>1, <1>3 DEF build_open_ack, Sessions
<1>5. h \in Headers /\ h.seq < U64_MAX /\ h.frame = OPEN_ACK /\ h.window = w
  <2>1. h \in Headers /\ h.seq < U64_MAX /\ h.frame = OPEN_ACK
    BY <1>1, <1>3, PlainHeader
  <2> QED
    BY <2>1 DEF header
<1>6. /\ Saying(e, c, {t}, h) /\ delivered' = delivered
      /\ ep'[e].send_counter = ep[e].send_counter + 1
  <2>1. t.send_seq <= ep[e].send_counter + 1
    BY <1>3, <1>4
  <2> HIDE DEF t, h
  <2> QED
    BY <1>2, <1>4, <1>5, <2>1, CallSays
<1> HIDE DEF h
<1>7. /\ Held(e, c)' = {t} /\ Held(p, c)' = Held(p, c) /\ Mail(e, c)' = Mail(e, c)
      /\ Adds(Mail(p, c)', Mail(p, c), n, h)
  <2> HIDE DEF t
  <2> QED
    BY <1>6, SayingShape
<1>8. /\ Read(e, c)' = Read(e, c) /\ Read(p, c)' = Read(p, c)
      /\ \A d \in Cids \ {c} : Same(e, d) /\ Same(p, d)
  <2> HIDE DEF t
  <2> QED
    BY <1>6, SayingReads
<1>9. s \in Held(e, c) /\ s.role = "Responder" /\ ~Established(s)
  BY <1>2, HeldIs DEF CanOpenAck
<1>10. c \in CidsOf[p] /\ c \notin CidsOf[e] /\ p \in Ends /\ Peer(p) = e
  <2>1. ASSUME c \in CidsOf[e] PROVE FALSE
    <3>1. Story(Held(e, c), Mail(e, c), Read(e, c), Held(p, c), Mail(p, c), Read(p, c))
      BY <2>1, ToldBoxed
    <3>2. s.role = "Initiator"
      BY <1>9, <3>1 DEF Story, Handshake
    <3> QED
      BY <1>9, <3>2
  <2> QED
    BY <2>1, OpenerOf
<1>11. /\ Boxed(Held(e, c), Mail(e, c), Read(e, c)) /\ Boxed(Held(p, c), Mail(p, c), Read(p, c))
       /\ Story(Held(p, c), Mail(p, c), Read(p, c), Held(e, c), Mail(e, c), Read(e, c))
       /\ c \in used[p] <=> DOMAIN Mail(e, c) # {}
  <2>1. /\ Boxed(Held(Peer(p), c), Mail(Peer(p), c), Read(Peer(p), c))
        /\ Boxed(Held(p, c), Mail(p, c), Read(p, c))
        /\ Story(Held(p, c), Mail(p, c), Read(p, c),
                 Held(Peer(p), c), Mail(Peer(p), c), Read(Peer(p), c))
        /\ c \in used[p] <=> DOMAIN Mail(Peer(p), c) # {}
    <3> HIDE DEF p
    <3> QED
      BY <1>10, ToldBoxed
  <2> QED
    BY <1>10, <2>1
<1>12. Story(Held(p, c), Mail(p, c)', Read(p, c), {t}, Mail(e, c), Read(e, c))
  <2> HIDE DEF p, n, s
  <2> QED
    BY <1>1, <1>4, <1>5, <1>7, <1>9, <1>11, AnswererAcks
<1>13. Permits(t) <= Permits(s) + U32_MAX
  <2>1. w <= U32_MAX /\ w \in Nat /\ U32_MAX \in Nat
    BY <1>1, MachineAssumption DEF U32, U64
  <2>2. t.recv_window_remaining = w /\ t.recv_seq = s.recv_seq
    BY <1>3 DEF build_open_ack, Sessions
  <2>3. s.recv_seq \in Nat /\ s.recv_window_remaining \in Nat
    BY <1>3, SessionNumbers
  <2> HIDE DEF s, t
  <2> QED
    BY <2>1, <2>2, <2>3 DEF Permits
<1> HIDE DEF t
<1>14. Told(p, c)'
  BY <1>2, <1>7, <1>8, <1>10, <1>11, <1>12 DEF Told
<1>15. ASSUME NEW o \in Ends, NEW d \in CidsOf[o] PROVE Told(o, d)'
  <2>1. CASE d = c
    BY <1>10, <1>14, <1>15, <2>1, PeerOf
  <2>2. CASE d # c
    BY <1>2, <1>8, <1>15, <2>2, OthersTold
  <2> QED
    BY <2>1, <2>2
<1>16. OneCall(e, c)
  <2> HIDE DEF s
  <2> QED
    BY <1>6, <1>9, <1>13 DEF OneCall
<1> QED
  BY <1>15, <1>16 DEF AllTold

\* A session an end holds is not closed.
LEMMA HeldOpen ==
  ASSUME Inv, AllTold, NEW e \in Ends, NEW c \in Cids, c \in Live(ep[e])
  PROVE  /\ ep[e].sessions[c] \in Held(e, c) /\ ep[e].sessions[c] \in Sessions
         /\ ~is_closed(ep[e].sessions[c])
<1>1. Half(Held(e, c), Mail(e, c), Read(e, c), Mail(Peer(e), c))
  <2>1. CASE c \in CidsOf[e]
    BY <2>1, ToldBoxed DEF Story, Mutual
  <2>2. CASE c \in CidsOf[Peer(e)] /\ Peer(e) \in Ends /\ Peer(Peer(e)) = e
    <3> DEFINE p == Peer(e)
    <3>1. Story(Held(p, c), Mail(p, c), Read(p, c), Held(Peer(p), c), Mail(Peer(p), c), Read(Peer(p), c))
      <4> HIDE DEF p
      <4> QED
        BY <2>2, ToldBoxed DEF p
    <3> QED
      BY <2>2, <3>1 DEF Story, Mutual
  <2> QED
    BY <2>1, <2>2, OpenerOf
<1>2. ep[e].sessions[c] \in Held(e, c) /\ ep[e].sessions[c] \in Sessions
  BY HeldIs, EndTypes
<1> QED
  BY <1>1, <1>2 DEF Half

\* The chunk an end sends.
LEMMA SendDataTold ==
  ASSUME Inv, AllTold, FailingFrames = {}, NEW e \in Ends, NEW c \in Cids,
         NEW x \in Expiries, NEW sealed \in BOOLEAN, SendData(e, c, x, sealed)
  PROVE  AllTold' /\ OneCall(e, c)
<1> DEFINE s == ep[e].sessions[c]
           t == build_data(s)
           y == Chunks(e, c) + 1
           h == header(DATA, s.send_seq, 0)
<1>1. /\ c \in Live(ep[e]) /\ CanSendData(s) /\ Call(e, DATA, sealed) /\ used' = used
      /\ Returns(e, seal_frame(WithSession(ep[e], c, t), c, h, y, now, x, sealed))
  BY DEF SendData, send_data
<1>2. /\ s \in Sessions /\ s.send_seq \in Nat /\ s.send_seq <= ep[e].send_counter
      /\ ep[e].send_counter \in Nat /\ ep[e].send_counter + 1 <= U64_MAX
  BY <1>1, CallFinds
<1>3. s.send_seq + 1 \in U64 /\ s.send_credit - 1 \in U64 /\ s.send_seq < U64_MAX
      /\ s.send_seq + 1 <= ep[e].send_counter + 1
  BY <1>1, <1>2, MachineAssumption DEF CanSendData, Sessions, U64
<1>4. t \in Sessions /\ t.send_seq = s.send_seq + 1
  BY <1>2, <1>3 DEF build_data, Sessions
<1>5. y \in Nat
  <2>1. log[Peer(e)] \in Seq(Letters)
    BY PeerOf, EndTypes
  <2>2. Chunks(e, c) = Cardinality(DataOf(Peer(e), c, log[Peer(e)]))
    BY DEF Chunks, DataOf
  <2>3. Chunks(e, c) \in Nat
    BY <2>1, <2>2, ChunksType
  <2> QED
    BY <2>3
<1>6. h \in Headers /\ h.seq < U64_MAX /\ h.frame = DATA
  <2>1. DATA \in KnownFrames /\ 0 \in U32 /\ s.send_seq \in U64
    BY <1>2, MachineAssumption DEF KnownFrames, OPEN, DATA, RESET, U32, U64, Sessions
  <2> QED
    BY <1>3, <2>1 DEF header, Headers
<1>7. /\ Saying(e, c, {t}, h) /\ delivered' = delivered
      /\ ep'[e].send_counter = ep[e].send_counter + 1
  <2>1. t.send_seq <= ep[e].send_counter + 1
    BY <1>3, <1>4
  <2> HIDE DEF t, h, y
  <2> QED
    BY <1>1, <1>4, <1>5, <1>6, <2>1, CallSays
<1>8. s \in Held(e, c) /\ ~is_closed(s)
  BY <1>1, HeldOpen
<1>9. Speech(s, {t}, h)
  BY <1>1, <1>2, <1>4, <1>8, DataSpeech
<1> HIDE DEF s, t, h
<1> QED
  BY <1>1, <1>7, <1>8, <1>9, SpeechTold

\* The credit an end grants.
LEMMA GrantCreditTold ==
  ASSUME Inv, AllTold, FailingFrames = {}, NEW e \in Ends, NEW c \in Cids, NEW w \in Grants,
         NEW x \in Expiries, NEW sealed \in BOOLEAN, GrantCredit(e, c, w, x, sealed)
  PROVE  AllTold' /\ OneCall(e, c)
<1> DEFINE s == ep[e].sessions[c]
           t == build_credit(s, w)
           h == header(CREDIT, 0, w)
<1>1. /\ c \in Live(ep[e]) /\ CanGrantCredit(s) /\ Call(e, CREDIT, sealed) /\ used' = used
      /\ Returns(e, seal_frame(WithSession(ep[e], c, t), c, h, 0, now, x, sealed))
  BY DEF GrantCredit, grant_credit
<1>2. w \in U32 /\ w \in Nat
  BY PairAssumption, MachineAssumption DEF U32, U64
<1>3. s \in Sessions /\ 0 < U64_MAX /\ s.send_seq <= ep[e].send_counter + 1
  BY <1>1, CallFinds
<1>4. saturating_add(s.recv_window_remaining, w) \in U64
  BY <1>2, <1>3, MachineAssumption DEF saturating_add, Sessions, U64
<1>5. t \in Sessions /\ t.send_seq = s.send_seq
  BY <1>3, <1>4 DEF build_credit, Sessions
<1>6. h \in Headers /\ h.seq < U64_MAX /\ h.frame = CREDIT
  BY <1>2, <1>3, PlainHeader
<1>7. /\ Saying(e, c, {t}, h) /\ delivered' = delivered
      /\ ep'[e].send_counter = ep[e].send_counter + 1
  <2>1. t.send_seq <= ep[e].send_counter + 1
    BY <1>3, <1>5
  <2> HIDE DEF t, h
  <2> QED
    BY <1>1, <1>5, <1>6, <2>1, CallSays
<1>8. s \in Held(e, c) /\ ~is_closed(s)
  BY <1>1, HeldOpen
<1>9. Speech(s, {t}, h)
  BY <1>1, <1>2, <1>3, <1>5, <1>8, CreditSpeech
<1> HIDE DEF s, t, h
<1> QED
  BY <1>1, <1>7, <1>8, <1>9, SpeechTold

\* A call whose frame ends the stream, or one direction of it.
LEMMA EndingSays ==
  ASSUME Inv, FailingFrames = {}, NEW e \in Ends, NEW c \in Cids, c \in Live(ep[e]),
         NEW f \in {CLOSE, RESET}, NEW x \in Expiries, NEW sealed \in BOOLEAN,
         Call(e, f, sealed), NEW s \in Sessions, s.send_seq = ep[e].sessions[c].send_seq, NEW r,
         NEW u, Seals(ep[e], c, header(f, 0, 0), now, x, sealed, Settled(ep[e].sessions, c, s), u, r),
         Returns(e, r)
  PROVE  /\ Saying(e, c, Kept(s), header(f, 0, 0)) /\ delivered' = delivered
         /\ ep'[e].send_counter = ep[e].send_counter + 1
<1> DEFINE h == header(f, 0, 0)
           n == ep[e].send_counter + 1
<1>1. /\ ep[e] \in Endpoints(Ends, Cids) /\ ep[e].guard \in Maps(Ends \X {0}, UsedWindows)
      /\ ep[e].sessions[c].send_seq <= n
      /\ n \in Nat /\ ep[e].send_counter <= n /\ n <= U64_MAX /\ 0 < U64_MAX
  BY CallFinds
<1>2. h \in Headers /\ h.seq < U64_MAX
  <2>1. 0 \in U32
    BY MachineAssumption DEF U32, U64
  <2> QED
    BY <1>1, <2>1, PlainHeader
<1>3. sealed = TRUE /\ delivered' = delivered
  <2>1. ~sealed => f \in FailingFrames
    BY SealingCounts DEF Call
  <2> QED
    BY <2>1 DEF Call
<1> HIDE DEF h, n
<1>4. /\ ep' = [ep EXCEPT ![e] = With(ep[e], Settled(ep[e].sessions, c, s), n, ep[e].guard)]
      /\ log' = [log EXCEPT ![Peer(e)] = @ \o Sends(ep[e], c, h, 0, now, x, TRUE)]
  BY <1>3 DEF Seals, Returns, h, n
<1>5. Writes(e, c, h)
  BY <1>2, <1>4, SealedWrites
<1>6. Touches(e, c, n, ep[e].guard) /\ Held(e, c)' = Kept(s)
  <2>1. CASE is_closed(s)
    <3>1. ep' = [ep EXCEPT ![e] = With(ep[e], Remove(ep[e].sessions, c), n, ep[e].guard)]
      BY <1>4, <2>1 DEF Settled
    <3>2. Touches(e, c, n, ep[e].guard) /\ c \notin Live(ep'[e])
      BY <1>1, <3>1, DropStream
    <3> QED
      BY <2>1, <3>2, HeldIs DEF Kept
  <2>2. CASE ~is_closed(s)
    <3>1. ep' = [ep EXCEPT ![e] = With(ep[e], Insert(ep[e].sessions, c, s), n, ep[e].guard)]
      BY <1>4, <2>2 DEF Settled
    <3>2. s.send_seq <= n
      BY <1>1
    <3>3. Touches(e, c, n, ep[e].guard) /\ c \in Live(ep'[e]) /\ ep'[e].sessions[c] = s
      BY <1>1, <3>1, <3>2, StoreStream, ZenonT(40)
    <3> QED
      BY <2>2, <3>3, HeldIs DEF Kept
  <2> QED
    BY <2>1, <2>2
<1>7. Touches(e, c, ep'[e].send_counter, ep'[e].guard)
  <2>1. ep'[e].send_counter = n /\ ep'[e].guard = ep[e].guard
    BY <1>6 DEF Touches
  <2> QED
    BY <1>6, <2>1
<1>8. ep'[e].send_counter = ep[e].send_counter + 1
  BY <1>6 DEF Touches, n
<1> QED
  BY <1>3, <1>5, <1>6, <1>7, <1>8 DEF Saying, h

\* The CLOSE an end sends.
LEMMA CloseTold ==
  ASSUME Inv, AllTold, FailingFrames = {}, ~EarlyClose, NEW e \in Ends, NEW c \in Cids,
         NEW x \in Expiries, NEW sealed \in BOOLEAN, Close(e, c, x, sealed)
  PROVE  AllTold' /\ OneCall(e, c)
<1> DEFINE s == ep[e].sessions[c]
           t == build_close(s)
           h == header(CLOSE, 0, 0)
           r == close(ep[e], c, now, x, sealed)
<1>1. /\ c \in Live(ep[e]) /\ CanClose(s) /\ Established(s) /\ Call(e, CLOSE, sealed)
      /\ used' = used /\ Returns(e, r)
  BY DEF Close
<1>2. ep[e] \in Endpoints(Ends, Cids) /\ s \in Sessions
  BY <1>1, CallFinds
<1>3. t \in Sessions /\ t.send_seq = s.send_seq
  BY <1>2 DEF build_close, Sessions
<1>4. Seals(ep[e], c, h, now, x, sealed, Settled(ep[e].sessions, c, t),
            Insert(ep[e].sessions, c, t), r)
  BY <1>2, <1>3, CloseShape
<1>5. /\ Saying(e, c, Kept(t), h) /\ delivered' = delivered
      /\ ep'[e].send_counter = ep[e].send_counter + 1
  <2> HIDE DEF t, r
  <2> QED
    BY <1>1, <1>3, <1>4, EndingSays
<1>6. s \in Held(e, c) /\ ~is_closed(s)
  BY <1>1, HeldOpen
<1>7. Speech(s, Kept(t), h)
  BY <1>1, <1>2, <1>3, <1>6, CloseSpeech
<1> HIDE DEF s, t, h
<1> QED
  BY <1>1, <1>5, <1>6, <1>7, SpeechTold

\* The RESET an end sends.
LEMMA CancelTold ==
  ASSUME Inv, AllTold, FailingFrames = {}, NEW e \in Ends, NEW c \in Cids,
         NEW x \in Expiries, NEW sealed \in BOOLEAN, Cancel(e, c, x, sealed)
  PROVE  AllTold' /\ OneCall(e, c)
<1> DEFINE s == ep[e].sessions[c]
           t == build_reset(s)
           h == header(RESET, 0, 0)
           r == reset(ep[e], c, now, x, sealed)
<1>1. c \in Live(ep[e]) /\ Call(e, RESET, sealed) /\ used' = used /\ Returns(e, r)
  BY DEF Cancel
<1>2. ep[e] \in Endpoints(Ends, Cids) /\ s \in Sessions
  BY <1>1, CallFinds
<1>3. t \in Sessions /\ t.send_seq = s.send_seq /\ is_closed(t)
  BY <1>2 DEF build_reset, Sessions, is_closed
<1>4. Seals(ep[e], c, h, now, x, sealed, Remove(ep[e].sessions, c),
            Insert(ep[e].sessions, c, t), r)
  BY <1>2, ResetShape
<1>5. Seals(ep[e], c, h, now, x, sealed, Settled(ep[e].sessions, c, t),
            Insert(ep[e].sessions, c, t), r)
  BY <1>3, <1>4 DEF Settled
<1>6. /\ Saying(e, c, Kept(t), h) /\ delivered' = delivered
      /\ ep'[e].send_counter = ep[e].send_counter + 1
  <2> HIDE DEF t, r
  <2> QED
    BY <1>1, <1>3, <1>5, EndingSays
<1>7. Kept(t) = {}
  BY <1>3 DEF Kept
<1>8. s \in Held(e, c)
  BY <1>1, HeldOpen
<1>9. Speech(s, {}, h)
  BY <1>2, ResetSpeech
<1> HIDE DEF s, t, h
<1> QED
  BY <1>1, <1>6, <1>7, <1>8, <1>9, SpeechTold
-----------------------------------------------------------------------------
(***************************************************************************)
(* The next frame is opened.                                               *)
(***************************************************************************)

\* The transport is prompt: the next envelope is neither stale nor expired when it is due.
Prompt == \A e \in Ends : Pending(e) => Reaches(Upcoming(e), now)

\* The next envelope.
LEMMA NextLetter ==
  ASSUME Inv, NEW e \in Ends, Pending(e)
  PROVE  /\ delivered[e] + 1 \in DOMAIN log[e] /\ Upcoming(e) = log[e][delivered[e] + 1]
         /\ delivered[e] \in Nat
<1>1. /\ DOMAIN log[e] = 1 .. Len(log[e]) /\ Len(log[e]) \in Nat
      /\ delivered[e] \in Nat /\ delivered[e] < Len(log[e])
  BY EndTypes DEF Inv, Pending
<1> QED
  BY <1>1 DEF Upcoming

\* open_message opens the next envelope.
LEMMA NextOpened ==
  ASSUME Inv, Prompt, FreshIsNew,
         NEW e \in Ends, Pending(e), NEW o \in open_message(ep[e].guard, Upcoming(e), now)
  PROVE  o.verdict = "Opened"
<1> DEFINE env == Upcoming(e)
<1>1. delivered[e] + 1 \in DOMAIN log[e] /\ env = log[e][delivered[e] + 1]
  BY NextLetter
<1>2. env.payload \in Nat
  <2> DEFINE j == delivered[e] + 1
  <2>1. j \in DOMAIN log[e] /\ env = log[e][j]
    BY <1>1
  <2> HIDE DEF j, env
  <2> QED
    BY <2>1, LetterFields
<1>3. Reaches(env, now)
  BY DEF Prompt
<1>4. \A r \in Outcomes(e, env) : r.why # "Replay"
  <2>1. Fresh(Upcoming(e).timestamp_ms, now)
    BY <1>3 DEF Reaches
  <2> QED
    BY <2>1 DEF FreshIsNew
<1> HIDE DEF env
<1>5. o \in open_message(ep[e].guard, env, now)
  BY DEF env
<1>6. CASE RefusedAt(ep[e].guard, env, now, o)
  <2>1. o.verdict = "Replay"
    BY <1>3, <1>6 DEF RefusedAt
  <2>2. Dropped([ep[e] EXCEPT !.guard = o.guard], "Replay") \in Outcomes(e, env)
    BY <1>5, <2>1 DEF Outcomes, accept
  <2> QED
    BY <1>4, <2>2 DEF Dropped, Outcome
<1>7. ASSUME NEW E \in SUBSET DOMAIN ep[e].guard, AdmittedAt(ep[e].guard, env, now, E, o)
      PROVE  o.verdict = "Opened"
  BY <1>2, <1>7, PairAssumption DEF AdmittedAt
<1> QED
  BY <1>5, <1>6, <1>7, OpenVerdict
-----------------------------------------------------------------------------
(***************************************************************************)
(* What the next frame does.                                               *)
(***************************************************************************)

\* e reads envelope i, the next one, and it is about stream c.
Reads(e, i, c) ==
  /\ i = delivered[e] + 1 /\ i \in DOMAIN log[e] /\ c = log[e][i].correlation_id
  /\ delivered' = [delivered EXCEPT ![e] = @ + 1] /\ used' = used

\* What was read of the streams, then.
LEMMA ReadsNext ==
  ASSUME Inv, NEW e \in Ends, NEW i, NEW c, Reads(e, i, c), log'[e] = log[e]
  PROVE  /\ c \in Cids /\ i \in DOMAIN Mail(e, c) /\ Mail(e, c)[i] = log[e][i].stream
         /\ Next1(Mail(e, c), Read(e, c), i)
         /\ Read(e, c)' = Read(e, c) \cup {i}
         /\ \A d : d # c => Read(e, d)' = Read(e, d)
         /\ \A d : Mail(e, d)' = Mail(e, d)
         /\ delivered'[Peer(e)] = delivered[Peer(e)]
<1>1. delivered \in [Ends -> Nat] /\ delivered[e] \in Nat /\ Peer(e) # e /\ Peer(e) \in Ends
  BY PeerOf DEF Inv
<1>2. /\ i = delivered[e] + 1 /\ i \in DOMAIN log[e] /\ c = log[e][i].correlation_id
      /\ delivered'[e] = i /\ delivered'[Peer(e)] = delivered[Peer(e)] /\ i \in Nat
  BY <1>1 DEF Reads
<1>3. \A j \in DOMAIN log[e] : j \in Nat
  <2>1. log[e] \in Seq(Letters)
    BY DEF Inv
  <2> QED
    BY <2>1
<1>4. c \in Cids
  BY <1>2, LetterFields
<1>5. \A d : Mail(e, d)' = Mail(e, d)
  BY DEF Mail
<1>6. /\ \A d : DOMAIN Mail(e, d) = {j \in DOMAIN log[e] : log[e][j].correlation_id = d}
      /\ i \in DOMAIN Mail(e, c) /\ Mail(e, c)[i] = log[e][i].stream
  BY <1>2 DEF Mail
<1>7. \A d : Read(e, d) = {j \in DOMAIN Mail(e, d) : j <= delivered[e]}
  BY DEF Read
<1>8. \A d : Read(e, d)' = {j \in DOMAIN Mail(e, d) : j <= i}
  BY <1>2, <1>5 DEF Read
<1>9. \A j \in DOMAIN log[e] : j <= i <=> j <= delivered[e] \/ j = i
  BY <1>1, <1>2, <1>3
<1>10. Read(e, c)' = Read(e, c) \cup {i}
  <2> DEFINE D == DOMAIN Mail(e, c)
  <2>1. i \in D /\ \A j \in D : j <= i <=> j <= delivered[e] \/ j = i
    BY <1>6, <1>9
  <2>2. Read(e, c) = {j \in D : j <= delivered[e]} /\ Read(e, c)' = {j \in D : j <= i}
    BY <1>7, <1>8
  <2> HIDE DEF D
  <2> QED
    BY <2>1, <2>2
<1>11. ASSUME NEW d, d # c PROVE Read(e, d)' = Read(e, d)
  <2> DEFINE D == DOMAIN Mail(e, d)
  <2>1. D = {j \in DOMAIN log[e] : log[e][j].correlation_id = d}
    BY <1>6
  <2>2. i \notin D
    BY <1>2, <1>11, <2>1
  <2>3. \A j \in D : j <= i <=> j <= delivered[e]
    BY <1>9, <2>1, <2>2
  <2>4. Read(e, d) = {j \in D : j <= delivered[e]} /\ Read(e, d)' = {j \in D : j <= i}
    BY <1>7, <1>8
  <2> HIDE DEF D
  <2> QED
    BY <2>3, <2>4
<1>12. Next1(Mail(e, c), Read(e, c), i)
  <2>1. ~(i <= delivered[e]) /\ \A j \in DOMAIN log[e] : j < i => j <= delivered[e]
    BY <1>1, <1>2, <1>3
  <2> QED
    BY <1>6, <1>7, <2>1 DEF Next1
<1> QED
  BY <1>2, <1>4, <1>5, <1>6, <1>10, <1>11, <1>12

\* A frame that is read without an answer.
LEMMA ListenTold ==
  ASSUME Inv, AllTold, NEW e \in Ends, NEW i, NEW c, Reads(e, i, c), log' = log,
         Touches(e, c, ep'[e].send_counter, ep'[e].guard), NEW J, Held(e, c)' = J,
         c \in CidsOf[e] =>
           Story(J, Mail(e, c), Read(e, c) \cup {i},
                 Held(Peer(e), c), Mail(Peer(e), c), Read(Peer(e), c)),
         c \in CidsOf[Peer(e)] =>
           Story(Held(Peer(e), c), Mail(Peer(e), c), Read(Peer(e), c),
                 J, Mail(e, c), Read(e, c) \cup {i})
  PROVE  AllTold'
<1> DEFINE p == Peer(e)
<1>1. /\ c \in Cids /\ Read(e, c)' = Read(e, c) \cup {i}
      /\ \A d : d # c => Read(e, d)' = Read(e, d)
      /\ \A d : Mail(e, d)' = Mail(e, d)
      /\ delivered'[p] = delivered[p]
  BY ReadsNext
<1>2. \A d : Mail(p, d)' = Mail(p, d)
  BY DEF Mail
<1>3. \A d : Read(p, d)' = Read(p, d)
  BY <1>1, <1>2 DEF Read
<1>4. /\ \A d \in Cids \ {c} : Held(e, d)' = Held(e, d)
      /\ \A d : Held(p, d)' = Held(p, d)
  BY <1>1, HeldKept
<1>5. \A d \in Cids \ {c} : Same(e, d) /\ Same(p, d)
  BY <1>1, <1>2, <1>3, <1>4 DEF Same
<1>6. used' = used
  BY DEF Reads
<1>7. CASE c \in CidsOf[e]
  <2>1. c \in used[e] <=> DOMAIN Mail(p, c) # {}
    BY <1>7, ToldBoxed
  <2>2. Told(e, c)'
    BY <1>1, <1>2, <1>3, <1>4, <1>6, <1>7, <2>1 DEF Told
  <2> QED
    BY <1>1, <1>5, <1>6, <1>7, <2>2, OthersTold, OpenerOf, PeerOf DEF AllTold
<1>8. CASE c \in CidsOf[p] /\ p \in Ends /\ Peer(p) = e
  <2>1. c \in used[p] <=> DOMAIN Mail(Peer(p), c) # {}
    <3> HIDE DEF p
    <3> QED
      BY <1>8, ToldBoxed
  <2>2. Told(p, c)'
    BY <1>1, <1>2, <1>3, <1>4, <1>6, <1>8, <2>1 DEF Told
  <2> QED
    BY <1>1, <1>5, <1>6, <1>8, <2>2, OthersTold, OpenerOf, PeerOf DEF AllTold
<1> QED
  BY <1>1, <1>7, <1>8, OpenerOf

\* A frame that is read and answered.
LEMMA AnswerTold ==
  ASSUME Inv, AllTold, NEW e \in Ends, NEW i, NEW c, Reads(e, i, c), NEW J, NEW h,
         Saying(e, c, J, h), c \notin CidsOf[e],
         \A L, n : Adds(L, Mail(Peer(e), c), n, h) =>
           Story(Held(Peer(e), c), L, Read(Peer(e), c),
                 J, Mail(e, c), Read(e, c) \cup {i})
  PROVE  AllTold'
<1> DEFINE p == Peer(e)
           n == Len(log[p]) + 1
<1>1. log'[e] = log[e]
  <2>1. PICK l \in Letters : log' = [log EXCEPT ![Peer(e)] = @ \o <<l>>]
    BY DEF Saying, Writes
  <2> QED
    BY <2>1, WritesLog
<1>2. /\ c \in Cids /\ Read(e, c)' = Read(e, c) \cup {i}
      /\ \A d : d # c => Read(e, d)' = Read(e, d)
      /\ delivered'[p] = delivered[p]
  BY <1>1, ReadsNext
<1>3. /\ Held(e, c)' = J /\ \A d \in Cids \ {c} : Held(e, d)' = Held(e, d)
      /\ \A d : Held(p, d)' = Held(p, d)
      /\ Adds(Mail(p, c)', Mail(p, c), n, h)
      /\ \A d : Mail(e, d)' = Mail(e, d)
      /\ \A d : d # c => Mail(p, d)' = Mail(p, d)
  BY <1>2, SayingShape
<1>4. p \in Ends /\ Peer(p) = e /\ c \in CidsOf[p]
  BY <1>2, OpenerOf
<1>5. Read(p, c)' = Read(p, c)
  BY <1>2, <1>3, <1>4, ReadUnposted
<1>6. ASSUME NEW d \in Cids \ {c} PROVE Same(e, d) /\ Same(p, d)
  <2>1. Mail(p, d)' = Mail(p, d)
    BY <1>3
  <2>2. Read(p, d)' = Read(p, d)
    BY <1>2, <2>1, ReadKept
  <2>3. Held(e, d)' = Held(e, d) /\ Held(p, d)' = Held(p, d) /\ Mail(e, d)' = Mail(e, d)
    BY <1>3
  <2>4. Read(e, d)' = Read(e, d)
    BY <1>2
  <2> QED
    BY <2>1, <2>2, <2>3, <2>4 DEF Same
<1>7. used' = used
  BY DEF Reads
<1>8. Story(Held(p, c), Mail(p, c)', Read(p, c), J, Mail(e, c), Read(e, c) \cup {i})
  BY <1>3
<1>9. c \in used[p] <=> DOMAIN Mail(Peer(p), c) # {}
  <2> HIDE DEF p
  <2> QED
    BY <1>4, ToldBoxed
<1> HIDE DEF n
<1>10. Told(p, c)'
  BY <1>2, <1>3, <1>4, <1>5, <1>7, <1>8, <1>9 DEF Told
<1> QED
  BY <1>2, <1>4, <1>6, <1>7, <1>10, OthersTold, OpenerOf, PeerOf DEF AllTold

\* The end's table of streams is t afterwards, its counter n and its guard g; it posts q.
Reacts(e, t, n, g, q) ==
  /\ ep' = [ep EXCEPT ![e] = With(ep[e], t, n, g)]
  /\ log' = [log EXCEPT ![Peer(e)] = @ \o q]

\* What accept does with an envelope on stream c with header h that was opened: nothing,
\* or what the session says, or a RESET.
Reaction(e, c, h, g) ==
  LET t == ep[e].sessions
      n == ep[e].send_counter
      q == Sends(ep[e], c, header(RESET, 0, 0), 0, now, 0, TRUE)
  IN  \/ c \notin Live(ep[e]) /\ h.frame # OPEN /\ Reacts(e, t, n, g, <<>>)
      \/ c \in Live(ep[e]) /\ h.frame = RESET /\ Reacts(e, Remove(t, c), n, g, <<>>)
      \/ c \in Live(ep[e]) /\ h.frame \notin {OPEN, RESET} /\ Legal(t[c], h)
           /\ Reacts(e, Settled(t, c, on_recv(t[c], h)), n, g, <<>>)
      \/ c \notin Live(ep[e]) /\ ~Full(ep[e]) /\ h.frame = OPEN
           /\ Reacts(e, Insert(t, c, responder(h.window)), n, g, <<>>)
      \/ c \notin Live(ep[e]) /\ h.frame = OPEN /\ Reacts(e, t, n + 1, g, q)
      \/ c \in Live(ep[e]) /\ h.frame # RESET /\ (h.frame = OPEN \/ ~Legal(t[c], h))

\* The guard's advance, of one of the two ends.
LEMMA AdvancedOne ==
  ASSUME NEW x \in Endpoints(Ends, Cids), NEW o, Advanced(x, o) \in Endpoints(Ends, Cids)
  PROVE  /\ Advanced(x, o).sessions = x.sessions /\ Advanced(x, o).guard = o.guard
         /\ Advanced(x, o).send_counter = x.send_counter
         /\ Live(Advanced(x, o)) = Live(x) /\ (Full(Advanced(x, o)) <=> Full(x))
         /\ o.guard \in Maps(Ends \X {0}, UsedWindows)
<1> DEFINE f == Advanced(x, o)
<1>1. /\ f.sessions = x.sessions /\ f.guard = o.guard /\ f.send_counter = x.send_counter
      /\ f.max_concurrent = x.max_concurrent
  BY WithFields DEF Advanced
<1>2. f.guard \in Maps(Ends \X {0}, UsedWindows)
  BY EndpointType
<1> HIDE DEF f
<1>3. Live(f) = Live(x) /\ (Full(f) <=> Full(x))
  BY <1>1 DEF Live, Full
<1> QED
  BY <1>1, <1>2, <1>3 DEF f

\* A delivery is one of those.
LEMMA DeliverReacts ==
  ASSUME Inv, Prompt, FreshIsNew,
         FailingFrames = {}, NEW e \in Ends, Deliver(e)
  PROVE  \E i \in DOMAIN log[e], g \in Maps(Ends \X {0}, UsedWindows) :
           /\ Reads(e, i, log[e][i].correlation_id)
           /\ Reaction(e, log[e][i].correlation_id, log[e][i].stream, g)
           /\ ep[e].send_counter < U64_MAX /\ now' = now
<1> DEFINE i == delivered[e] + 1
           env == log[e][i]
           c == env.correlation_id
           h == env.stream
<1>1. Pending(e) /\ i \in DOMAIN log[e] /\ Upcoming(e) = env
  BY NextLetter DEF Deliver
<1>2. PICK sealed \in BOOLEAN : Accept(e, env, sealed)
  BY <1>1 DEF Deliver
<1>3. ep[e].send_counter < U64_MAX
  BY <1>2 DEF Accept
<1>4. PICK r \in accept(ep[e], env, now, sealed) :
        /\ Returns(e, r) /\ Sealing(RESET, sealed)
        /\ now' = now /\ used' = used
  BY <1>2 DEF Accept
<1>5. sealed = TRUE
  BY <1>4, SealingCounts
<1>6. PICK o \in open_message(ep[e].guard, env, now) :
        /\ Advanced(ep[e], o) \in Endpoints(Ends, Cids)
        /\ AcceptedAs(ep[e], env, now, TRUE, o, r)
  BY <1>1, <1>4, <1>5, LetterOutcome
<1>7. o.verdict = "Opened"
  BY <1>1, NextOpened
<1> DEFINE f == Advanced(ep[e], o)
           g == o.guard
<1>8. ep[e] \in Endpoints(Ends, Cids)
  BY EndTypes
<1>9. /\ f.sessions = ep[e].sessions /\ f.guard = g /\ f.send_counter = ep[e].send_counter
      /\ Live(f) = Live(ep[e]) /\ (Full(f) <=> Full(ep[e]))
      /\ g \in Maps(Ends \X {0}, UsedWindows)
      /\ \A u, m : With(f, u, m, f.guard) = With(ep[e], u, m, g)
      /\ \A d, hdr, now_ms, b : Sends(f, d, hdr, 0, now_ms, 0, b)
                                  = Sends(ep[e], d, hdr, 0, now_ms, 0, b)
  <2> DEFINE x == ep[e]
  <2>1. x \in Endpoints(Ends, Cids) /\ Advanced(x, o) \in Endpoints(Ends, Cids)
    BY <1>6, <1>8
  <2> HIDE DEF x, env
  <2>2. /\ Advanced(x, o).sessions = x.sessions /\ Advanced(x, o).guard = o.guard
        /\ Advanced(x, o).send_counter = x.send_counter
        /\ Live(Advanced(x, o)) = Live(x) /\ (Full(Advanced(x, o)) <=> Full(x))
        /\ o.guard \in Maps(Ends \X {0}, UsedWindows)
    BY <2>1, AdvancedOne
  <2>3. ASSUME NEW u, NEW m
        PROVE  With(Advanced(x, o), u, m, Advanced(x, o).guard) = With(x, u, m, o.guard)
    BY <2>1, <2>2, WithWith DEF Advanced
  <2>4. ASSUME NEW d, NEW hdr, NEW now_ms, NEW b
        PROVE  Sends(Advanced(x, o), d, hdr, 0, now_ms, 0, b) = Sends(x, d, hdr, 0, now_ms, 0, b)
    <3>1. /\ Advanced(x, o).local_did = x.local_did
          /\ Advanced(x, o).local_epoch = x.local_epoch
      BY <2>1, WithFields DEF Advanced
    <3> QED
      BY <2>2, <3>1 DEF Sends, Sealed
  <2> QED
    BY <2>2, <2>3, <2>4 DEF x
<1> DEFINE t == ep[e].sessions
           n == ep[e].send_counter
           q == Sends(ep[e], c, header(RESET, 0, 0), 0, now, 0, TRUE)
<1>10. f = With(ep[e], t, n, g)
  BY DEF Advanced
<1>11. FromPeer(f, env)
  <2> HIDE DEF i
  <2>1. env \in Letters /\ env.stream \in Headers /\ env.stream.frame \in KnownFrames
    BY <1>1, LetterFields
  <2>2. env.sender = Peer(e)
    BY <1>1 DEF Inv
  <2>3. f.peer_did = Peer(e)
    BY <1>8, EndTypes, WithFields DEF Advanced
  <2> QED
    BY <2>1, <2>2, <2>3, NoStreamAssumption DEF FromPeer, Letters
<1>12. Reads(e, i, c)
  BY <1>1, <1>4 DEF Reads, Deliver
<1> SUFFICES Reaction(e, c, h, g)
  <2> HIDE DEF i, g
  <2> QED
    BY <1>1, <1>3, <1>4, <1>9, <1>12
<1>13. ASSUME NEW u, NEW m, NEW p, r.ep = With(ep[e], u, m, g), r.sent = p
       PROVE  Reacts(e, u, m, g, p)
  BY <1>4, <1>13 DEF Returns, Reacts
<1> HIDE DEF f, g, i
<1>14. CASE Ignores(f, env, r)
  <2>1. c \notin Live(ep[e]) /\ h.frame # OPEN /\ r.ep = With(ep[e], t, n, g) /\ r.sent = <<>>
    BY <1>9, <1>10, <1>11, <1>14 DEF Ignores
  <2>2. Reacts(e, t, n, g, <<>>)
    BY <1>13, <2>1
  <2> QED
    BY <2>1, <2>2 DEF Reaction
<1>15. CASE OnReset(f, env, r)
  <2>1. c \in Live(ep[e]) /\ h.frame = RESET /\ r.ep = With(ep[e], Remove(t, c), n, g) /\ r.sent = <<>>
    BY <1>9, <1>15 DEF OnReset, Reports
  <2>2. Reacts(e, Remove(t, c), n, g, <<>>)
    BY <1>13, <2>1
  <2> QED
    BY <2>1, <2>2 DEF Reaction
<1>16. CASE OnOpen(f, env, now, TRUE, r)
  <2>1. h.frame = OPEN /\ OPEN # RESET
    BY <1>16 DEF OnOpen, OPEN, RESET
  <2>2. CASE c \in Live(ep[e])
    BY <2>1, <2>2 DEF Reaction
  <2>3. CASE c \notin Live(f) /\ Full(f) /\ Rejects(f, env, now, TRUE, r, "StreamLimit", f.sessions)
    <3>1. r.ep = With(ep[e], t, n + 1, g) /\ c \notin Live(ep[e])
      BY <1>9, <2>3 DEF Rejects
    <3>2. r.sent = Sends(f, c, header(RESET, 0, 0), 0, now, 0, TRUE)
      BY <2>3 DEF Rejects
    <3>3. Sends(f, c, header(RESET, 0, 0), 0, now, 0, TRUE) = q
      BY <1>9
    <3>4. Reacts(e, t, n + 1, g, q)
      BY <1>13, <3>1, <3>2, <3>3
    <3> QED
      BY <2>1, <3>1, <3>4 DEF Reaction
  <2>4. CASE /\ c \notin Live(f) /\ ~Full(f)
             /\ Reports(f, r, "Opened", Insert(f.sessions, c, responder(h.window)))
    <3>1. /\ r.ep = With(ep[e], Insert(t, c, responder(h.window)), n, g) /\ r.sent = <<>>
          /\ c \notin Live(ep[e]) /\ ~Full(ep[e])
      BY <1>9, <2>4 DEF Reports
    <3>2. Reacts(e, Insert(t, c, responder(h.window)), n, g, <<>>)
      BY <1>13, <3>1
    <3> QED
      BY <2>1, <3>1, <3>2 DEF Reaction
  <2> QED
    BY <1>9, <1>16, <2>2, <2>3, <2>4 DEF OnOpen
<1>17. CASE OnOther(f, env, now, TRUE, r)
  <2>1. h.frame \notin {OPEN, RESET} /\ c \in Live(ep[e])
    BY <1>9, <1>17 DEF OnOther
  <2>2. CASE ~Legal(t[c], h)
    BY <2>1, <2>2 DEF Reaction
  <2>3. CASE Legal(t[c], h)
    <3>1. r.ep = With(ep[e], Settled(t, c, on_recv(t[c], h)), n, g) /\ r.sent = <<>>
      BY <1>9, <1>17, <2>3 DEF OnOther, Reports
    <3>2. Reacts(e, Settled(t, c, on_recv(t[c], h)), n, g, <<>>)
      BY <1>13, <3>1
    <3> QED
      BY <2>1, <2>3, <3>2 DEF Reaction
  <2> QED
    BY <2>2, <2>3
<1>18. \/ Ignores(f, env, r) \/ OnReset(f, env, r)
       \/ OnOpen(f, env, now, TRUE, r) \/ OnOther(f, env, now, TRUE, r)
  BY <1>6, <1>7 DEF AcceptedAs, f
<1> QED
  BY <1>14, <1>15, <1>16, <1>17, <1>18

\* The next envelope is the next frame of its stream.
LEMMA NextFrame ==
  ASSUME Inv, NEW e \in Ends, NEW i, i = delivered[e] + 1, i \in DOMAIN log[e],
         NEW c, c = log[e][i].correlation_id
  PROVE  /\ c \in Cids /\ i \in DOMAIN Mail(e, c) /\ Mail(e, c)[i] = log[e][i].stream
         /\ Next1(Mail(e, c), Read(e, c), i)
<1>1. delivered[e] \in Nat /\ log[e] \in Seq(Letters)
  BY DEF Inv
<1>2. \A j \in DOMAIN log[e] : j \in Nat
  BY <1>1
<1>3. c \in Cids
  BY LetterFields
<1>4. /\ DOMAIN Mail(e, c) = {j \in DOMAIN log[e] : log[e][j].correlation_id = c}
      /\ i \in DOMAIN Mail(e, c) /\ Mail(e, c)[i] = log[e][i].stream
  BY DEF Mail
<1>5. Read(e, c) = {j \in DOMAIN Mail(e, c) : j <= delivered[e]}
  BY DEF Read
<1>6. ~(i <= delivered[e]) /\ \A j \in DOMAIN log[e] : j < i => j <= delivered[e]
  BY <1>1, <1>2
<1> QED
  BY <1>3, <1>4, <1>5, <1>6 DEF Next1

\* A stream, from the end that answers it.
LEMMA ToldAnswerer ==
  ASSUME Inv, AllTold, NEW e \in Ends, NEW c \in CidsOf[Peer(e)]
  PROVE  /\ Boxed(Held(e, c), Mail(e, c), Read(e, c))
         /\ Boxed(Held(Peer(e), c), Mail(Peer(e), c), Read(Peer(e), c))
         /\ Story(Held(Peer(e), c), Mail(Peer(e), c), Read(Peer(e), c),
                  Held(e, c), Mail(e, c), Read(e, c))
<1> DEFINE p == Peer(e)
<1>1. p \in Ends /\ Peer(p) = e
  BY PeerOf
<1>2. /\ Boxed(Held(p, c), Mail(p, c), Read(p, c))
      /\ Boxed(Held(Peer(p), c), Mail(Peer(p), c), Read(Peer(p), c))
      /\ Story(Held(p, c), Mail(p, c), Read(p, c),
               Held(Peer(p), c), Mail(Peer(p), c), Read(Peer(p), c))
  <2>1. c \in CidsOf[p]
    OBVIOUS
  <2> HIDE DEF p
  <2> QED
    BY <1>1, <2>1, ToldBoxed
<1> QED
  BY <1>1, <1>2

\* The session of its stream takes the next frame, or is ended by it.
LEMMA NextWelcome ==
  ASSUME Inv, AllTold, NEW e \in Ends, NEW i, i = delivered[e] + 1, i \in DOMAIN log[e],
         NEW c, c = log[e][i].correlation_id, c \in Live(ep[e])
  PROVE  Welcome(ep[e].sessions[c], log[e][i].stream)
<1> DEFINE M == Mail(e, c)
           s == ep[e].sessions[c]
<1>1. c \in Cids /\ M[i] = log[e][i].stream /\ Next1(M, Read(e, c), i)
  BY NextFrame
<1>2. s \in Held(e, c)
  BY HeldIs
<1> HIDE DEF M, s
<1>3. CASE c \in CidsOf[e]
  <2>1. Welcome(s, M[i])
    BY <1>1, <1>2, <1>3, ToldBoxed, OpenerTakes DEF M
  <2> QED
    BY <1>1, <2>1 DEF s
<1>4. CASE c \in CidsOf[Peer(e)]
  <2>1. Welcome(s, M[i])
    BY <1>1, <1>2, <1>4, ToldAnswerer, AnswererTakes DEF M
  <2> QED
    BY <1>1, <2>1 DEF s
<1> QED
  BY <1>1, <1>3, <1>4, OpenerOf

\* An OPEN is a frame of a stream the peer opened, and the end does not have it.
LEMMA NextOpen ==
  ASSUME Inv, AllTold, NEW e \in Ends, NEW i, i = delivered[e] + 1, i \in DOMAIN log[e],
         NEW c, c = log[e][i].correlation_id, log[e][i].stream.frame = OPEN
  PROVE  c \in CidsOf[Peer(e)] /\ c \notin CidsOf[e]
<1> DEFINE M == Mail(e, c)
<1>1. c \in Cids /\ M[i] = log[e][i].stream /\ i \in DOMAIN M
  BY NextFrame
<1>2. ASSUME c \in CidsOf[e] PROVE FALSE
  <2>1. Story(Held(e, c), M, Read(e, c), Held(Peer(e), c), Mail(Peer(e), c), Read(Peer(e), c))
    BY <1>2, ToldBoxed
  <2>2. M[i].frame # OPEN
    BY <1>1, <2>1 DEF Story, Handshake
  <2> QED
    BY <1>1, <2>2
<1> QED
  BY <1>1, <1>2, OpenerOf

\* Nothing is posted.
LEMMA NothingPosted ==
  ASSUME Inv, NEW e \in Ends, log' = [log EXCEPT ![Peer(e)] = @ \o <<>>]
  PROVE  log' = log
<1>1. log \in [Ends -> Seq(Letters)] /\ log[Peer(e)] \in Seq(Letters)
  BY PeerOf DEF Inv
<1>2. log[Peer(e)] \o <<>> = log[Peer(e)]
  BY <1>1, ConcatEmptySeq
<1> QED
  BY <1>1, <1>2

\* A frame that the session of its stream takes, or that ends it.
LEMMA HeardTold ==
  ASSUME Inv, AllTold, NEW e \in Ends, NEW i, NEW c, Reads(e, i, c), log' = log,
         Touches(e, c, ep'[e].send_counter, ep'[e].guard), c \in Live(ep[e]),
         NEW J, Held(e, c)' = J, Hearing(ep[e].sessions[c], J, log[e][i].stream)
  PROVE  AllTold'
<1> DEFINE M == Mail(e, c)
           s == ep[e].sessions[c]
<1>1. M[i] = log[e][i].stream /\ Next1(M, Read(e, c), i)
  BY NextFrame DEF Reads
<1>2. s \in Held(e, c)
  BY HeldIs
<1>3. Hearing(s, J, M[i])
  BY <1>1
<1> HIDE DEF M, s
<1>4. ASSUME c \in CidsOf[e]
      PROVE  Story(J, Mail(e, c), Read(e, c) \cup {i},
                   Held(Peer(e), c), Mail(Peer(e), c), Read(Peer(e), c))
  BY <1>1, <1>2, <1>3, <1>4, ToldBoxed, OpenerHears DEF M
<1>5. ASSUME c \in CidsOf[Peer(e)]
      PROVE  Story(Held(Peer(e), c), Mail(Peer(e), c), Read(Peer(e), c),
                   J, Mail(e, c), Read(e, c) \cup {i})
  BY <1>1, <1>2, <1>3, <1>5, ToldAnswerer, AnswererHears DEF M
<1> QED
  BY <1>4, <1>5, ListenTold

\* A frame of a stream that is not there.
LEMMA IgnoredTold ==
  ASSUME Inv, AllTold, NEW e \in Ends, NEW i, NEW c, Reads(e, i, c), log' = log,
         Touches(e, c, ep'[e].send_counter, ep'[e].guard), c \notin Live(ep[e]),
         Held(e, c)' = {}, log[e][i].stream.frame # OPEN
  PROVE  AllTold'
<1> DEFINE M == Mail(e, c)
<1>1. M[i] = log[e][i].stream /\ Next1(M, Read(e, c), i)
  BY NextFrame DEF Reads
<1>2. Held(e, c) = {}
  BY HeldIs
<1> HIDE DEF M
<1>3. ASSUME c \in CidsOf[e]
      PROVE  Story({}, Mail(e, c), Read(e, c) \cup {i},
                   Held(Peer(e), c), Mail(Peer(e), c), Read(Peer(e), c))
  BY <1>2, <1>3, ToldBoxed, OpenerIgnores
<1>4. ASSUME c \in CidsOf[Peer(e)]
      PROVE  Story(Held(Peer(e), c), Mail(Peer(e), c), Read(Peer(e), c),
                   {}, Mail(e, c), Read(e, c) \cup {i})
  BY <1>1, <1>2, <1>4, ToldAnswerer, AnswererIgnores DEF M
<1> QED
  BY <1>3, <1>4, ListenTold

\* The streams of an end of which the table says what it said.
LEMMA Unmoved ==
  ASSUME Inv, NEW e \in Ends, NEW c \in Cids, NEW n, NEW g, Touches(e, c, n, g)
  PROVE  Touches(e, c, ep'[e].send_counter, ep'[e].guard)
<1>1. ep'[e].send_counter = n /\ ep'[e].guard = g
  BY DEF Touches
<1> QED
  BY <1>1

\* A step of e on stream c that permits its peer no more than before.
NoGrant(e, c) ==
  /\ Touches(e, c, ep'[e].send_counter, ep'[e].guard)
  /\ ep[e].send_counter <= ep'[e].send_counter
  /\ \A t \in Held(e, c)' : Permits(t) = 0 \/ \E s \in Held(e, c) : Permits(t) = Permits(s)

\* A session that is stored, or dropped, without a frame being sealed.
LEMMA StoredHeld ==
  ASSUME Inv, NEW e \in Ends, NEW c \in Cids, NEW s \in Sessions,
         s.send_seq <= ep[e].send_counter, NEW g \in Maps(Ends \X {0}, UsedWindows),
         c \in Live(ep[e]) \/ ~Full(ep[e]),
         ep' = [ep EXCEPT ![e] = With(ep[e], Insert(ep[e].sessions, c, s), ep[e].send_counter, g)]
  PROVE  /\ Touches(e, c, ep'[e].send_counter, ep'[e].guard) /\ Held(e, c)' = {s}
         /\ ep'[e].send_counter = ep[e].send_counter
<1> DEFINE n == ep[e].send_counter
<1>1. n \in Nat /\ ep[e].send_counter <= n /\ n <= U64_MAX /\ s.send_seq <= n
  <2>1. n \in Nat /\ Good(e, ep[e])
    BY EndTypes
  <2> QED
    BY <2>1 DEF Good
<1>2. ep' = [ep EXCEPT ![e] = With(ep[e], Insert(ep[e].sessions, c, s), n, g)]
  OBVIOUS
<1> HIDE DEF n
<1>3. Touches(e, c, n, g) /\ c \in Live(ep'[e]) /\ ep'[e].sessions[c] = s
  BY <1>1, <1>2, StoreStream, ZenonT(40)
<1>4. ep'[e].send_counter = ep[e].send_counter
  BY <1>3 DEF Touches, n
<1> QED
  BY <1>3, <1>4, HeldIs, Unmoved

\* The session that is left of a stream without a frame being sealed.
LEMMA SettledHeld ==
  ASSUME Inv, NEW e \in Ends, NEW c \in Cids, NEW s \in Sessions,
         s.send_seq <= ep[e].send_counter, NEW g \in Maps(Ends \X {0}, UsedWindows),
         c \in Live(ep[e]),
         ep' = [ep EXCEPT ![e] = With(ep[e], Settled(ep[e].sessions, c, s), ep[e].send_counter, g)]
  PROVE  /\ Touches(e, c, ep'[e].send_counter, ep'[e].guard) /\ Held(e, c)' = Kept(s)
         /\ ep'[e].send_counter = ep[e].send_counter
<1>1. CASE is_closed(s)
  <2> DEFINE n == ep[e].send_counter
  <2>1. n \in Nat /\ ep[e].send_counter <= n /\ n <= U64_MAX
    <3>1. n \in Nat /\ Good(e, ep[e])
      BY EndTypes
    <3> QED
      BY <3>1 DEF Good
  <2>2. ep' = [ep EXCEPT ![e] = With(ep[e], Remove(ep[e].sessions, c), n, g)]
    BY <1>1 DEF Settled
  <2> HIDE DEF n
  <2>3. Touches(e, c, n, g) /\ c \notin Live(ep'[e])
    BY <2>1, <2>2, DropStream
  <2>4. ep'[e].send_counter = ep[e].send_counter
    BY <2>3 DEF Touches, n
  <2> QED
    BY <1>1, <2>3, <2>4, HeldIs, Unmoved DEF Kept
<1>2. CASE ~is_closed(s)
  <2>1. ep' = [ep EXCEPT ![e] = With(ep[e], Insert(ep[e].sessions, c, s), ep[e].send_counter, g)]
    BY <1>2 DEF Settled
  <2>2. /\ Touches(e, c, ep'[e].send_counter, ep'[e].guard) /\ Held(e, c)' = {s}
        /\ ep'[e].send_counter = ep[e].send_counter
    BY <2>1, StoredHeld
  <2> QED
    BY <1>2, <2>2 DEF Kept
<1> QED
  BY <1>1, <1>2

\* A frame its session takes.
LEMMA TakenTold ==
  ASSUME Inv, AllTold, NEW e \in Ends, NEW i, NEW c, Reads(e, i, c), c \in Live(ep[e]),
         NEW g \in Maps(Ends \X {0}, UsedWindows), log' = log,
         log[e][i].stream.frame \notin {OPEN, RESET}, Legal(ep[e].sessions[c], log[e][i].stream),
         ep' = [ep EXCEPT ![e] =
                  With(ep[e], Settled(ep[e].sessions, c,
                                      on_recv(ep[e].sessions[c], log[e][i].stream)),
                       ep[e].send_counter, g)]
  PROVE  AllTold' /\ NoGrant(e, c)
<1> DEFINE s == ep[e].sessions[c]
           h == log[e][i].stream
           t == on_recv(s, h)
           n == ep[e].send_counter
<1>1. c \in Cids /\ i \in DOMAIN log[e] /\ i = delivered[e] + 1 /\ c = log[e][i].correlation_id
  BY NextFrame DEF Reads
<1>2. /\ h \in Headers /\ h.seq < U64_MAX /\ h.window \in U32 /\ h.frame \in KnownFrames
  BY <1>1, LetterFields
<1>3. s \in Sessions /\ ~is_closed(s)
  BY <1>1, HeldOpen
<1>4. h.frame \in {OPEN_ACK, DATA, CREDIT, CLOSE} /\ (h.frame = OPEN_ACK => s.send_credit = 0)
  <2>1. Welcome(s, h)
    BY <1>1, NextWelcome
  <2> QED
    BY <2>1 DEF Welcome
<1>5. Legal(s, h) /\ ep' = [ep EXCEPT ![e] = With(ep[e], Settled(ep[e].sessions, c, t), n, g)]
  OBVIOUS
<1>6. n \in Nat /\ n <= n /\ n <= U64_MAX /\ s.send_seq <= n
  <2>1. n \in Nat /\ Good(e, ep[e]) /\ s.send_seq <= n
    BY EndTypes
  <2> QED
    BY <2>1 DEF Good
<1> HIDE DEF s, h, n
<1>7. t \in Sessions /\ t.send_seq = s.send_seq
  <2>1. h.frame \in KnownFrames \ {OPEN, RESET}
    BY <1>2, <1>4 DEF OPEN, OPEN_ACK, DATA, CREDIT, CLOSE, RESET
  <2> QED
    BY <1>2, <1>3, <1>5, <2>1, RecvType, RecvSeqs
<1>8. Hearing(s, Kept(t), h)
  BY <1>2, <1>3, <1>4, <1>5, LegalHearing
<1> HIDE DEF t
<1>9. /\ Touches(e, c, ep'[e].send_counter, ep'[e].guard) /\ Held(e, c)' = Kept(t)
      /\ ep'[e].send_counter = n
  <2>1. t.send_seq <= ep[e].send_counter
    BY <1>6, <1>7 DEF n
  <2>2. ep' = [ep EXCEPT ![e] = With(ep[e], Settled(ep[e].sessions, c, t), ep[e].send_counter, g)]
    BY <1>5 DEF n
  <2> QED
    BY <1>1, <1>7, <2>1, <2>2, SettledHeld DEF n
<1>10. Hearing(ep[e].sessions[c], Kept(t), log[e][i].stream)
  BY <1>8 DEF s, h
<1>11. NoGrant(e, c)
  <2>1. s \in Held(e, c)
    BY HeldIs DEF s
  <2>2. \A u \in Kept(t) : Permits(u) = Permits(s)
    BY <1>8 DEF Hearing, Learns
  <2> QED
    BY <1>6, <1>9, <2>1, <2>2 DEF NoGrant, n
<1> QED
  BY <1>9, <1>10, <1>11, HeardTold

\* An OPEN that is taken.
LEMMA OpenedTold ==
  ASSUME Inv, AllTold, NEW e \in Ends, NEW i, NEW c, Reads(e, i, c),
         c \notin Live(ep[e]), ~Full(ep[e]), NEW g \in Maps(Ends \X {0}, UsedWindows), log' = log,
         log[e][i].stream.frame = OPEN,
         ep' = [ep EXCEPT ![e] =
                  With(ep[e], Insert(ep[e].sessions, c, responder(log[e][i].stream.window)),
                       ep[e].send_counter, g)]
  PROVE  AllTold' /\ NoGrant(e, c)
<1> DEFINE M == Mail(e, c)
           w == log[e][i].stream.window
           t == responder(w)
           n == ep[e].send_counter
<1>1. /\ c \in Cids /\ i \in DOMAIN log[e] /\ i = delivered[e] + 1 /\ c = log[e][i].correlation_id
      /\ M[i] = log[e][i].stream /\ Next1(M, Read(e, c), i)
  BY NextFrame DEF Reads
<1>2. w \in U32 /\ w \in U64 /\ 0 \in U64
  <2>1. w \in U32
    BY <1>1, LetterFields
  <2> HIDE DEF w
  <2> QED
    BY <2>1, MachineAssumption DEF U32, U64
<1>3. t \in Sessions /\ t.send_seq = 0 /\ Permits(t) = 0
  BY <1>2 DEF responder, NewSession, Sessions, Permits
<1>4. n \in Nat /\ n <= n /\ n <= U64_MAX
  <2>1. n \in Nat /\ Good(e, ep[e])
    BY EndTypes
  <2> QED
    BY <2>1 DEF Good
<1>5. ep' = [ep EXCEPT ![e] = With(ep[e], Insert(ep[e].sessions, c, t), n, g)]
  OBVIOUS
<1>6. c \in CidsOf[Peer(e)] /\ c \notin CidsOf[e]
  BY <1>1, NextOpen
<1>7. M[i].frame = OPEN /\ M[i].window = w
  BY <1>1
<1> HIDE DEF t, n
<1>8. /\ Held(e, c)' = {t} /\ Touches(e, c, ep'[e].send_counter, ep'[e].guard)
      /\ ep'[e].send_counter = ep[e].send_counter
  <2>1. t.send_seq <= ep[e].send_counter
    BY <1>3, <1>4 DEF n
  <2>2. ep' = [ep EXCEPT ![e] = With(ep[e], Insert(ep[e].sessions, c, t), ep[e].send_counter, g)]
    BY <1>5 DEF n
  <2>3. c \in Cids /\ t \in Sessions /\ (c \in Live(ep[e]) \/ ~Full(ep[e]))
    BY <1>1, <1>3
  <2> HIDE DEF M, w
  <2> QED
    BY <2>1, <2>2, <2>3, StoredHeld
<1>9. NoGrant(e, c)
  BY <1>3, <1>4, <1>8 DEF NoGrant, n
<1>10. Story(Held(Peer(e), c), Mail(Peer(e), c), Read(Peer(e), c), {t}, Mail(e, c), Read(e, c) \cup {i})
  <2> HIDE DEF w
  <2>1. Story(Held(Peer(e), c), Mail(Peer(e), c), Read(Peer(e), c),
              {responder(M[i].window)}, Mail(e, c), Read(e, c) \cup {i})
    BY <1>1, <1>6, <1>7, ToldAnswerer, AnswererOpens
  <2> QED
    BY <1>7, <2>1 DEF t
<1> QED
  BY <1>6, <1>8, <1>9, <1>10, ListenTold

\* An OPEN that is refused.
LEMMA RefusedTold ==
  ASSUME Inv, AllTold, NEW e \in Ends, NEW i, NEW c, Reads(e, i, c),
         c \notin Live(ep[e]), NEW g \in Maps(Ends \X {0}, UsedWindows),
         ep[e].send_counter < U64_MAX, log[e][i].stream.frame = OPEN,
         ep' = [ep EXCEPT ![e] = With(ep[e], ep[e].sessions, ep[e].send_counter + 1, g)],
         log' = [log EXCEPT ![Peer(e)] =
                   @ \o Sends(ep[e], c, header(RESET, 0, 0), 0, now, 0, TRUE)]
  PROVE  AllTold' /\ Writes(e, c, header(RESET, 0, 0)) /\ NoGrant(e, c)
<1> DEFINE M == Mail(e, c)
           h == header(RESET, 0, 0)
           n == ep[e].send_counter + 1
<1>1. /\ c \in Cids /\ i \in DOMAIN log[e] /\ i = delivered[e] + 1 /\ c = log[e][i].correlation_id
      /\ M[i] = log[e][i].stream /\ Next1(M, Read(e, c), i)
  BY NextFrame DEF Reads
<1>2. n \in Nat /\ ep[e].send_counter <= n /\ n <= U64_MAX
  BY OneMore
<1>3. h \in Headers /\ h.seq < U64_MAX /\ h.frame = RESET
  <2>1. 0 \in U32
    BY MachineAssumption DEF U32, U64
  <2>2. U64_MAX > 0
    BY <1>2, EndTypes, MachineAssumption
  <2> QED
    BY <2>1, <2>2, PlainHeader
<1>4. c \in CidsOf[Peer(e)] /\ c \notin CidsOf[e]
  BY <1>1, NextOpen
<1>5. ep' = [ep EXCEPT ![e] = With(ep[e], ep[e].sessions, n, g)]
      /\ log' = [log EXCEPT ![Peer(e)] = @ \o Sends(ep[e], c, h, 0, now, 0, TRUE)]
  OBVIOUS
<1> HIDE DEF h, n
<1>6. Writes(e, c, h)
  <2>1. 0 \in Expiries
    BY DEF Expiries
  <2> QED
    BY <1>1, <1>3, <1>5, <2>1, SealedWrites
<1>7. Touches(e, c, n, g) /\ ep'[e].sessions = ep[e].sessions
  BY <1>1, <1>2, <1>5, LeaveStreams
<1>8. Held(e, c)' = {} /\ Touches(e, c, ep'[e].send_counter, ep'[e].guard)
  <2>1. c \notin Live(ep'[e])
    BY <1>7 DEF Live
  <2> QED
    BY <1>1, <1>7, <2>1, HeldIs, Unmoved
<1>9. Saying(e, c, {}, h)
  BY <1>6, <1>8 DEF Saying
<1>10. ASSUME NEW L, NEW k, Adds(L, Mail(Peer(e), c), k, h)
       PROVE  Story(Held(Peer(e), c), L, Read(Peer(e), c), {}, Mail(e, c), Read(e, c) \cup {i})
  <2>1. M[i].frame = OPEN
    BY <1>1
  <2> QED
    BY <1>1, <1>3, <1>4, <1>10, <2>1, ToldAnswerer, AnswererRefuses
<1>11. AllTold'
  BY <1>4, <1>9, <1>10, AnswerTold
<1>12. NoGrant(e, c)
  <2>1. ep'[e].send_counter = n
    BY <1>7 DEF Touches
  <2> QED
    BY <1>2, <1>8, <2>1 DEF NoGrant
<1> QED
  BY <1>6, <1>11, <1>12 DEF h

\* What accept does with the next frame.
LEMMA ReactionTold ==
  ASSUME Inv, AllTold, NEW e \in Ends, NEW i, NEW c, Reads(e, i, c),
         NEW g \in Maps(Ends \X {0}, UsedWindows), ep[e].send_counter < U64_MAX,
         Reaction(e, c, log[e][i].stream, g)
  PROVE  AllTold' /\ (log' = log \/ \E h : Writes(e, c, h)) /\ NoGrant(e, c)
<1> DEFINE t == ep[e].sessions
           n == ep[e].send_counter
           h == log[e][i].stream
           q == Sends(ep[e], c, header(RESET, 0, 0), 0, now, 0, TRUE)
<1>1. c \in Cids /\ i \in DOMAIN log[e] /\ i = delivered[e] + 1 /\ c = log[e][i].correlation_id
  BY NextFrame DEF Reads
<1>2. n \in Nat /\ n <= n /\ n <= U64_MAX
  <2>1. n \in Nat /\ Good(e, ep[e])
    BY EndTypes
  <2> QED
    BY <2>1 DEF Good
<1>3. ASSUME NEW u, NEW m, Reacts(e, u, m, g, <<>>)
      PROVE  log' = log /\ ep' = [ep EXCEPT ![e] = With(ep[e], u, m, g)]
  BY <1>3, NothingPosted DEF Reacts
<1>4. CASE c \notin Live(ep[e]) /\ h.frame # OPEN /\ Reacts(e, t, n, g, <<>>)
  <2>1. log' = log /\ ep' = [ep EXCEPT ![e] = With(ep[e], t, n, g)]
    BY <1>3, <1>4
  <2>2. Touches(e, c, n, g) /\ ep'[e].sessions = ep[e].sessions
    BY <1>1, <1>2, <2>1, LeaveStreams
  <2>3. Touches(e, c, ep'[e].send_counter, ep'[e].guard)
    BY <1>1, <2>2, Unmoved
  <2>4. Held(e, c)' = {}
    <3>1. c \notin Live(ep'[e])
      BY <1>4, <2>2 DEF Live
    <3> QED
      BY <3>1, HeldIs
  <2>5. NoGrant(e, c)
    <3>1. ep'[e].send_counter = n
      BY <2>2 DEF Touches
    <3> QED
      BY <1>2, <2>3, <2>4, <3>1 DEF NoGrant
  <2> QED
    BY <1>4, <2>1, <2>3, <2>4, <2>5, IgnoredTold
<1>5. CASE c \in Live(ep[e]) /\ h.frame = RESET /\ Reacts(e, Remove(t, c), n, g, <<>>)
  <2>1. log' = log /\ ep' = [ep EXCEPT ![e] = With(ep[e], Remove(t, c), n, g)]
    BY <1>3, <1>5
  <2>2. Touches(e, c, n, g) /\ c \notin Live(ep'[e])
    BY <1>1, <1>2, <2>1, DropStream
  <2>3. Touches(e, c, ep'[e].send_counter, ep'[e].guard) /\ Held(e, c)' = {}
    BY <1>1, <2>2, Unmoved, HeldIs
  <2>4. Hearing(ep[e].sessions[c], {}, log[e][i].stream)
    BY <1>5 DEF Hearing
  <2>5. NoGrant(e, c)
    <3>1. ep'[e].send_counter = n
      BY <2>2 DEF Touches
    <3> QED
      BY <1>2, <2>3, <3>1 DEF NoGrant
  <2> QED
    BY <1>5, <2>1, <2>3, <2>4, <2>5, HeardTold
<1>6. CASE /\ c \in Live(ep[e]) /\ h.frame \notin {OPEN, RESET} /\ Legal(t[c], h)
           /\ Reacts(e, Settled(t, c, on_recv(t[c], h)), n, g, <<>>)
  <2>1. log' = log /\ ep' = [ep EXCEPT ![e] = With(ep[e], Settled(t, c, on_recv(t[c], h)), n, g)]
    BY <1>3, <1>6
  <2>2. AllTold' /\ NoGrant(e, c)
    BY <1>6, <2>1, TakenTold
  <2> QED
    BY <2>1, <2>2
<1>7. CASE /\ c \notin Live(ep[e]) /\ ~Full(ep[e]) /\ h.frame = OPEN
           /\ Reacts(e, Insert(t, c, responder(h.window)), n, g, <<>>)
  <2>1. log' = log /\ ep' = [ep EXCEPT ![e] = With(ep[e], Insert(t, c, responder(h.window)), n, g)]
    BY <1>3, <1>7
  <2>2. AllTold' /\ NoGrant(e, c)
    BY <1>7, <2>1, OpenedTold
  <2> QED
    BY <2>1, <2>2
<1>8. CASE c \notin Live(ep[e]) /\ h.frame = OPEN /\ Reacts(e, t, n + 1, g, q)
  <2>1. AllTold' /\ Writes(e, c, header(RESET, 0, 0)) /\ NoGrant(e, c)
    BY <1>8, RefusedTold DEF Reacts
  <2> QED
    BY <2>1
<1>9. CASE c \in Live(ep[e]) /\ h.frame # RESET /\ (h.frame = OPEN \/ ~Legal(t[c], h))
  <2>1. Welcome(t[c], h)
    BY <1>1, <1>9, NextWelcome
  <2> QED
    BY <1>9, <2>1 DEF Welcome, OPEN, OPEN_ACK, DATA, CREDIT, CLOSE
<1> QED
  BY <1>4, <1>5, <1>6, <1>7, <1>8, <1>9 DEF Reaction

\* The next envelope is delivered.
LEMMA DeliverTold ==
  ASSUME Inv, AllTold, Prompt, FreshIsNew,
         FailingFrames = {}, NEW e \in Ends, Deliver(e)
  PROVE  /\ AllTold' /\ (log' = log \/ \E c, h : Writes(e, c, h))
         /\ \E c \in Cids : NoGrant(e, c)
<1>1. PICK i \in DOMAIN log[e], g \in Maps(Ends \X {0}, UsedWindows) :
        /\ Reads(e, i, log[e][i].correlation_id)
        /\ Reaction(e, log[e][i].correlation_id, log[e][i].stream, g)
        /\ ep[e].send_counter < U64_MAX
  BY DeliverReacts
<1> DEFINE c == log[e][i].correlation_id
<1>2. Reads(e, i, c) /\ Reaction(e, c, log[e][i].stream, g)
  BY <1>1
<1>3. c \in Cids
  BY LetterFields
<1> HIDE DEF c
<1> QED
  BY <1>1, <1>2, <1>3, ReactionTold

\* An envelope is presented again.
LEMMA PresentTold ==
  ASSUME Inv, AllTold, ReplayIsInert, ~Relay, FailingFrames = {}, NEW e \in Ends, Present(e)
  PROVE  /\ AllTold' /\ log' = log
         /\ \A d \in Ends : /\ ep'[d].sessions = ep[d].sessions
                           /\ ep'[d].send_counter = ep[d].send_counter
<1>1. PICK i \in 1 .. delivered[e], sealed \in BOOLEAN : Accept(e, log[e][i], sealed)
  BY DEF Present
<1>2. i \in DOMAIN log[e]
  <2>1. /\ DOMAIN log[e] = 1 .. Len(log[e]) /\ Len(log[e]) \in Nat
        /\ delivered[e] \in Nat /\ delivered[e] <= Len(log[e])
    BY EndTypes DEF Inv
  <2> QED
    BY <2>1
<1>3. PICK r \in accept(ep[e], log[e][i], now, sealed) :
        Returns(e, r) /\ Sealing(RESET, sealed) /\ used' = used
  BY <1>1 DEF Accept
<1>4. sealed = TRUE
  BY <1>3, SealingCounts
<1>5. r.kind = "Dropped" /\ r.ep.sessions = ep[e].sessions
  BY <1>3, <1>4 DEF ReplayIsInert, Outcomes
<1>6. PICK o \in open_message(ep[e].guard, log[e][i], now) :
        AcceptedAs(ep[e], log[e][i], now, TRUE, o, r)
  BY <1>2, <1>3, <1>4, LetterOutcome
<1>7. r.sent = <<>> /\ r.ep.send_counter = ep[e].send_counter
  <2> DEFINE f == Advanced(ep[e], o)
             env == log[e][i]
  <2>4. f.send_counter = ep[e].send_counter
    <3>1. ep[e] \in Endpoints(Ends, Cids)
      BY EndTypes
    <3> QED
      BY <3>1, WithFields DEF Advanced
  <2> HIDE DEF f
  <2>1. CASE r = Dropped(f, o.verdict)
    BY <2>1, <2>4 DEF Dropped, Outcome
  <2>2. CASE Ignores(f, env, r)
    BY <2>2, <2>4 DEF Ignores
  <2>3. ~OnReset(f, env, r) /\ ~OnOpen(f, env, now, TRUE, r) /\ ~OnOther(f, env, now, TRUE, r)
    BY <1>5 DEF OnReset, OnOpen, OnOther, Reports, Rejects
  <2> QED
    BY <1>6, <2>1, <2>2, <2>3 DEF AcceptedAs, f
<1>8. log' = log
  BY <1>3, <1>7, NothingPosted DEF Returns
<1>9. /\ ep'[e].sessions = ep[e].sessions /\ ep'[Peer(e)] = ep[Peer(e)] /\ Ends = {e, Peer(e)}
      /\ ep'[e].send_counter = ep[e].send_counter
  <2>1. ep' = [ep EXCEPT ![e] = r.ep] /\ ep \in [Ends -> Endpoints(Ends, Cids)]
    BY <1>3 DEF Returns, Inv
  <2> QED
    BY <1>5, <1>7, <2>1, PeerOf
<1>10. delivered' = delivered
  BY DEF Present
<1>11. ASSUME NEW d \in Ends, NEW c PROVE Same(d, c)
  <2>1. ep'[d].sessions = ep[d].sessions
    BY <1>9
  <2>2. Held(d, c)' = Held(d, c)
    BY <2>1 DEF Held, Live
  <2>3. Mail(d, c)' = Mail(d, c)
    BY <1>8 DEF Mail
  <2>4. Read(d, c)' = Read(d, c)
    BY <1>10, <2>3, ReadKept
  <2> QED
    BY <2>2, <2>3, <2>4 DEF Same
<1>12. ASSUME NEW p \in Ends, NEW c \in CidsOf[p] PROVE Told(p, c)'
  <2>1. Same(p, c) /\ Same(Peer(p), c) /\ Told(p, c)
    BY <1>11, PeerOf DEF AllTold
  <2> QED
    BY <1>3, <2>1, SameTold
<1> QED
  BY <1>8, <1>9, <1>12 DEF AllTold
-----------------------------------------------------------------------------
(***************************************************************************)
(* Every stream, at every time.                                            *)
(***************************************************************************)

\* A session of e permits its peer no more than e has been able to grant: a grant is a
\* u32 and takes a counter, and calls are made up to their bound.
Frugal(e, s) ==
  \E k \in Nat : k <= MaxFrames[e] /\ k <= ep[e].send_counter /\ Permits(s) <= k * U32_MAX

Modest == \A e \in Ends : \A c \in Cids : \A s \in Held(e, c) : Frugal(e, s)

\* A stream nobody has heard of.
LEMMA NoStory ==
  ASSUME NEW M, NEW R, NEW N, NEW Q, DOMAIN M = {}, DOMAIN N = {}, R = {}, Q = {}
  PROVE  Story({}, M, R, {}, N, Q)
<1>1. ASSUME NEW K, DOMAIN K = {} PROVE Ordered(K) /\ Covers(K, DOMAIN K, 0) /\ \A f : ~Has(K, {}, f)
  BY <1>1 DEF Ordered, Covers, Has
<1>2. Half({}, M, R, N) /\ Half({}, N, Q, M)
  BY <1>1 DEF Half
<1>3. Mutual({}, M, R, {}, N, Q)
  BY <1>2 DEF Mutual, Balance
<1>4. Handshake({}, M, R, {}, N, Q)
  BY DEF Handshake
<1>5. Endings({}, M, R, {}, N, Q)
  BY DEF Endings
<1> QED
  BY <1>3, <1>4, <1>5 DEF Story

\* At the start there is no stream.
LEMMA ToldInit ==
  ASSUME Init
  PROVE  AllTold /\ Modest
<1>1. \A e \in Ends : DOMAIN log[e] = {} /\ used[e] = {}
  BY EmptySeq DEF Init
<1>2. \A e \in Ends : Live(ep[e]) = {}
  BY StartGood DEF Init
<1>3. ASSUME NEW e \in Ends, NEW c
      PROVE  Held(e, c) = {} /\ DOMAIN Mail(e, c) = {} /\ Read(e, c) = {}
  BY <1>1, <1>2 DEF Held, Mail, Read
<1>4. ASSUME NEW o \in Ends, NEW c \in CidsOf[o] PROVE Told(o, c)
  <2>1. Peer(o) \in Ends
    BY PeerOf
  <2>2. Held(o, c) = {} /\ DOMAIN Mail(o, c) = {} /\ Read(o, c) = {}
    BY <1>3
  <2>3. Held(Peer(o), c) = {} /\ DOMAIN Mail(Peer(o), c) = {} /\ Read(Peer(o), c) = {}
    BY <1>3, <2>1
  <2>4. Story({}, Mail(o, c), Read(o, c), {}, Mail(Peer(o), c), Read(Peer(o), c))
    BY <2>2, <2>3, NoStory
  <2> QED
    BY <1>1, <2>2, <2>3, <2>4 DEF Told
<1> QED
  BY <1>3, <1>4 DEF AllTold, Modest

\* A step that touches neither a session nor the transport.
LEMMA IdleTold ==
  ASSUME AllTold, ep' = ep, log' = log, delivered' = delivered, used' = used
  PROVE  AllTold'
<1>1. ASSUME NEW e, NEW c PROVE Same(e, c)
  BY DEF Same, Held, Mail, Read
<1>2. ASSUME NEW o \in Ends, NEW c \in CidsOf[o] PROVE Told(o, c)'
  BY <1>1, SameTold DEF AllTold
<1> QED
  BY <1>2 DEF AllTold

\* A step on one stream that leaves it frugal.
LEMMA ModestStep ==
  ASSUME Inv, Modest, NEW e \in Ends, NEW c \in Cids,
         Touches(e, c, ep'[e].send_counter, ep'[e].guard),
         ep[e].send_counter <= ep'[e].send_counter, \A t \in Held(e, c)' : Frugal(e, t)'
  PROVE  Modest'
<1>1. /\ \A d \in Cids \ {c} : Held(e, d)' = Held(e, d)
      /\ \A d : Held(Peer(e), d)' = Held(Peer(e), d)
  BY HeldKept
<1>2. Ends = {e, Peer(e)} /\ Peer(e) \in Ends /\ ep'[Peer(e)] = ep[Peer(e)]
  BY PeerOf DEF Touches
<1>3. ep[e].send_counter \in Nat /\ ep'[e].send_counter \in Nat
  <2>1. Good(e, ep'[e])
    BY DEF Touches
  <2> QED
    BY <2>1, EndTypes, EndpointType DEF Good
<1>4. ASSUME NEW d \in Cids, NEW s \in Held(e, d)' PROVE Frugal(e, s)'
  <2>1. CASE d = c
    BY <1>4, <2>1
  <2>2. CASE d # c
    <3>1. Frugal(e, s)
      BY <1>1, <1>4, <2>2 DEF Modest
    <3>2. PICK k \in Nat : k <= MaxFrames[e] /\ k <= ep[e].send_counter /\ Permits(s) <= k * U32_MAX
      BY <3>1 DEF Frugal
    <3>3. k <= ep'[e].send_counter
      BY <1>3, <3>2
    <3> QED
      BY <3>2, <3>3 DEF Frugal
  <2> QED
    BY <2>1, <2>2
<1>5. ASSUME NEW d \in Cids, NEW s \in Held(Peer(e), d)' PROVE Frugal(Peer(e), s)'
  <2>1. Frugal(Peer(e), s)
    BY <1>1, <1>2, <1>5 DEF Modest
  <2> QED
    BY <1>2, <2>1 DEF Frugal
<1> QED
  BY <1>2, <1>4, <1>5 DEF Modest

\* A call.
LEMMA CallModest ==
  ASSUME Inv, Modest, NEW e \in Ends, NEW c \in Cids, OneCall(e, c),
         ep[e].send_counter < MaxFrames[e]
  PROVE  Modest'
<1>1. PICK J, h : /\ Saying(e, c, J, h)
                  /\ \A t \in J : \/ Permits(t) <= U32_MAX
                                  \/ \E s \in Held(e, c) : Permits(t) <= Permits(s) + U32_MAX
  BY DEF OneCall
<1>2. /\ ep[e].send_counter \in Nat /\ ep'[e].send_counter = ep[e].send_counter + 1
      /\ MaxFrames[e] \in Nat /\ U32_MAX \in Nat
  BY EndTypes, PairAssumption, MachineAssumption DEF OneCall, U64
<1>3. Touches(e, c, ep'[e].send_counter, ep'[e].guard) /\ Held(e, c)' = J
  BY <1>1 DEF Saying
<1>4. ASSUME NEW t \in J PROVE Frugal(e, t)'
  <2>1. CASE Permits(t) <= U32_MAX
    <3>1. 1 <= MaxFrames[e] /\ 1 <= ep'[e].send_counter /\ Permits(t) <= 1 * U32_MAX
      BY <1>2, <2>1
    <3> QED
      BY <3>1 DEF Frugal
  <2>2. ASSUME NEW s \in Held(e, c), Permits(t) <= Permits(s) + U32_MAX PROVE Frugal(e, t)'
    <3>1. Frugal(e, s)
      BY DEF Modest
    <3>2. PICK k \in Nat : k <= MaxFrames[e] /\ k <= ep[e].send_counter /\ Permits(s) <= k * U32_MAX
      BY <3>1 DEF Frugal
    <3>3. Permits(s) \in Nat /\ Permits(t) \in Nat
      <4>1. s \in Sessions
        BY StreamBoxed DEF Boxed
      <4>2. t \in Sessions
        <5>1. Good(e, ep'[e])
          BY <1>3 DEF Touches
        <5>2. ep'[e].sessions \in Maps(Cids, Sessions)
          BY <5>1, EndpointType DEF Good
        <5>3. \A d \in Live(ep'[e]) : ep'[e].sessions[d] \in Sessions
          BY <5>2, MapType DEF Live
        <5> QED
          BY <1>3, <5>3 DEF Held
      <4> QED
        BY <4>1, <4>2, SessionNumbers
    <3>4. k + 1 \in Nat /\ k + 1 <= MaxFrames[e] /\ k + 1 <= ep'[e].send_counter
      BY <1>2, <3>2
    <3>5. k * U32_MAX \in Nat /\ (k + 1) * U32_MAX = k * U32_MAX + U32_MAX
      BY <1>2
    <3>6. Permits(t) <= (k + 1) * U32_MAX
      BY <1>2, <2>2, <3>2, <3>3, <3>5
    <3> QED
      BY <3>4, <3>6 DEF Frugal
  <2> QED
    BY <1>1, <1>4, <2>1, <2>2
<1>5. ep[e].send_counter <= ep'[e].send_counter
  BY <1>2
<1> QED
  BY <1>3, <1>4, <1>5, ModestStep

\* A step that grants nothing.
LEMMA ListenModest ==
  ASSUME Inv, Modest, NEW e \in Ends, NEW c \in Cids, NoGrant(e, c)
  PROVE  Modest'
<1>1. /\ ep[e].send_counter \in Nat /\ ep'[e].send_counter \in Nat
      /\ ep[e].send_counter <= ep'[e].send_counter
      /\ Touches(e, c, ep'[e].send_counter, ep'[e].guard)
  <2>1. Good(e, ep'[e])
    BY DEF NoGrant, Touches
  <2> QED
    BY <2>1, EndTypes, EndpointType DEF Good, NoGrant
<1>2. MaxFrames[e] \in Nat /\ U32_MAX \in Nat
  BY PairAssumption, MachineAssumption DEF U64
<1>3. ASSUME NEW t \in Held(e, c)' PROVE Frugal(e, t)'
  <2>1. CASE Permits(t) = 0
    <3>1. 0 <= MaxFrames[e] /\ 0 <= ep'[e].send_counter /\ Permits(t) <= 0 * U32_MAX
      BY <1>1, <1>2, <2>1
    <3> QED
      BY <3>1 DEF Frugal
  <2>2. ASSUME NEW s \in Held(e, c), Permits(t) = Permits(s) PROVE Frugal(e, t)'
    <3>1. Frugal(e, s)
      BY DEF Modest
    <3>2. PICK k \in Nat : k <= MaxFrames[e] /\ k <= ep[e].send_counter /\ Permits(s) <= k * U32_MAX
      BY <3>1 DEF Frugal
    <3>3. k <= ep'[e].send_counter
      BY <1>1, <3>2
    <3> QED
      BY <2>2, <3>2, <3>3 DEF Frugal
  <2> QED
    BY <1>3, <2>1, <2>2 DEF NoGrant
<1> QED
  BY <1>1, <1>3, ModestStep

\* A step that leaves all sessions and counters as they are.
LEMMA IdleModest ==
  ASSUME Modest, \A e \in Ends : /\ ep'[e].sessions = ep[e].sessions
                                 /\ ep'[e].send_counter = ep[e].send_counter
  PROVE  Modest'
<1> SUFFICES ASSUME NEW e \in Ends, NEW c \in Cids, NEW s \in Held(e, c)' PROVE Frugal(e, s)'
  BY DEF Modest
<1>1. ep'[e].sessions = ep[e].sessions /\ ep'[e].send_counter = ep[e].send_counter
  OBVIOUS
<1>2. Held(e, c)' = Held(e, c)
  BY <1>1 DEF Held, Live
<1>3. Frugal(e, s)
  BY <1>2 DEF Modest
<1> QED
  BY <1>1, <1>3 DEF Frugal

\* Two ends that are not restarted, whose seals do not fail and whose callers close only
\* what is established, over the ordered transport.
Steady ==
  ~Relay /\ Restartable = {} /\ ~EarlyClose /\ FailingFrames = {} /\ WideUsize

\* A step posts at most one frame.
PostsOne == log' = log \/ \E e \in Ends : \E c, h : Writes(e, c, h)

\* Every step of it.
LEMMA ToldStep ==
  ASSUME Steady, Inv, AllTold, Modest, Prompt, FreshIsNew, ReplayIsInert, [Next]_vars
  PROVE  AllTold' /\ Modest' /\ PostsOne
<1>1. ~Relay /\ Restartable = {} /\ ~EarlyClose /\ FailingFrames = {}
  BY DEF Steady
<1>2. CASE UNCHANGED vars
  BY <1>2, IdleTold, IdleModest DEF vars, PostsOne
<1>3. CASE Tick
  BY <1>3, IdleTold, IdleModest DEF Tick, PostsOne
<1>4. ASSUME NEW e \in Ends, Deliver(e) PROVE AllTold' /\ Modest' /\ PostsOne
  <2>1. /\ AllTold' /\ (log' = log \/ \E c, h : Writes(e, c, h))
        /\ \E c \in Cids : NoGrant(e, c)
    BY <1>1, <1>4, DeliverTold
  <2> QED
    BY <2>1, ListenModest DEF PostsOne
<1>5. ASSUME NEW e \in Ends, Present(e) PROVE AllTold' /\ Modest' /\ PostsOne
  <2>1. AllTold' /\ log' = log
    BY <1>1, <1>5, PresentTold
  <2>2. Modest'
    BY <1>1, <1>5, PresentTold, IdleModest
  <2> QED
    BY <2>1, <2>2 DEF PostsOne
<1>6. ASSUME NEW e \in Ends PROVE ~Restart(e)
  BY <1>1 DEF Restart
<1>7. ASSUME NEW e \in Ends, NEW c \in Cids, NEW x \in Expiries, NEW sealed \in BOOLEAN,
             \/ \E w \in Grants : \/ Open(e, c, w, x, sealed)
                                  \/ OpenAck(e, c, w, x, sealed)
                                  \/ GrantCredit(e, c, w, x, sealed)
             \/ SendData(e, c, x, sealed)
             \/ Close(e, c, x, sealed)
             \/ Cancel(e, c, x, sealed)
      PROVE  AllTold' /\ Modest' /\ PostsOne
  <2>1. AllTold' /\ OneCall(e, c)
    <3>1. ASSUME NEW w \in Grants, Open(e, c, w, x, sealed) PROVE AllTold' /\ OneCall(e, c)
      BY <1>1, <3>1, OpenTold
    <3>2. ASSUME NEW w \in Grants, OpenAck(e, c, w, x, sealed) PROVE AllTold' /\ OneCall(e, c)
      BY <1>1, <3>2, AckTold
    <3>3. ASSUME NEW w \in Grants, GrantCredit(e, c, w, x, sealed)
          PROVE  AllTold' /\ OneCall(e, c)
      BY <1>1, <3>3, GrantCreditTold
    <3>4. CASE SendData(e, c, x, sealed)
      BY <1>1, <3>4, SendDataTold
    <3>5. CASE Close(e, c, x, sealed)
      BY <1>1, <3>5, CloseTold
    <3>6. CASE Cancel(e, c, x, sealed)
      BY <1>1, <3>6, CancelTold
    <3> QED
      BY <1>7, <3>1, <3>2, <3>3, <3>4, <3>5, <3>6
  <2>2. ep[e].send_counter < MaxFrames[e]
    BY <1>7 DEF Open, OpenAck, GrantCredit, SendData, Close, Cancel, Call
  <2>3. PostsOne
    BY <2>1 DEF OneCall, Saying, PostsOne
  <2> QED
    BY <2>1, <2>2, <2>3, CallModest
<1>8. ASSUME NEW e \in Ends, Step(e) PROVE AllTold' /\ Modest' /\ PostsOne
  BY <1>5, <1>6, <1>7, <1>8 DEF Step
<1> QED
  BY <1>2, <1>3, <1>4, <1>8 DEF Next

\* Between two honest ends on an ordered and prompt transport, whatever the two callers
\* do and in whatever order, every stream is at every time told by the frames both ends
\* sent and have accepted: each session's sequence numbers, closed directions, credit and
\* handshake are what the frames say, and an end without the stream has a reason in them.
THEOREM StreamsTold ==
  ASSUME Steady
  PROVE  Spec /\ []Prompt => [](Inv /\ AllTold /\ Modest)
<1>1. ~Relay /\ Restartable = {} /\ WideUsize
  BY DEF Steady
<1>2. Spec => []FreshIsNew
  BY <1>1, FreshFramesAreNew
<1>3. Spec => []ReplayIsInert
  BY <1>1, ReplaysAreInert
<1>4. Init => AllTold /\ Modest
  BY ToldInit
<1>5. Inv /\ AllTold /\ Modest /\ Prompt /\ FreshIsNew /\ ReplayIsInert /\ [Next]_vars
      => (AllTold /\ Modest)'
  BY ToldStep
<1> QED
  BY <1>2, <1>3, <1>4, <1>5, InvAlways, PTL DEF Spec
-----------------------------------------------------------------------------
(***************************************************************************)
(* A transport that is prompt: the clock's bound is within the freshness   *)
(* window and every lifetime the callers use.                              *)
(***************************************************************************)

\* A letter does not expire, or not before the clock's bound.
LivesOn(l) == l.expires_at = 0 \/ (MaxNow <= l.expires_at /\ ~TtlTooLong(l))

Lasting == \A e \in Ends : \A i \in DOMAIN log[e] : LivesOn(log[e][i])

\* Lifetimes that outlast the clock's bound, within the longest that is accepted.
LongTTLs ==
  \A t \in TTLs : MaxNow <= t /\ t <= MAX_MESSAGE_TTL_MS /\ MaxNow + t <= U64_MAX

\* A posted letter lives on.
LEMMA PostedLasts ==
  ASSUME Inv, LongTTLs, NEW l \in Letters, l.timestamp_ms = now, l.expires_at \in Expiries
  PROVE  LivesOn(l)
<1>1. now \in Nat /\ now <= MaxNow /\ MaxNow \in Nat
  BY PairAssumption, MachineAssumption DEF Inv, U64
<1>2. CASE l.expires_at = 0
  BY <1>2 DEF LivesOn
<1>3. CASE l.expires_at # 0
  <2>1. PICK t \in TTLs : l.expires_at = now + t
    BY <1>3 DEF Expiries
  <2>2. t \in Nat /\ MaxNow <= t /\ t <= MAX_MESSAGE_TTL_MS /\ MaxNow + t <= U64_MAX
    BY PairAssumption DEF LongTTLs
  <2>3. MaxNow <= l.expires_at
    BY <1>1, <2>1, <2>2
  <2>4. ~TtlTooLong(l)
    BY <1>1, <2>1, <2>2, TtlAssumption, MachineAssumption DEF TtlTooLong, saturating_add
  <2> QED
    BY <2>3, <2>4 DEF LivesOn
<1> QED
  BY <1>2, <1>3

\* A step that posts one frame, or none, keeps what was posted lasting.
LEMMA LastingKept ==
  ASSUME Inv, Lasting, LongTTLs, NEW e \in Ends, log' = log \/ \E c, h : Writes(e, c, h)
  PROVE  Lasting'
<1>1. CASE log' = log
  BY <1>1 DEF Lasting
<1>2. ASSUME NEW c, NEW h, Writes(e, c, h) PROVE Lasting'
  <2> DEFINE p == Peer(e)
             n == Len(log[p]) + 1
  <2>1. PICK l \in Letters : /\ log' = [log EXCEPT ![Peer(e)] = @ \o <<l>>]
                             /\ l.timestamp_ms = now /\ l.expires_at \in Expiries
    BY <1>2 DEF Writes
  <2>2. /\ log'[e] = log[e]
        /\ DOMAIN log'[p] = DOMAIN log[p] \cup {n}
        /\ log'[p][n] = l /\ \A i \in DOMAIN log[p] : log'[p][i] = log[p][i]
    BY <2>1, WritesLog
  <2>3. LivesOn(l)
    BY <2>1, PostedLasts
  <2>4. Ends = {e, p}
    BY PeerOf
  <2> HIDE DEF n, p
  <2>5. \A i \in DOMAIN log'[e] : LivesOn(log'[e][i])
    BY <2>2 DEF Lasting
  <2>6. \A i \in DOMAIN log'[p] : LivesOn(log'[p][i])
    BY <2>2, <2>3, <2>4 DEF Lasting
  <2> QED
    BY <2>4, <2>5, <2>6 DEF Lasting
<1> QED
  BY <1>1, <1>2

\* What lasts is prompt.
LEMMA LastingPrompt ==
  ASSUME Inv, Lasting, MaxNow <= FRESHNESS_WINDOW_MS
  PROVE  Prompt
<1> SUFFICES ASSUME NEW e \in Ends, Pending(e) PROVE Reaches(Upcoming(e), now)
  BY DEF Prompt
<1> DEFINE env == Upcoming(e)
<1>1. delivered[e] + 1 \in DOMAIN log[e] /\ env = log[e][delivered[e] + 1]
  BY NextLetter
<1>2. /\ env \in Letters /\ env.timestamp_ms \in Nat /\ env.timestamp_ms <= now /\ now \in U64
      /\ env.authentic
  <2> DEFINE j == delivered[e] + 1
  <2>1. j \in DOMAIN log[e] /\ env = log[e][j]
    BY <1>1
  <2> HIDE DEF j, env
  <2> QED
    BY <2>1, LetterFields
<1>3. now <= FRESHNESS_WINDOW_MS /\ now \in Nat /\ now <= MaxNow /\ MaxNow \in Nat
  BY PairAssumption, TableAssumption DEF Inv, U64
<1>4. LivesOn(env)
  BY <1>1 DEF Lasting
<1> HIDE DEF env
<1>5. Fresh(env.timestamp_ms, now)
  BY <1>2, <1>3, TableAssumption, MachineAssumption
     DEF Fresh, saturating_add, saturating_sub, U64
<1>6. ~TtlTooLong(env) /\ ~Expired(env, now)
  <2>1. CASE env.expires_at = 0
    BY <2>1 DEF TtlTooLong, Expired
  <2>2. CASE MaxNow <= env.expires_at /\ ~TtlTooLong(env)
    <3>1. env.expires_at \in Nat
      BY <1>2 DEF Letters
    <3>2. ~(now > env.expires_at)
      BY <1>3, <2>2, <3>1
    <3> QED
      BY <2>2, <3>2 DEF Expired
  <2> QED
    BY <1>4, <2>1, <2>2 DEF LivesOn
<1>7. Reaches(env, now)
  BY <1>2, <1>5, <1>6 DEF Reaches
<1> QED
  BY <1>7 DEF env

\* As long as the clock does not outrun the freshness window and the lifetimes the
\* callers give their frames, every frame is timely when it is its turn: what the
\* theorems below ask of the transport is met, in every order of calls and deliveries.
THEOREM FramesArePrompt ==
  ASSUME Steady, MaxNow <= FRESHNESS_WINDOW_MS, LongTTLs
  PROVE  Spec => []Prompt
<1>1. ~Relay /\ Restartable = {} /\ WideUsize
  BY DEF Steady
<1>2. Spec => []FreshIsNew
  BY <1>1, FreshFramesAreNew
<1>3. Spec => []ReplayIsInert
  BY <1>1, ReplaysAreInert
<1>4. Init => AllTold /\ Modest /\ Lasting
  <2> SUFFICES ASSUME Init PROVE AllTold /\ Modest /\ Lasting
    OBVIOUS
  <2>1. \A e \in Ends : DOMAIN log[e] = {}
    BY EmptySeq DEF Init
  <2> QED
    BY <2>1, ToldInit DEF Lasting
<1>5. Inv /\ Lasting => Prompt
  BY LastingPrompt
<1>6. Inv /\ AllTold /\ Modest /\ Lasting /\ FreshIsNew /\ ReplayIsInert /\ [Next]_vars
      => (AllTold /\ Modest /\ Lasting)'
  <2> SUFFICES ASSUME Inv, AllTold, Modest, Lasting, FreshIsNew, ReplayIsInert, [Next]_vars
               PROVE  (AllTold /\ Modest /\ Lasting)'
    OBVIOUS
  <2>1. AllTold' /\ Modest' /\ PostsOne
    BY <1>5, ToldStep
  <2>2. CASE log' = log
    BY <2>1, <2>2 DEF Lasting
  <2>3. ASSUME NEW e \in Ends, NEW c, NEW h, Writes(e, c, h) PROVE Lasting'
    BY <2>3, LastingKept
  <2> QED
    BY <2>1, <2>2, <2>3 DEF PostsOne
<1> QED
  BY <1>2, <1>3, <1>4, <1>5, <1>6, InvAlways, PTL DEF Spec
-----------------------------------------------------------------------------
(***************************************************************************)
(* The properties.                                                         *)
(***************************************************************************)

\* accept answers the next frame with a RESET only because of the cap.
LEMMA NextAccepted ==
  ASSUME Inv, AllTold, Prompt, FreshIsNew,
         NEW e \in Ends, Pending(e), NEW r \in Outcomes(e, Upcoming(e)), r.kind = "Reset"
  PROVE  r.why = "StreamLimit"
<1> DEFINE i == delivered[e] + 1
           env == log[e][i]
           c == env.correlation_id
           h == env.stream
           s == ep[e].sessions[c]
<1>1. i \in DOMAIN log[e] /\ Upcoming(e) = env
  BY NextLetter
<1>2. PICK o \in open_message(ep[e].guard, env, now) :
        /\ Advanced(ep[e], o) \in Endpoints(Ends, Cids)
        /\ AcceptedAs(ep[e], env, now, TRUE, o, r)
  BY <1>1, LetterOutcome DEF Outcomes
<1>3. o.verdict = "Opened"
  BY <1>1, NextOpened
<1> DEFINE f == Advanced(ep[e], o)
<1>4. f.sessions = ep[e].sessions /\ Live(f) = Live(ep[e])
  <2>1. ep[e] \in Endpoints(Ends, Cids)
    BY EndTypes
  <2> QED
    BY <2>1, WithFields DEF Advanced, Live
<1>5. c \in Live(ep[e]) => Welcome(s, h)
  <2> HIDE DEF i
  <2>1. i = delivered[e] + 1
    BY DEF i
  <2> QED
    BY <1>1, <2>1, NextWelcome
<1> HIDE DEF f, i
<1>6. ~Ignores(f, env, r) /\ ~OnReset(f, env, r)
  BY DEF Ignores, OnReset, Reports
<1>7. CASE OnOpen(f, env, now, TRUE, r)
  <2>1. h.frame = OPEN
    BY <1>7 DEF OnOpen
  <2>2. c \notin Live(f)
    BY <1>4, <1>5, <2>1 DEF Welcome, OPEN, OPEN_ACK, DATA, CREDIT, CLOSE, RESET
  <2> QED
    BY <1>7, <2>2 DEF OnOpen, Reports, Rejects
<1>8. CASE OnOther(f, env, now, TRUE, r)
  <2>1. h.frame # RESET /\ c \in Live(ep[e])
    BY <1>4, <1>8 DEF OnOther
  <2>2. Legal(f.sessions[c], h)
    BY <1>4, <1>5, <2>1 DEF Welcome
  <2> QED
    BY <1>8, <2>2 DEF OnOther, Reports
<1> QED
  BY <1>2, <1>3, <1>6, <1>7, <1>8 DEF AcceptedAs, f

\* Between two honest endpoints on an ordered and prompt transport, no interleaving of the two
\* callers' calls, with frames of both ends in flight in both directions, makes accept
\* take a frame of the peer for a protocol violation: the handshake, the sequence
\* numbers, the windows and the closed directions of the receiver always allow it.
THEOREM HonestFramesAreAccepted ==
  ASSUME Steady
  PROVE  Spec /\ []Prompt => []HonestFramesAccepted
<1>1. ~Relay /\ Restartable = {}
  BY DEF Steady
<1>2. Spec => []FreshIsNew
  BY <1>1, FreshFramesAreNew
<1>3. Spec /\ []Prompt => [](Inv /\ AllTold /\ Modest)
  BY StreamsTold
<1>4. Inv /\ AllTold /\ Prompt /\ FreshIsNew => HonestFramesAccepted
  BY NextAccepted DEF HonestFramesAccepted
<1> QED
  BY <1>2, <1>3, <1>4, PTL

\* Once nothing is pending at an end, it has read its mail.
LEMMA AllRead ==
  ASSUME Inv, NEW e \in Ends, ~Pending(e), NEW c
  PROVE  Read(e, c) = DOMAIN Mail(e, c)
<1>1. /\ DOMAIN log[e] = 1 .. Len(log[e]) /\ Len(log[e]) \in Nat
      /\ delivered[e] \in Nat /\ delivered[e] <= Len(log[e]) /\ ~(delivered[e] < Len(log[e]))
  BY EndTypes DEF Inv, Pending
<1>2. \A i \in DOMAIN log[e] : i <= delivered[e]
  BY <1>1
<1>3. DOMAIN Mail(e, c) \subseteq DOMAIN log[e]
  BY DEF Mail
<1>4. Read(e, c) = {i \in DOMAIN Mail(e, c) : i <= delivered[e]}
  BY DEF Read
<1> QED
  BY <1>2, <1>3, <1>4

\* Then the two ends agree on a stream.
LEMMA QuietStream ==
  ASSUME Inv, AllTold, NEW e \in Ends, ~Pending(e), ~Pending(Peer(e)), NEW c \in Cids
  PROVE  /\ c \in Live(ep[e]) <=> c \in Live(ep[Peer(e)])
         /\ c \in Live(ep[e]) =>
              Sending(ep[e].sessions[c]) = Receiving(ep[Peer(e)].sessions[c])
<1> DEFINE p == Peer(e)
           H == Held(e, c)
           K == Held(p, c)
<1>1. p \in Ends
  BY PeerOf
<1>2. Read(e, c) = DOMAIN Mail(e, c) /\ Read(p, c) = DOMAIN Mail(p, c)
  BY <1>1, AllRead
<1>3. /\ c \in Live(ep[e]) => H = {ep[e].sessions[c]}
      /\ c \notin Live(ep[e]) => H = {}
      /\ c \in Live(ep[p]) => K = {ep[p].sessions[c]}
      /\ c \notin Live(ep[p]) => K = {}
  BY HeldIs
<1> HIDE DEF p, H, K
<1>4. /\ H = {} <=> K = {}
      /\ \A s \in H, t \in K : Sending(s) = Receiving(t)
  <2>1. CASE c \in CidsOf[e]
    BY <1>2, <2>1, ToldBoxed, QuietAgree DEF p, H, K
  <2>2. CASE c \in CidsOf[p]
    BY <1>2, <2>2, ToldAnswerer, QuietAgree DEF p, H, K
  <2> QED
    BY <2>1, <2>2, OpenerOf DEF p
<1> QED
  BY <1>3, <1>4 DEF p

\* Once everything sent was delivered in time, two honest endpoints hold the same streams and
\* agree on their handshakes, sequence numbers and closed directions: however the calls
\* of the two sides crossed on the way, a stream is not left at one end only.
THEOREM AgreementWhenQuiet ==
  ASSUME Steady
  PROVE  Spec /\ []Prompt => []AgreeWhenQuiet
<1>1. Spec /\ []Prompt => [](Inv /\ AllTold /\ Modest)
  BY StreamsTold
<1>2. Inv /\ AllTold => AgreeWhenQuiet
  <2> SUFFICES ASSUME Inv, AllTold, \A e \in Ends : ~Pending(e), NEW e \in Ends
               PROVE  /\ Live(ep[e]) = Live(ep[Peer(e)])
                      /\ \A c \in Live(ep[e]) :
                           Sending(ep[e].sessions[c]) = Receiving(ep[Peer(e)].sessions[c])
    BY DEF AgreeWhenQuiet
  <2>1. Peer(e) \in Ends /\ Live(ep[e]) \subseteq Cids /\ Live(ep[Peer(e)]) \subseteq Cids
    BY PeerOf, EndTypes
  <2> QED
    BY <2>1, QuietStream
<1> QED
  BY <1>1, <1>2, PTL

\* No end is able to grant so much that a u64 saturates: build_credit's saturating_add
\* (stream.rs) adds.  Each grant is a u32, so it takes more than 2^32 of them.
Unsaturated == \A e \in Ends : MaxFrames[e] * U32_MAX < U64_MAX

\* Then a window is short of saturation.
LEMMA ShortOfMax ==
  ASSUME Modest, Unsaturated, NEW e \in Ends, NEW c \in Cids, NEW s \in Held(e, c), s \in Sessions
  PROVE  Permits(s) < U64_MAX
<1>1. PICK k \in Nat : k <= MaxFrames[e] /\ Permits(s) <= k * U32_MAX
  BY DEF Modest, Frugal
<1>2. MaxFrames[e] \in Nat /\ U32_MAX \in Nat /\ U64_MAX \in Nat /\ Permits(s) \in Nat
  BY PairAssumption, MachineAssumption, SessionNumbers DEF U64
<1> DEFINE m == MaxFrames[e]
           w == U32_MAX
<1>3. m \in Nat /\ w \in Nat /\ k <= m /\ m * w < U64_MAX
  BY <1>1, <1>2 DEF Unsaturated
<1>4. Permits(s) <= k * w
  BY <1>1
<1> HIDE DEF m, w
<1>5. k * w <= m * w /\ k * w \in Nat /\ m * w \in Nat
  BY <1>3
<1> QED
  BY <1>2, <1>3, <1>4, <1>5

\* What is in flight to an end on a stream is the mail it has not read.
LEMMA FlightIsMail ==
  ASSUME Inv, NEW e \in Ends, NEW c, NEW kinds
  PROVE  InFlight(e, c, kinds) =
           {i \in DOMAIN Mail(e, c) \ Read(e, c) : Mail(e, c)[i].frame \in kinds}
<1>1. /\ DOMAIN log[e] = 1 .. Len(log[e]) /\ Len(log[e]) \in Nat /\ delivered[e] \in Nat
  BY EndTypes DEF Inv
<1>2. ASSUME NEW i PROVE i \in delivered[e] + 1 .. Len(log[e]) <=>
                           i \in DOMAIN log[e] /\ ~(i <= delivered[e])
  BY <1>1
<1>3. ASSUME NEW i
      PROVE  i \in DOMAIN Mail(e, c) \ Read(e, c) <=>
               i \in delivered[e] + 1 .. Len(log[e]) /\ log[e][i].correlation_id = c
  <2>1. i \in DOMAIN Mail(e, c) <=> i \in DOMAIN log[e] /\ log[e][i].correlation_id = c
    BY DEF Mail
  <2>2. i \in Read(e, c) <=> i \in DOMAIN Mail(e, c) /\ i <= delivered[e]
    BY DEF Read
  <2> QED
    BY <1>2, <2>1, <2>2
<1>4. \A i \in DOMAIN Mail(e, c) : Mail(e, c)[i] = log[e][i].stream
  BY MailOf
<1>5. ASSUME NEW i
      PROVE  i \in InFlight(e, c, kinds) <=>
               i \in DOMAIN Mail(e, c) \ Read(e, c) /\ Mail(e, c)[i].frame \in kinds
  BY <1>3, <1>4 DEF InFlight
<1> DEFINE X == InFlight(e, c, kinds)
           Y == {i \in DOMAIN Mail(e, c) \ Read(e, c) : Mail(e, c)[i].frame \in kinds}
<1>6. \A i : i \in X <=> i \in Y
  BY <1>5
<1> HIDE DEF X, Y
<1>7. X = Y
  BY <1>6
<1> QED
  BY <1>7 DEF X, Y

\* The credit in flight to an end is the credit its unread mail grants.
LEMMA FlightIsDue ==
  ASSUME Inv, NEW e \in Ends, NEW c
  PROVE  Cardinality(CreditInFlight(e, c)) = Due(Mail(e, c), Read(e, c))
<1> DEFINE M == Mail(e, c)
           D == DOMAIN M \ Read(e, c)
           X == CreditInFlight(e, c)
           Y == Units(M, D)
<1>1. ASSUME NEW i \in D PROVE M[i] = log[e][i].stream
  BY MailOf
<1>2. ASSUME NEW i
      PROVE  i \in InFlight(e, c, {OPEN_ACK, CREDIT}) <=> i \in D /\ M[i].frame \in {OPEN_ACK, CREDIT}
  BY FlightIsMail
<1> HIDE DEF M, D
<1>3. ASSUME NEW u PROVE u \in X <=> u \in Y
  <2>1. u \in X <=> \E i \in InFlight(e, c, {OPEN_ACK, CREDIT}) :
                      u \in {i} \X (1 .. log[e][i].stream.window)
    BY DEF CreditInFlight
  <2>2. u \in Y <=> \E i \in D : M[i].frame \in {OPEN_ACK, CREDIT} /\ u \in {i} \X (1 .. M[i].window)
    BY DEF Units
  <2> HIDE DEF X, Y
  <2> QED
    BY <1>1, <1>2, <2>1, <2>2
<1> HIDE DEF X, Y
<1>4. X = Y
  BY <1>3
<1> QED
  BY <1>4 DEF X, Y, Due, D, M

\* Credit is conserved on a stream both ends hold.
LEMMA StreamConserved ==
  ASSUME Inv, AllTold, Modest, Unsaturated, NEW e \in Ends,
         NEW c \in Live(ep[e]) \cap Live(ep[Peer(e)])
  PROVE  ep[e].sessions[c].send_credit + Cardinality(InFlight(Peer(e), c, {DATA}))
           + Cardinality(CreditInFlight(e, c))
         = ep[Peer(e)].sessions[c].recv_window_remaining
<1> DEFINE p == Peer(e)
           s == ep[p].sessions[c]
           t == ep[e].sessions[c]
           M == Mail(p, c)
           R == Read(p, c)
<1>1. p \in Ends /\ c \in Cids
  BY PeerOf, EndTypes
<1>2. s \in Held(p, c) /\ t \in Held(e, c)
  BY HeldIs
<1>3. Boxed(Held(p, c), M, R) /\ Boxed(Held(e, c), Mail(e, c), Read(e, c))
  BY <1>1, StreamBoxed
<1>4. Mutual(Held(p, c), M, R, Held(e, c), Mail(e, c), Read(e, c))
  <2>1. CASE c \in CidsOf[e]
    <3>1. Mutual(Held(e, c), Mail(e, c), Read(e, c), Held(p, c), M, R)
      BY <2>1, ToldBoxed DEF Story
    <3> QED
      BY <3>1, MutualTurns
  <2>2. CASE c \in CidsOf[p]
    BY <2>2, ToldAnswerer DEF Story
  <2> QED
    BY <1>1, <2>1, <2>2, OpenerOf
<1>5. Permits(s) < U64_MAX
  <2>1. s \in Sessions
    BY <1>2, <1>3 DEF Boxed
  <2> HIDE DEF p, s
  <2> QED
    BY <1>1, <1>2, <2>1, ShortOfMax
<1>6. Cardinality(CreditInFlight(e, c)) = Due(Mail(e, c), Read(e, c))
  BY FlightIsDue
<1>7. InFlight(p, c, {DATA}) = {i \in DOMAIN M \ R : M[i].frame = DATA}
  <2>1. InFlight(p, c, {DATA}) = {i \in DOMAIN M \ R : M[i].frame \in {DATA}}
    <3> HIDE DEF p
    <3> QED
      BY <1>1, FlightIsMail
  <2> QED
    BY <2>1
<1> HIDE DEF p, s, t, M, R
<1>8. t.send_credit + Cardinality({i \in DOMAIN M \ R : M[i].frame = DATA}) + Due(Mail(e, c), Read(e, c))
        = s.recv_window_remaining
  BY <1>2, <1>3, <1>4, <1>5, CreditBetween
<1>9. t.send_credit + Cardinality(InFlight(p, c, {DATA})) + Cardinality(CreditInFlight(e, c))
        = s.recv_window_remaining
  BY <1>6, <1>7, <1>8
<1> QED
  BY <1>9 DEF p, s, t

\* Flow control neither loses nor invents credit: on a stream both ends hold, what one
\* may still send, the chunks on their way from it and the grants on their way to it are
\* together what the other still permits, whatever is in flight in both directions and
\* however the calls crossed.
THEOREM CreditIsConserved ==
  ASSUME Steady, Unsaturated
  PROVE  Spec /\ []Prompt => []CreditConserved
<1>1. Spec /\ []Prompt => [](Inv /\ AllTold /\ Modest)
  BY StreamsTold
<1>2. Inv /\ AllTold /\ Modest => CreditConserved
  BY StreamConserved DEF CreditConserved
<1> QED
  BY <1>1, <1>2, PTL
=============================================================================
