----------------------------- MODULE Admission -----------------------------
(***************************************************************************)
(* src/src/seal.rs, the second half of open_message: what happens to a     *)
(* message once its sender is authenticated.  The checks come in this      *)
(* order: expiry, the replay guard, decompression; the guard is advanced   *)
(* before the payload is decompressed.                                     *)
(***************************************************************************)
EXTENDS ReplayTable

CONSTANT MAX_MESSAGE_TTL_MS   \* longest accepted expires_at - timestamp_ms

ASSUME TtlAssumption == MAX_MESSAGE_TTL_MS \in Nat

\* check_expiry; expires_at = 0 means the message does not expire.
TtlTooLong(inner) ==
  /\ inner.expires_at # 0
  /\ inner.expires_at > saturating_add(inner.timestamp_ms, MAX_MESSAGE_TTL_MS)
Expired(inner, now_ms) == inner.expires_at # 0 /\ now_ms > inner.expires_at

\* Faulty: the window is one per epoch, whoever the sender.
ReplayKey_no_sender(sender, sender_epoch) == <<sender_epoch, sender_epoch>>

\* The key of a sender's window in the guard.
ReplayKey(sender, sender_epoch) == <<sender, sender_epoch>>

Verdict(verdict, guard) == [verdict |-> verdict, guard |-> guard]

\* Faulty: the verdict of the replay guard is ignored.
admit_verified_no_replay(guard, key, inner, decompressed, now_ms) ==
  IF TtlTooLong(inner) THEN {Verdict("TtlTooLong", guard)}
  ELSE IF Expired(inner, now_ms) THEN {Verdict("Expired", guard)}
  ELSE {Verdict(decompressed, guard)}

\* Faulty: the payload is decompressed before the guard is asked.
admit_verified_late(guard, key, inner, decompressed, now_ms) ==
  IF TtlTooLong(inner) THEN {Verdict("TtlTooLong", guard)}
  ELSE IF Expired(inner, now_ms) THEN {Verdict("Expired", guard)}
  ELSE IF decompressed # "Opened" THEN {Verdict(decompressed, guard)}
  ELSE {Verdict(IF r.ok THEN "Opened" ELSE "Replay", r.tab) :
          r \in check_and_admit(guard, key, inner.counter, inner.timestamp_ms, now_ms)}

\* The (verdict, guard) pairs of open_message on an authenticated message;
\* `decompressed` is "Opened" or the error of the decompression.
admit_verified(guard, key, inner, decompressed, now_ms) ==
  IF TtlTooLong(inner) THEN {Verdict("TtlTooLong", guard)}
  ELSE IF Expired(inner, now_ms) THEN {Verdict("Expired", guard)}
  ELSE {Verdict(IF r.ok THEN decompressed ELSE "Replay", r.tab) :
          r \in check_and_admit(guard, key, inner.counter, inner.timestamp_ms, now_ms)}
=============================================================================
