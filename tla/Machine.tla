------------------------------ MODULE Machine ------------------------------
(***************************************************************************)
(* The Rust machine integers the crate computes with, scaled down.  A u64  *)
(* ranges over 0..U64_MAX; `as usize` keeps the low bits of a u64, and the *)
(* width of usize is that of the build target: 2^64 on the servers, 2^32   *)
(* on the wasm32 target the crate is also written for (Cargo.toml).        *)
(***************************************************************************)
EXTENDS Integers

CONSTANTS U64_MAX,       \* largest u64
          U32_MAX,       \* largest u32
          USIZE_RANGE    \* number of values of usize

U64 == 0 .. U64_MAX
U32 == 0 .. U32_MAX

ASSUME MachineAssumption ==
  /\ U64_MAX \in Nat /\ USIZE_RANGE \in Nat \ {0}
  /\ U32_MAX \in U64

\* u64::saturating_add and u64::saturating_sub.
saturating_add(a, b) == IF a + b > U64_MAX THEN U64_MAX ELSE a + b
saturating_sub(a, b) == IF a < b THEN 0 ELSE a - b

\* `x as usize`.
as_usize(x) == x % USIZE_RANGE
=============================================================================
