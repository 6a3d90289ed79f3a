------------------------------ MODULE HashMap ------------------------------
(***************************************************************************)
(* std::collections::HashMap: a function whose domain is the set of keys.  *)
(***************************************************************************)
EXTENDS Functions

\* HashMap::new, insert and remove.
EmptyMap == [k \in {} |-> {}]
Insert(map, key, value) ==
  [k \in DOMAIN map \cup {key} |-> IF k = key THEN value ELSE map[k]]
Remove(map, key) == Restrict(map, DOMAIN map \ {key})
=============================================================================
