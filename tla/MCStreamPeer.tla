--------------------------- MODULE MCStreamPeer ---------------------------
(***************************************************************************)
(* An instance of StreamPeer for TLC; correlation ids are interchangeable. *)
(***************************************************************************)
EXTENDS StreamPeer, TLC

SymmetricCids == Permutations(Cids)
=============================================================================
