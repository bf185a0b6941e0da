---------------------------- MODULE MCKizunaSettle ----------------------------
(***************************************************************************)
(* Small instances of KizunaSettle: one pool of each kind of run, requests *)
(* that race or retry on the same nonce.                                   *)
(***************************************************************************)
EXTENDS KizunaSettle, TLC

CONSTANTS enterpriseMain

\* The seeded enterprise pool; lanes other than its own may name it too.
MCSeedLane == [p \in Pool |-> "enterprise"]

Interchangeable == Permutations(Settlement)
=============================================================================
