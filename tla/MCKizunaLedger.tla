---------------------------- MODULE MCKizunaLedger ----------------------------
(***************************************************************************)
(* Small instances of KizunaLedger.  Nonces, settlements and references    *)
(* are interchangeable, so the runs that check only safety use symmetry.   *)
(***************************************************************************)
EXTENDS KizunaLedger, TLC

CONSTANTS enterpriseMain, adHoc

\* The migrations seed enterprise-main; a pool named only by requests has no row.
MCSeedLane ==
    [p \in Pool |-> IF p = enterpriseMain THEN "enterprise" ELSE "none"]

Interchangeable ==
    Permutations(Nonce) \cup Permutations(Settlement) \cup Permutations(Ref)
=============================================================================
