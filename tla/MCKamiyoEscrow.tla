--------------------------- MODULE MCKamiyoEscrow ---------------------------
(* Small instances of the on-chain escrows; one SOL is 100 units and one unit *)
(* of time stands for the five minutes of the commit phase, the longer        *)
(* periods are shortened and keep their order.                                *)
EXTENDS KamiyoEscrow, TLC

Interchangeable == Permutations(Founder \ Mobile)
=============================================================================
