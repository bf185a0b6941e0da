--------------------------- MODULE MCFairscaleSync ---------------------------
(***************************************************************************)
(* Small instances of FairscaleSync: one settlement event and the          *)
(* repayment event of its debt, shared by two flushers, one of which takes *)
(* a single event at a time.                                               *)
(***************************************************************************)
EXTENDS FairscaleSync

CONSTANTS enterpriseMain, fastpathMain, f1, f2

\* The pools the migrations seed.
MCSeedLane ==
    [p \in Pool |-> IF p = enterpriseMain THEN "enterprise" ELSE "crypto-fast"]

\* One process batches, the other takes the events one by one.
MCBatchSize == [f \in Flusher |-> IF f = f1 THEN 2 ELSE 1]
=============================================================================
