---------------------------- MODULE MCKizunaRepay ----------------------------
(***************************************************************************)
(* Small instances of KizunaRepay: one debtor of the crypto-fast pool and  *)
(* requests that race, or repeat each other's reference.                   *)
(***************************************************************************)
EXTENDS KizunaRepay, TLC

CONSTANTS fastpathMain, enterpriseMain

\* The pools the migrations seed.
MCSeedLane ==
    [p \in Pool |-> IF p = enterpriseMain THEN "enterprise" ELSE "crypto-fast"]

MCScope == {<<"crypto-fast", fastpathMain>>}

MCRepayWallet == [a \in Agent |-> CHOOSE w \in Wallet : TRUE]

\* Enough for both references, not for both and the API's own use of the credits.
MCDepositAmount == [d \in Deposit |-> 3]

Interchangeable ==
    Permutations(RepayRequest) \cup Permutations(Ref)
       \cup Permutations(Nonce) \cup Permutations(Settlement)
=============================================================================
