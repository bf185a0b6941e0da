------------------------- MODULE KamiyoEscrowProofs -------------------------
(***************************************************************************)
(* Theorems about the on-chain escrows, for every set of oracles and       *)
(* escrows, every amount, score, deviation, duration and stake.            *)
(*                                                                         *)
(* EscrowInv strengthens the stated properties by what the reveal phase    *)
(* leaves behind: a dispute with a revealed score has a commit phase, and  *)
(* that phase is over.  Whatever score comes out of a ruling, the escrow   *)
(* is split without a remainder.  StakeInv and RuleInv look into the sums  *)
(* of a ruling: what the dissenters forfeit, and where the weighted mean   *)
(* of the votes lies.                                                      *)
(***************************************************************************)
EXTENDS KamiyoEscrow, SumTheorems, TLAPS

\* A dispute with a revealed score is past its commit phase.
RevealsFollowCommits ==
    \A t \in Transaction :
       /\ escrows[t].revealed # {} =>
             /\ escrows[t].commit_phase_ends_at # 0
             /\ escrows[t].commit_phase_ends_at <= now
       /\ escrows[t].status = "None" =>
             escrows[t].revealed = {} /\ escrows[t].amount = 0

EscrowInv == EscrowTypeOK /\ EscrowConserved /\ RevealsFollowCommits

-----------------------------------------------------------------------------
(* Arithmetic *)

\* A percentage of an amount is at most the amount (the u128 product and
\* division of the instructions).
LEMMA PercentBound ==
    ASSUME NEW a \in Nat, NEW p \in 0..100
    PROVE  Percent(a, p) \in Nat /\ Percent(a, p) <= a
  <1>1. a * p \in Nat
    OBVIOUS
  <1>2. a * p <= a * 100
    OBVIOUS
  <1>3. \A x \in Nat : x <= a * 100 => x \div 100 \in Nat /\ x \div 100 <= a
    OBVIOUS
  <1> QED
    BY <1>1, <1>2, <1>3 DEF Percent

\* The shares of some of the voters come to no more than the whole reward.
LEMMA SharesFit ==
    ASSUME NEW total \in Nat, NEW n \in Nat \ {0}, NEW k \in 0..n
    PROVE  /\ total \div n \in Nat
           /\ (total \div n) * k \in Nat
           /\ (total \div n) * k <= total
  <1> DEFINE q == total \div n
  <1>1. q \in Nat
    OBVIOUS
  <1>2. q * n <= total
    OBVIOUS
  <1>3. q * k \in Nat /\ q * k <= q * n
    <2> HIDE DEF q
    <2> QED BY <1>1
  <1>4. q * n \in Nat
    BY <1>1
  <1> QED
    BY <1>1, <1>2, <1>3, <1>4

\* calculate_refund_from_quality gives a percentage for whatever score.
LEMMA RefundIsPercentage ==
    ASSUME NEW c
    PROVE  calculate_refund_from_quality(c) \in 0..100
  BY DEF calculate_refund_from_quality

\* An oracle's weight is positive, whatever the u16 cast leaves of the stake.
LEMMA WeightPositive ==
    ASSUME NEW stake \in Nat
    PROVE  WeightOf(stake) \in Nat \ {0}
  BY RegistryAssumption DEF WeightOf

-----------------------------------------------------------------------------
(* Paying out *)

\* Less and AtMost stay natural.
LEMMA LessFacts ==
    ASSUME NEW a \in Nat, NEW b \in Nat
    PROVE  /\ Less(a, b) \in Nat
           /\ b <= a => Less(a, b) = a - b
           /\ AtMost(a, b) \in Nat
           /\ AtMost(a, b) <= a
           /\ AtMost(a, b) <= b
  BY DEF Less, AtMost

\* An open escrow that pays out its whole amount keeps the invariant, as
\* release_funds, resolve_dispute, claim_expired_escrow and
\* finalize_multi_oracle_dispute all do.
LEMMA PayingOutWhole ==
    ASSUME NEW t \in Transaction, EscrowInv, IsOpen(t),
           NEW status \in {"Released", "Resolved"},
           NEW by \in {"nobody", "verifier", "oracles", "expiry"},
           NEW score \in (0..100) \cup {NoScore},
           NEW toAgent \in Nat, NEW toApi \in Nat, NEW toFees \in Nat,
           toAgent + toApi + toFees = escrows[t].amount,
           PaysOut(t, status, by, score, toAgent, toApi, toFees),
           now' = now
    PROVE  /\ escrows' \in [Transaction -> Escrow]
           /\ paid' \in [Transaction -> Payout]
           /\ EscrowConserved'
           /\ RevealsFollowCommits'
           /\ \A u \in Transaction : escrows'[u].commitment = escrows[u].commitment
  <1> DEFINE e == [escrows[t] EXCEPT !.status = status, !.held = 0,
                                     !.quality_score = score, !.ruled_by = by]
             p == [agent |-> toAgent, api |-> toApi, fees |-> toFees]
  <1>1. /\ escrows \in [Transaction -> Escrow]
        /\ paid \in [Transaction -> Payout]
        /\ escrows[t] \in Escrow /\ paid[t] \in Payout
    BY DEF EscrowInv, EscrowTypeOK
  <1>2. /\ escrows[t].held = (IF escrows[t].token THEN 0 ELSE escrows[t].amount)
        /\ paid[t].agent + paid[t].api + paid[t].fees = 0
    BY DEF EscrowInv, EscrowConserved
  <1>3. paid[t].agent = 0 /\ paid[t].api = 0 /\ paid[t].fees = 0
    BY <1>1, <1>2 DEF Payout
  <1>4. escrows' = [escrows EXCEPT ![t] = e]
    <2> DEFINE lamports == IF escrows[t].token THEN 0 ELSE toAgent + toApi + toFees
    <2>1. escrows[t].held - lamports = 0
      BY <1>1, <1>2 DEF Escrow
    <2>2. escrows' = [escrows EXCEPT ![t].status = status,
                                     ![t].held = @ - lamports,
                                     ![t].quality_score = score,
                                     ![t].ruled_by = by]
      BY DEF PaysOut
    <2> HIDE DEF lamports
    <2> QED BY <1>1, <2>1, <2>2 DEF Escrow
  <1>5. paid' = [paid EXCEPT ![t] = p]
    <2>1. /\ paid[t].agent + toAgent = toAgent
          /\ paid[t].api + toApi = toApi
          /\ paid[t].fees + toFees = toFees
      BY <1>3
    <2> QED BY <2>1 DEF PaysOut
  <1>6. e \in Escrow
    BY <1>1 DEF Escrow, Status
  <1>7. p \in Payout
    BY DEF Payout
  <1>8. /\ escrows' \in [Transaction -> Escrow]
        /\ paid' \in [Transaction -> Payout]
    <2> HIDE DEF e, p
    <2> QED BY <1>1, <1>4, <1>5, <1>6, <1>7
  <1>9. /\ e.status = status /\ e.held = 0 /\ e.amount = escrows[t].amount
        /\ e.commitment = escrows[t].commitment /\ e.revealed = escrows[t].revealed
        /\ e.commit_phase_ends_at = escrows[t].commit_phase_ends_at
    BY <1>1 DEF Escrow
  <1>10. /\ escrows'[t] = e /\ paid'[t] = p
         /\ \A u \in Transaction \ {t} : escrows'[u] = escrows[u] /\ paid'[u] = paid[u]
    <2> HIDE DEF e, p
    <2> QED BY <1>1, <1>4, <1>5
  <1>11. EscrowConserved'
    <2> SUFFICES ASSUME NEW u \in Transaction
                 PROVE  LET out == paid'[u].agent + paid'[u].api + paid'[u].fees
                        IN  IF escrows'[u].status \in {"Active", "Disputed"}
                            THEN /\ escrows'[u].held = (IF escrows'[u].token THEN 0
                                                        ELSE escrows'[u].amount)
                                 /\ out = 0
                            ELSE escrows'[u].held = 0 /\ out = escrows'[u].amount
      BY DEF EscrowConserved, IsOpen
    <2>1. CASE u = t
      <3> HIDE DEF e
      <3> QED BY <2>1, <1>9, <1>10
    <2>2. CASE u # t
      BY <2>2, <1>10 DEF EscrowInv, EscrowConserved, IsOpen
    <2> QED BY <2>1, <2>2
  <1>12. RevealsFollowCommits'
    <2> HIDE DEF e, p
    <2> QED BY <1>9, <1>10 DEF EscrowInv, RevealsFollowCommits
  <1>13. \A u \in Transaction : escrows'[u].commitment = escrows[u].commitment
    <2> HIDE DEF e, p
    <2> QED BY <1>9, <1>10
  <1> QED
    BY <1>8, <1>11, <1>12, <1>13

\* What a step says of oracles, paused and escrows that the rest of the
\* invariant needs.
LEMMA RestOfType ==
    ASSUME EscrowInv, now' = now, paused' \in BOOLEAN, oracles' = oracles,
           max_score_deviation' = max_score_deviation,
           escrows' \in [Transaction -> Escrow], paid' \in [Transaction -> Payout]
    PROVE  EscrowTypeOK'
  BY DEF EscrowInv, EscrowTypeOK, Registered

-----------------------------------------------------------------------------
(* One lemma per instruction *)

\* The step that CommitsSealed allows.
SealedStep ==
    \A t \in Transaction :
       escrows[t].revealed # {} => escrows'[t].commitment = escrows[t].commitment

\* The instructions of the registry leave the escrows alone; time only grows.
LEMMA RegistryStepKeepsInv ==
    ASSUME EscrowInv, RegistryStep, UNCHANGED escrowVars
    PROVE  EscrowInv' /\ SealedStep
  <1>1. /\ now \in Nat \ {0} /\ oracles \in [Oracle -> OracleConfig]
        /\ max_score_deviation \in 0..50
        /\ \A o \in Oracle : oracles[o].registered => oracles[o].weight > 0
    BY DEF EscrowInv, EscrowTypeOK, Registered
  <1>2. /\ now' \in Nat \ {0} /\ now' >= now
        /\ max_score_deviation' \in 0..50
        /\ oracles' \in [Oracle -> OracleConfig]
        /\ \A o \in Oracle : oracles'[o].registered => oracles'[o].weight > 0
    <2>1. ASSUME NEW o \in Oracle, NEW stake \in Nat, NEW weight \in Nat \ {0},
                 Joins(o, stake, weight)
          PROVE  <1>2!:
      <3>1. Entry(stake, weight, 0) \in OracleConfig
        BY DEF Entry, OracleConfig
      <3>2. Entry(stake, weight, 0).weight > 0
        BY DEF Entry
      <3> QED BY <1>1, <2>1, <3>1, <3>2 DEF Joins
    <2>2. ASSUME NEW o \in Oracle, NEW rewards, Leaves(o, rewards)
          PROVE  <1>2!:
      <3>1. Unregistered \in OracleConfig /\ ~Unregistered.registered
        BY DEF Unregistered, OracleConfig
      <3> QED BY <1>1, <2>2, <3>1 DEF Leaves
    <2>3. ASSUME NEW o \in Mobile, NEW stake \in Stake, NEW weight \in AdminWeight,
                 add_oracle(o, stake, weight)
          PROVE  <1>2!:
      BY <2>1, <2>3, RegistryAssumption DEF add_oracle
    <2>4. ASSUME NEW o \in Mobile, NEW stake \in Stake, register_oracle(o, stake)
          PROVE  <1>2!:
      BY <2>1, <2>4, RegistryAssumption, WeightPositive DEF register_oracle
    <2>5. ASSUME NEW o \in Mobile, NEW additional \in Addition,
                 increase_oracle_stake(o, additional)
          PROVE  <1>2!:
      <3> DEFINE w == WeightOf(oracles[o].stake + additional)
      <3>1. o \in Oracle /\ additional \in Nat /\ oracles[o].stake \in Nat
        BY <1>1, RegistryAssumption DEF OracleConfig
      <3>2. w \in Nat \ {0}
        BY <3>1, WeightPositive
      <3>3. oracles' = [oracles EXCEPT ![o].stake = @ + additional, ![o].weight = w]
        BY <2>5 DEF increase_oracle_stake
      <3> DEFINE r == [oracles[o] EXCEPT !.stake = @ + additional, !.weight = w]
      <3> HIDE DEF w
      <3>4. oracles' = [oracles EXCEPT ![o] = r]
        BY <1>1, <3>1, <3>3
      <3>5. oracles[o] \in OracleConfig /\ oracles[o].stake + additional \in Nat
        BY <1>1, <3>1
      <3>6. w > 0
        BY <3>2
      <3>7. r \in OracleConfig
        BY <3>2, <3>5 DEF OracleConfig
      <3>8. r.weight > 0
        BY <3>5, <3>6 DEF OracleConfig
      <3>9. now' = now /\ max_score_deviation' = max_score_deviation
        BY <2>5 DEF increase_oracle_stake
      <3> HIDE DEF r
      <3>10. \A u \in Oracle : oracles'[u] = IF u = o THEN r ELSE oracles[u]
        BY <1>1, <3>1, <3>4
      <3> QED BY <1>1, <3>1, <3>4, <3>7, <3>8, <3>9, <3>10
    <2>6. ASSUME NEW o \in Mobile,
                 \/ request_oracle_withdrawal(o) \/ cancel_oracle_withdrawal(o)
          PROVE  <1>2!:
      BY <1>1, <2>6, RegistryAssumption
         DEF request_oracle_withdrawal, cancel_oracle_withdrawal, OracleConfig
    <2>7. ASSUME NEW o \in Mobile, complete_oracle_withdrawal(o) \/ remove_oracle(o)
          PROVE  <1>2!:
      BY <2>2, <2>7, RegistryAssumption DEF complete_oracle_withdrawal, remove_oracle
    <2>8. ASSUME NEW o \in Oracle, claim_oracle_rewards(o)
          PROVE  <1>2!:
      BY <1>1, <2>8 DEF claim_oracle_rewards, OracleConfig
    <2>9. ASSUME NEW amount \in Withdrawal, withdraw_treasury(amount)
          PROVE  <1>2!:
      BY <1>1, <2>9 DEF withdraw_treasury
    <2>10. CASE Tick
      BY <1>1, <2>10 DEF Tick
    <2>11. CASE reset_oracle_registry
      <3>1. Unregistered \in OracleConfig /\ ~Unregistered.registered
        BY DEF Unregistered, OracleConfig
      <3> QED BY <1>1, <2>11, <3>1 DEF reset_oracle_registry
    <2> QED
      BY <2>3, <2>4, <2>5, <2>6, <2>7, <2>8, <2>9, <2>10, <2>11 DEF RegistryStep
  <1>3. escrows' = escrows /\ paid' = paid /\ paused' = paused
    BY DEF escrowVars
  <1>4. EscrowTypeOK'
    BY <1>2, <1>3 DEF EscrowInv, EscrowTypeOK, Registered
  <1>5. EscrowConserved'
    BY <1>3 DEF EscrowInv, EscrowConserved, IsOpen
  <1>6. RevealsFollowCommits'
    BY <1>1, <1>2, <1>3 DEF EscrowInv, EscrowTypeOK, RevealsFollowCommits, Escrow
  <1> QED
    BY <1>3, <1>4, <1>5, <1>6 DEF EscrowInv, SealedStep

\* Pausing and unpausing touch nothing but the flag.
LEMMA PauseKeepsInv ==
    ASSUME EscrowInv, pause_protocol \/ unpause_protocol
    PROVE  EscrowInv' /\ SealedStep
  <1>1. /\ escrows' = escrows /\ paid' = paid /\ paused' \in BOOLEAN
        /\ oracles' = oracles /\ now' = now
        /\ max_score_deviation' = max_score_deviation
    BY DEF pause_protocol, unpause_protocol, registryVars
  <1> QED
    BY <1>1 DEF EscrowInv, EscrowTypeOK, Registered, EscrowConserved, IsOpen,
                RevealsFollowCommits, SealedStep

\* A new escrow holds what it was created with.
LEMMA InitializeKeepsInv ==
    ASSUME EscrowInv, NEW t \in Transaction, NEW amount \in Amount,
           NEW lock \in TimeLock, NEW token \in BOOLEAN,
           initialize_escrow(t, amount, lock, token)
    PROVE  EscrowInv' /\ SealedStep
  <1> DEFINE e == [NoEscrow EXCEPT !.status = "Active", !.amount = amount,
                                   !.token = token,
                                   !.held = IF token THEN 0 ELSE amount,
                                   !.expires_at = now + lock]
  <1>1. /\ now \in Nat /\ amount \in Nat /\ lock \in Nat
        /\ escrows \in [Transaction -> Escrow]
    BY EscrowAssumption DEF EscrowInv, EscrowTypeOK
  <1>2. /\ e \in Escrow /\ e.status = "Active" /\ e.revealed = {}
        /\ e.held = (IF e.token THEN 0 ELSE e.amount)
    <2>1. NoEscrow \in Escrow /\ NoEscrow.revealed = {}
      BY DEF NoEscrow, Escrow, Status
    <2>2. now + lock \in Nat
      BY <1>1
    <2> QED BY <1>1, <2>1, <2>2 DEF Escrow, Status
  <1>3. /\ escrows' = [escrows EXCEPT ![t] = e] /\ paid' = paid
        /\ now' = now /\ oracles' = oracles /\ paused' = paused
        /\ max_score_deviation' = max_score_deviation
        /\ escrows[t].status = "None"
    BY DEF initialize_escrow
  <1> HIDE DEF e
  <1>4. /\ escrows' \in [Transaction -> Escrow] /\ escrows'[t] = e
        /\ \A u \in Transaction \ {t} : escrows'[u] = escrows[u]
    BY <1>1, <1>2, <1>3
  <1>5. EscrowTypeOK'
    BY <1>3, <1>4, RestOfType DEF EscrowInv, EscrowTypeOK
  <1>6. EscrowConserved'
    <2>1. paid[t].agent + paid[t].api + paid[t].fees = escrows[t].amount
          /\ escrows[t].held = 0
      BY <1>3 DEF EscrowInv, EscrowConserved, IsOpen
    <2>2. escrows[t].amount = 0
      BY <1>3 DEF EscrowInv, RevealsFollowCommits
    <2> QED BY <1>2, <1>3, <1>4, <2>1, <2>2 DEF EscrowInv, EscrowConserved, IsOpen
  <1>7. RevealsFollowCommits'
    BY <1>2, <1>3, <1>4 DEF EscrowInv, RevealsFollowCommits
  <1>8. SealedStep
    BY <1>3, <1>4 DEF EscrowInv, RevealsFollowCommits, SealedStep
  <1> QED
    BY <1>5, <1>6, <1>7, <1>8 DEF EscrowInv

\* A step that pays one open escrow out and leaves the registry alone.
LEMMA PayingKeepsInv ==
    ASSUME EscrowInv, NEW t \in Transaction, IsOpen(t),
           NEW status \in {"Released", "Resolved"},
           NEW by \in {"nobody", "verifier", "oracles", "expiry"},
           NEW score \in (0..100) \cup {NoScore},
           NEW toAgent \in Nat, NEW toApi \in Nat,
           toAgent + toApi = escrows[t].amount,
           PaysOut(t, status, by, score, toAgent, toApi, 0),
           UNCHANGED <<registryVars, paused>>
    PROVE  EscrowInv' /\ SealedStep
  <1>1. /\ now' = now /\ oracles' = oracles /\ paused' = paused
        /\ max_score_deviation' = max_score_deviation
    BY DEF registryVars
  <1>2. toAgent + toApi + 0 = escrows[t].amount
    OBVIOUS
  <1>3. /\ escrows' \in [Transaction -> Escrow]
        /\ paid' \in [Transaction -> Payout]
        /\ EscrowConserved'
        /\ RevealsFollowCommits'
        /\ \A u \in Transaction : escrows'[u].commitment = escrows[u].commitment
    BY <1>1, <1>2, PayingOutWhole
  <1>4. paused' \in BOOLEAN
    BY <1>1 DEF EscrowInv, EscrowTypeOK
  <1>5. EscrowTypeOK'
    BY <1>1, <1>3, <1>4, RestOfType
  <1> QED
    BY <1>3, <1>5 DEF EscrowInv, SealedStep

\* release_funds pays the API the whole amount.
LEMMA ReleaseKeepsInv ==
    ASSUME EscrowInv, NEW t \in Transaction, NEW caller, release_funds(t, caller)
    PROVE  EscrowInv' /\ SealedStep
  <1>1. IsOpen(t) /\ escrows[t].amount \in Nat
    BY DEF release_funds, IsOpen, EscrowInv, EscrowTypeOK, Escrow
  <1>2. /\ PaysOut(t, "Released", "nobody", NoScore, 0, escrows[t].amount, 0)
        /\ UNCHANGED <<registryVars, paused>>
    BY DEF release_funds
  <1>3. 0 + escrows[t].amount = escrows[t].amount
    BY <1>1
  <1> QED
    BY <1>1, <1>2, <1>3, PayingKeepsInv

\* resolve_dispute splits by any percentage without a remainder.
LEMMA ResolveKeepsInv ==
    ASSUME EscrowInv, NEW t \in Transaction, NEW verifier \in Oracle,
           NEW score \in Score, NEW percentage \in RefundPercentage,
           resolve_dispute(t, verifier, score, percentage)
    PROVE  EscrowInv' /\ SealedStep
  <1> DEFINE refund == Percent(escrows[t].amount, percentage)
             rest == Less(escrows[t].amount, refund)
  <1>1. IsOpen(t) /\ escrows[t].amount \in Nat
    BY DEF resolve_dispute, EscrowInv, EscrowTypeOK, Escrow
  <1>2. percentage \in 0..100 /\ score \in 0..100
    BY EscrowAssumption
  <1>3. refund \in Nat /\ refund <= escrows[t].amount
    BY <1>1, <1>2, PercentBound
  <1>4. /\ PaysOut(t, "Resolved", "verifier", score, refund, rest, 0)
        /\ UNCHANGED <<registryVars, paused>>
    BY DEF resolve_dispute
  <1> HIDE DEF refund
  <1>5. rest \in Nat /\ refund + rest = escrows[t].amount
    BY <1>1, <1>3, LessFacts
  <1> HIDE DEF rest
  <1> QED
    BY <1>1, <1>2, <1>3, <1>4, <1>5, PayingKeepsInv

\* claim_expired_escrow refunds the agent, or splits an odd amount in halves
\* without losing the odd unit.
LEMMA ClaimKeepsInv ==
    ASSUME EscrowInv, NEW t \in Transaction, claim_expired_escrow(t)
    PROVE  EscrowInv' /\ SealedStep
  <1> DEFINE amount == escrows[t].amount
             half == amount \div 2
  <1>1. IsOpen(t) /\ amount \in Nat
    BY DEF claim_expired_escrow, IsOpen, EscrowInv, EscrowTypeOK, Escrow
  <1>2. UNCHANGED <<registryVars, paused>>
    BY DEF claim_expired_escrow
  <1>3. /\ half \in Nat /\ Less(amount, half) \in Nat
        /\ half + Less(amount, half) = amount /\ amount + 0 = amount
    BY <1>1 DEF Less
  <1>4. 50 \in 0..100
    OBVIOUS
  <1>5. CASE PaysOut(t, "Resolved", "expiry", 50, amount, 0, 0)
    <2> HIDE DEF amount
    <2>1. amount = escrows[t].amount
      BY DEF amount
    <2> QED BY <1>1, <1>2, <1>3, <1>4, <1>5, <2>1, PayingKeepsInv
  <1>6. CASE PaysOut(t, "Resolved", "expiry", 50, half, Less(amount, half), 0)
    <2> DEFINE rest == Less(amount, half)
    <2>1. amount = escrows[t].amount /\ rest \in Nat /\ half + rest = amount
      BY <1>3
    <2>2. PaysOut(t, "Resolved", "expiry", 50, half, rest, 0)
      BY <1>6
    <2> HIDE DEF amount, half, rest
    <2> QED BY <1>1, <1>2, <1>3, <1>4, <2>1, <2>2, PayingKeepsInv
  <1> QED
    BY <1>5, <1>6 DEF claim_expired_escrow

\* mark_disputed changes the status of an open escrow that stays open.
LEMMA DisputeKeepsInv ==
    ASSUME EscrowInv, NEW t \in Transaction, mark_disputed(t)
    PROVE  EscrowInv' /\ SealedStep
  <1> DEFINE e == [escrows[t] EXCEPT !.status = "Disputed", !.disputed_at = now]
  <1>1. /\ escrows \in [Transaction -> Escrow] /\ escrows[t] \in Escrow
        /\ now \in Nat /\ escrows[t].status = "Active"
    BY DEF EscrowInv, EscrowTypeOK, mark_disputed
  <1>2. /\ escrows' = [escrows EXCEPT ![t] = e] /\ paid' = paid
        /\ now' = now /\ oracles' = oracles /\ paused' = paused
        /\ max_score_deviation' = max_score_deviation
    BY <1>1 DEF mark_disputed, registryVars
  <1>3. /\ e \in Escrow /\ e.status = "Disputed" /\ e.held = escrows[t].held
        /\ e.token = escrows[t].token
        /\ e.amount = escrows[t].amount /\ e.revealed = escrows[t].revealed
        /\ e.commitment = escrows[t].commitment
        /\ e.commit_phase_ends_at = escrows[t].commit_phase_ends_at
    BY <1>1 DEF Escrow, Status
  <1> HIDE DEF e
  <1>4. /\ escrows' \in [Transaction -> Escrow] /\ escrows'[t] = e
        /\ \A u \in Transaction \ {t} : escrows'[u] = escrows[u]
    BY <1>1, <1>2, <1>3
  <1>5. EscrowTypeOK'
    BY <1>2, <1>4, RestOfType DEF EscrowInv, EscrowTypeOK
  <1>6. EscrowConserved'
    BY <1>1, <1>2, <1>3, <1>4 DEF EscrowInv, EscrowConserved, IsOpen
  <1>7. RevealsFollowCommits' /\ SealedStep
    BY <1>1, <1>2, <1>3, <1>4 DEF EscrowInv, RevealsFollowCommits, SealedStep
  <1> QED
    BY <1>5, <1>6, <1>7 DEF EscrowInv

\* A commitment finds no revealed score in its dispute: with one, the commit
\* phase is over.
LEMMA CommitKeepsInv ==
    ASSUME EscrowInv, NEW t \in Transaction, NEW o \in Oracle, NEW score \in Score,
           commit_oracle_score(t, o, score)
    PROVE  EscrowInv' /\ SealedStep
  <1> DEFINE ends == IF escrows[t].commit_phase_ends_at = 0
                     THEN now + COMMIT_PHASE_DURATION
                     ELSE escrows[t].commit_phase_ends_at
             votes == [escrows[t].commitment EXCEPT ![o] = score]
             e == [escrows[t] EXCEPT !.commitment = votes,
                                     !.commit_phase_ends_at = ends]
  <1>1. /\ escrows \in [Transaction -> Escrow] /\ escrows[t] \in Escrow
        /\ now \in Nat \ {0} /\ escrows[t].status = "Disputed"
        /\ score \in 0..100 /\ COMMIT_PHASE_DURATION \in Nat
    BY EscrowAssumption DEF EscrowInv, EscrowTypeOK, commit_oracle_score
  <1>2. /\ escrows' = [escrows EXCEPT ![t] = e] /\ paid' = paid
        /\ now' = now /\ oracles' = oracles /\ paused' = paused
        /\ max_score_deviation' = max_score_deviation
    BY <1>1 DEF commit_oracle_score, registryVars, Escrow
  <1>3. ends \in Nat /\ votes \in [Oracle -> (0..100) \cup {NoScore}]
    BY <1>1 DEF Escrow
  <1>4. escrows[t].revealed = {}
    <2>1. escrows[t].commit_phase_ends_at # 0 =>
             ~(escrows[t].commit_phase_ends_at <= now)
      BY <1>1 DEF commit_oracle_score, Escrow
    <2> QED BY <2>1 DEF EscrowInv, RevealsFollowCommits
  <1> HIDE DEF ends, votes
  <1>5. /\ e \in Escrow /\ e.status = "Disputed" /\ e.held = escrows[t].held
        /\ e.token = escrows[t].token
        /\ e.amount = escrows[t].amount /\ e.revealed = {}
    BY <1>1, <1>3, <1>4 DEF Escrow, Status
  <1> HIDE DEF e
  <1>6. /\ escrows' \in [Transaction -> Escrow] /\ escrows'[t] = e
        /\ \A u \in Transaction \ {t} : escrows'[u] = escrows[u]
    BY <1>1, <1>2, <1>5
  <1>7. EscrowTypeOK'
    BY <1>2, <1>6, RestOfType DEF EscrowInv, EscrowTypeOK
  <1>8. EscrowConserved'
    BY <1>1, <1>2, <1>5, <1>6 DEF EscrowInv, EscrowConserved, IsOpen
  <1>9. RevealsFollowCommits' /\ SealedStep
    BY <1>2, <1>4, <1>5, <1>6 DEF EscrowInv, RevealsFollowCommits, SealedStep
  <1> QED
    BY <1>7, <1>8, <1>9 DEF EscrowInv

\* A score is revealed only when the commit phase has been there and is over.
LEMMA SubmitKeepsInv ==
    ASSUME EscrowInv, NEW t \in Transaction, NEW o \in Oracle,
           submit_oracle_score(t, o)
    PROVE  EscrowInv' /\ SealedStep
  <1> DEFINE e == [escrows[t] EXCEPT !.revealed = escrows[t].revealed \cup {o}]
  <1>1. /\ escrows \in [Transaction -> Escrow] /\ escrows[t] \in Escrow
        /\ now \in Nat \ {0} /\ escrows[t].status = "Disputed"
        /\ escrows[t].commit_phase_ends_at # 0
        /\ now >= escrows[t].commit_phase_ends_at
    BY DEF EscrowInv, EscrowTypeOK, submit_oracle_score
  <1>2. /\ escrows' = [escrows EXCEPT ![t] = e] /\ paid' = paid
        /\ now' = now /\ oracles' = oracles /\ paused' = paused
        /\ max_score_deviation' = max_score_deviation
    BY <1>1 DEF submit_oracle_score, registryVars
  <1>3. /\ e \in Escrow /\ e.status = "Disputed" /\ e.held = escrows[t].held
        /\ e.token = escrows[t].token
        /\ e.amount = escrows[t].amount
        /\ e.commitment = escrows[t].commitment
        /\ e.commit_phase_ends_at = escrows[t].commit_phase_ends_at
    BY <1>1 DEF Escrow, Status
  <1>4. e.commit_phase_ends_at <= now
    BY <1>1, <1>3 DEF Escrow
  <1> HIDE DEF e
  <1>5. /\ escrows' \in [Transaction -> Escrow] /\ escrows'[t] = e
        /\ \A u \in Transaction \ {t} : escrows'[u] = escrows[u]
    BY <1>1, <1>2, <1>3
  <1>6. EscrowTypeOK'
    BY <1>2, <1>5, RestOfType DEF EscrowInv, EscrowTypeOK
  <1>7. EscrowConserved'
    BY <1>1, <1>2, <1>3, <1>5 DEF EscrowInv, EscrowConserved, IsOpen
  <1>8. RevealsFollowCommits'
    BY <1>1, <1>2, <1>3, <1>4, <1>5 DEF EscrowInv, RevealsFollowCommits
  <1>9. SealedStep
    BY <1>3, <1>5 DEF SealedStep
  <1> QED
    BY <1>6, <1>7, <1>8, <1>9 DEF EscrowInv

\* A dispute that can be finalized has votes.
LEMMA QuorumHasVotes ==
    ASSUME EscrowInv, NEW t \in Transaction, CanFinalize(t)
    PROVE  /\ Cardinality(escrows[t].revealed) \in Nat \ {0}
           /\ \A c : /\ Cardinality(Agreeing(t, c)) \in Nat
                     /\ Cardinality(Agreeing(t, c)) <= Cardinality(escrows[t].revealed)
  <1>1. escrows[t].revealed \subseteq Oracle /\ escrows[t].amount \in Nat
    BY DEF EscrowInv, EscrowTypeOK, Escrow
  <1>2. /\ IsFiniteSet(escrows[t].revealed)
        /\ Cardinality(escrows[t].revealed) \in Nat
    BY <1>1, RegistryAssumption, FS_Subset, FS_CardinalityType
  <1>3. required_oracle_count(escrows[t].amount) \in Nat \ {0}
    BY <1>1, EscrowAssumption DEF required_oracle_count
  <1>4. Cardinality(escrows[t].revealed) >= required_oracle_count(escrows[t].amount)
    BY DEF CanFinalize, HasQuorum
  <1>5. ASSUME NEW c
        PROVE  /\ Cardinality(Agreeing(t, c)) \in Nat
               /\ Cardinality(Agreeing(t, c)) <= Cardinality(escrows[t].revealed)
    <2>1. Agreeing(t, c) \subseteq escrows[t].revealed
      BY DEF Agreeing, Voters
    <2>2. IsFiniteSet(Agreeing(t, c))
      BY <1>2, <2>1, FS_Subset
    <2> QED BY <1>2, <2>1, <2>2, FS_Subset, FS_CardinalityType
  <1> QED
    BY <1>2, <1>3, <1>4, <1>5

\* The parts into which a ruling splits an escrow are natural and add up: fees
\* are capped by the payment, rewards by what the fee leaves of it.
LEMMA RulingSplitsWhole ==
    ASSUME EscrowInv, NEW t \in Transaction, CanFinalize(t), NEW c \in 0..100,
           NEW given, SplitEscrow(t, c, given, RewardPerOracle(t, c, given)),
           now' = now
    PROVE  /\ RewardPerOracle(t, c, given) \in Nat
           /\ escrows' \in [Transaction -> Escrow]
           /\ paid' \in [Transaction -> Payout]
           /\ EscrowConserved'
           /\ RevealsFollowCommits'
           /\ SealedStep
  <1> DEFINE amount  == escrows[t].amount
             refund  == Percent(amount, calculate_refund_from_quality(c))
             payment == Less(amount, refund)
             fee     == ProtocolFee(amount, payment)
             budget  == Less(payment, fee)
             total   == AtMost(Percent(amount, 1), budget)
             reward  == RewardPerOracle(t, c, given)
             rewards == reward * Cardinality(Agreeing(t, c))
             toApi   == Less(Less(payment, fee), rewards)
  <1>1. amount \in Nat /\ IsOpen(t)
    BY DEF EscrowInv, EscrowTypeOK, Escrow, CanFinalize, IsOpen
  <1>2. refund \in Nat /\ refund <= amount
    BY <1>1, RefundIsPercentage, PercentBound
  <1>3. Percent(amount, 1) \in Nat
    <2>1. 1 \in 0..100
      OBVIOUS
    <2> QED BY <1>1, <2>1, PercentBound
  <1>4. payment \in Nat /\ payment = amount - refund
    <2> HIDE DEF refund
    <2> QED BY <1>1, <1>2, LessFacts
  <1>5. fee \in Nat /\ fee <= payment
    <2> HIDE DEF payment
    <2> QED BY <1>3, <1>4, LessFacts DEF ProtocolFee
  <1>6. budget \in Nat /\ budget = payment - fee
    <2> HIDE DEF payment, fee
    <2> QED BY <1>4, <1>5, LessFacts
  <1>7. total \in Nat /\ total <= budget
    <2> HIDE DEF budget
    <2> QED BY <1>3, <1>6, LessFacts
  <1>8. reward = IF RewardsEnabled(t, given)
                 THEN total \div Cardinality(escrows[t].revealed) ELSE 0
    BY DEF RewardPerOracle
  <1>9. /\ reward \in Nat /\ rewards \in Nat /\ rewards <= budget
        /\ ~RewardsEnabled(t, given) => rewards = 0
    <2> DEFINE n == Cardinality(escrows[t].revealed)
               k == Cardinality(Agreeing(t, c))
    <2>1. n \in Nat \ {0} /\ k \in 0..n
      BY QuorumHasVotes
    <2>2. reward = IF RewardsEnabled(t, given) THEN total \div n ELSE 0
      BY <1>8
    <2>3. rewards = reward * k
      OBVIOUS
    <2> HIDE DEF n, k, total, budget, reward, rewards
    <2>4. CASE RewardsEnabled(t, given)
      <3>1. (total \div n) \in Nat /\ (total \div n) * k \in Nat
            /\ (total \div n) * k <= total
        BY <1>7, <2>1, SharesFit
      <3> QED BY <1>6, <1>7, <2>2, <2>3, <2>4, <3>1
    <2>5. CASE ~RewardsEnabled(t, given)
      <3>1. reward = 0
        BY <2>2, <2>5
      <3>2. rewards = 0
        BY <2>1, <2>3, <3>1
      <3> QED BY <1>6, <2>5, <3>1, <3>2
    <2> QED BY <2>4, <2>5
  <1>10. toApi \in Nat /\ toApi = budget - rewards
    <2> HIDE DEF rewards, fee, payment
    <2> QED BY <1>6, <1>9, LessFacts
  <1>11. /\ fee + rewards \in Nat /\ toApi + fee \in Nat
         /\ refund + toApi + (fee + rewards) = amount
         /\ rewards = 0 => refund + (toApi + fee) + 0 = amount
    <2> HIDE DEF refund, payment, fee, budget, rewards, toApi, amount
    <2> QED BY <1>1, <1>2, <1>4, <1>5, <1>6, <1>9, <1>10
  <1>12. /\ escrows' \in [Transaction -> Escrow]
         /\ paid' \in [Transaction -> Payout]
         /\ EscrowConserved'
         /\ RevealsFollowCommits'
         /\ \A u \in Transaction : escrows'[u].commitment = escrows[u].commitment
    <2>1. CASE RewardsEnabled(t, given)
      <3>1. PaysOut(t, "Resolved", "oracles", c, refund, toApi, fee + rewards)
        BY <2>1 DEF SplitEscrow
      <3> DEFINE income == fee + rewards
      <3>2. /\ income \in Nat /\ refund + toApi + income = escrows[t].amount
            /\ PaysOut(t, "Resolved", "oracles", c, refund, toApi, income)
        BY <1>11, <3>1
      <3> HIDE DEF refund, toApi, income
      <3> QED BY <1>1, <1>2, <1>10, <3>2, PayingOutWhole
    <2>2. CASE ~RewardsEnabled(t, given)
      <3>1. PaysOut(t, "Resolved", "oracles", c, refund, toApi + fee, 0)
        BY <2>2 DEF SplitEscrow
      <3> DEFINE income == toApi + fee
      <3>2. /\ income \in Nat /\ refund + income + 0 = escrows[t].amount
            /\ PaysOut(t, "Resolved", "oracles", c, refund, income, 0)
        BY <1>9, <1>11, <2>2, <3>1
      <3> HIDE DEF refund, income
      <3> QED BY <1>1, <1>2, <3>2, PayingOutWhole
    <2> QED BY <2>1, <2>2
  <1> QED
    BY <1>9, <1>12 DEF SealedStep

\* finalize_multi_oracle_dispute.
LEMMA FinalizeKeepsInv ==
    ASSUME EscrowInv, NEW t \in Transaction, NEW given, NEW slash,
           finalize_multi_oracle_dispute(t, given, slash)
    PROVE  EscrowInv' /\ SealedStep
  <1>1. /\ CanFinalize(t) /\ now' = now /\ paused' = paused
        /\ max_score_deviation' = max_score_deviation
    BY DEF finalize_multi_oracle_dispute
  <1>2. PICK c \in 0..100 :
          /\ SplitEscrow(t, c, given, RewardPerOracle(t, c, given))
          /\ SplitStakes(t, c, given, RewardPerOracle(t, c, given), slash)
    BY DEF finalize_multi_oracle_dispute
  <1> DEFINE reward == RewardPerOracle(t, c, given)
  <1>3. /\ reward \in Nat
        /\ escrows' \in [Transaction -> Escrow]
        /\ paid' \in [Transaction -> Payout]
        /\ EscrowConserved'
        /\ RevealsFollowCommits'
        /\ SealedStep
    BY <1>1, <1>2, RulingSplitsWhole
  <1>4. oracles' = AfterRuling(t, c, reward)
    BY <1>2 DEF SplitStakes
  <1> HIDE DEF reward
  <1>5. ASSUME NEW o \in Oracle
        PROVE  /\ oracles'[o] \in OracleConfig
               /\ oracles'[o].registered => oracles'[o].weight > 0
    <2>1. /\ oracles[o] \in OracleConfig
          /\ oracles[o].registered => oracles[o].weight > 0
      BY DEF EscrowInv, EscrowTypeOK, Registered
    <2>2. oracles[o].stake \in Nat
      BY <2>1 DEF OracleConfig
    <2>3. SlashOf(o) \in Nat
      <3>1. 10 \in 0..100
        OBVIOUS
      <3> QED BY <2>2, <3>1, PercentBound DEF SlashOf
    <2> DEFINE left == Less(oracles[o].stake, SlashOf(o))
    <2>4. left \in Nat
      BY <2>2, <2>3, LessFacts
    <2> HIDE DEF left
    <2>5. /\ Unregistered \in OracleConfig /\ ~Unregistered.registered
      BY DEF Unregistered, OracleConfig
    <2> DEFINE slashed == [oracles[o] EXCEPT !.stake = left, !.violations = @ + 1]
               rewarded == [oracles[o] EXCEPT !.rewards = @ + reward]
    <2>6. /\ slashed \in OracleConfig
          /\ slashed.weight = oracles[o].weight
          /\ slashed.registered = oracles[o].registered
      <3>1. oracles[o].violations + 1 \in Nat
        BY <2>1 DEF OracleConfig
      <3> QED BY <2>1, <2>4, <3>1, Zenon DEF OracleConfig
    <2>7. /\ rewarded \in OracleConfig
          /\ rewarded.weight = oracles[o].weight
          /\ rewarded.registered = oracles[o].registered
      <3>1. oracles[o].rewards + reward \in Nat
        BY <1>3, <2>1 DEF OracleConfig
      <3> QED BY <2>1, <3>1 DEF OracleConfig
    <2>8. \/ oracles'[o] = Unregistered
          \/ oracles'[o] = slashed
          \/ oracles'[o] = rewarded
          \/ oracles'[o] = oracles[o]
      BY <1>4 DEF AfterRuling, left
    <2> HIDE DEF slashed, rewarded
    <2> QED BY <2>1, <2>5, <2>6, <2>7, <2>8
  <1>6. oracles' \in [Oracle -> OracleConfig]
    BY <1>4, <1>5 DEF AfterRuling
  <1>7. EscrowTypeOK'
    BY <1>1, <1>3, <1>5, <1>6 DEF EscrowInv, EscrowTypeOK, Registered
  <1> QED
    BY <1>3, <1>7 DEF EscrowInv

-----------------------------------------------------------------------------
(* The theorems *)

\* Every escrow starts empty.
LEMMA InitEscrowInv == EscrowInit => EscrowInv
  <1> SUFFICES ASSUME EscrowInit PROVE EscrowInv
    OBVIOUS
  <1>1. NoEscrow \in Escrow
    BY DEF NoEscrow, Escrow, Status
  <1>2. [agent |-> 0, api |-> 0, fees |-> 0] \in Payout
    BY DEF Payout
  <1>3. /\ Unregistered \in OracleConfig /\ ~Unregistered.registered
        /\ Entry(FounderStake, 1, FounderViolations) \in OracleConfig
        /\ Entry(FounderStake, 1, FounderViolations).weight > 0
    BY RegistryAssumption DEF Unregistered, Entry, OracleConfig
  <1>4. /\ oracles \in [Oracle -> OracleConfig]
        /\ \A o \in Oracle : oracles[o].registered => oracles[o].weight > 0
    <2> DEFINE founder == Entry(FounderStake, 1, FounderViolations)
    <2>1. oracles = [o \in Oracle |-> IF o \in Founder THEN founder ELSE Unregistered]
      BY DEF EscrowInit, RegistryInit
    <2>2. founder \in OracleConfig /\ founder.weight > 0
      BY <1>3
    <2> HIDE DEF founder
    <2> QED BY <1>3, <2>1, <2>2
  <1>5. EscrowTypeOK
    <2>1. now \in Nat \ {0}
      BY DEF EscrowInit, RegistryInit
    <2>2. paused \in BOOLEAN
      BY Zenon DEF EscrowInit
    <2>3. escrows \in [Transaction -> Escrow]
      BY <1>1 DEF EscrowInit
    <2>4. paid \in [Transaction -> Payout]
      BY <1>2 DEF EscrowInit
    <2>5. max_score_deviation \in 0..50
      BY RegistryAssumption DEF EscrowInit, RegistryInit
    <2> QED BY <1>4, <2>1, <2>2, <2>3, <2>4, <2>5 DEF EscrowTypeOK, Registered
  <1>6. EscrowConserved /\ RevealsFollowCommits
    BY DEF EscrowInit, EscrowConserved, RevealsFollowCommits, IsOpen, NoEscrow
  <1> QED
    BY <1>5, <1>6 DEF EscrowInv

\* Every instruction keeps the invariant and the seal on the commitments.
LEMMA NextEscrowInv ==
    EscrowInv /\ [KamiyoNext]_kamiyoVars =>
       EscrowInv' /\ (SealedStep \/ UNCHANGED kamiyoVars)
  <1> SUFFICES ASSUME EscrowInv, [KamiyoNext]_kamiyoVars
               PROVE  EscrowInv' /\ (SealedStep \/ UNCHANGED kamiyoVars)
    OBVIOUS
  <1>1. CASE RegistryStep /\ UNCHANGED escrowVars
    BY <1>1, RegistryStepKeepsInv
  <1>2. CASE pause_protocol \/ unpause_protocol
    BY <1>2, PauseKeepsInv
  <1>3. ASSUME NEW t \in Transaction, EscrowStep(t)
        PROVE  EscrowInv' /\ SealedStep
    <2>1. ASSUME NEW amount \in Amount, NEW lock \in TimeLock, NEW token \in BOOLEAN,
                 initialize_escrow(t, amount, lock, token)
          PROVE  EscrowInv' /\ SealedStep
      BY <2>1, InitializeKeepsInv
    <2>2. ASSUME NEW caller \in {"agent", "api"}, release_funds(t, caller)
          PROVE  EscrowInv' /\ SealedStep
      BY <2>2, ReleaseKeepsInv
    <2>3. CASE mark_disputed(t)
      BY <2>3, DisputeKeepsInv
    <2>4. ASSUME NEW o \in Oracle, NEW score \in Score,
                 NEW percentage \in RefundPercentage,
                 resolve_dispute(t, o, score, percentage)
          PROVE  EscrowInv' /\ SealedStep
      BY <2>4, ResolveKeepsInv
    <2>5. ASSUME NEW o \in Oracle, NEW score \in Score, commit_oracle_score(t, o, score)
          PROVE  EscrowInv' /\ SealedStep
      BY <2>5, CommitKeepsInv
    <2>6. ASSUME NEW o \in Oracle, submit_oracle_score(t, o)
          PROVE  EscrowInv' /\ SealedStep
      BY <2>6, SubmitKeepsInv
    <2>7. ASSUME NEW given \in SUBSET OptionalAccount, NEW slash \in AgentSlash \cup {0},
                 finalize_multi_oracle_dispute(t, given, slash)
          PROVE  EscrowInv' /\ SealedStep
      BY <2>7, FinalizeKeepsInv
    <2>8. CASE claim_expired_escrow(t)
      BY <2>8, ClaimKeepsInv
    <2> QED
      BY <1>3, <2>1, <2>2, <2>3, <2>4, <2>5, <2>6, <2>7, <2>8 DEF EscrowStep
  <1>4. CASE UNCHANGED kamiyoVars
    BY <1>4 DEF kamiyoVars, registryVars, escrowVars, EscrowInv, EscrowTypeOK,
                Registered, EscrowConserved, IsOpen, RevealsFollowCommits
  <1> QED
    BY <1>1, <1>2, <1>3, <1>4 DEF KamiyoNext

\* Registry entries and escrow accounts keep their types under every order of
\* the instructions, and a registered oracle always has weight.
THEOREM EscrowTypeCorrect == KamiyoSpec => []EscrowTypeOK
  <1>1. EscrowInv => EscrowTypeOK
    BY DEF EscrowInv
  <1> QED
    BY InitEscrowInv, NextEscrowInv, <1>1, PTL DEF KamiyoSpec

\* No escrow ever pays out more or less than its amount: its lamports are all there
\* while it is open, and lamports or tokens for the whole amount have been paid,
\* once, when it is not.
THEOREM EscrowSafety == KamiyoSpec => []EscrowConserved
  <1>1. EscrowInv => EscrowConserved
    BY DEF EscrowInv
  <1> QED
    BY InitEscrowInv, NextEscrowInv, <1>1, PTL DEF KamiyoSpec

\* No oracle commits after it could have seen a score of the same dispute.
THEOREM SealSafety == KamiyoSpec => CommitsSealed
  <1>1. EscrowInv /\ [KamiyoNext]_kamiyoVars =>
           [\A t \in Transaction :
               escrows[t].revealed # {} =>
                  escrows'[t].commitment = escrows[t].commitment]_kamiyoVars
    BY NextEscrowInv DEF SealedStep
  <1> QED
    BY InitEscrowInv, NextEscrowInv, <1>1, PTL DEF KamiyoSpec, CommitsSealed

-----------------------------------------------------------------------------
(* The stakes add up *)

\* Whoever is not registered has no stake, and the balances are natural.
StakeInv ==
    /\ \A o \in Oracle : ~oracles[o].registered => oracles[o].stake = 0
    /\ total_stake \in Nat /\ pool \in Nat /\ rewardsFromPool \in Nat
    /\ StakesAddUp

Stakes == [o \in Oracle |-> oracles[o].stake]

StakesNatural ==
    Stakes \in [Oracle -> Nat] /\ StakeSum = SumFunction(Stakes) /\ SumFunction(Stakes) \in Nat

\* Recorded stakes are natural, and so is their sum.
LEMMA StakesTyped == EscrowTypeOK => StakesNatural
  <1> SUFFICES ASSUME EscrowTypeOK PROVE StakesNatural
    OBVIOUS
  <1>1. \A o \in Oracle : oracles[o].stake \in Nat
    BY DEF EscrowTypeOK, OracleConfig
  <1>2. Stakes \in [Oracle -> Nat]
    BY <1>1 DEF Stakes
  <1>3. SumFunction(Stakes) \in Nat
    BY <1>2, SumNat, RegistryAssumption
  <1>4. QED
    BY <1>2, <1>3 DEF StakeSum, Stakes, StakesNatural

\* The same after a step.
LEMMA StakesTypedNext == EscrowTypeOK' => StakesNatural'
  BY StakesTyped, PTL

\* An instruction that changes one oracle's stake moves the sum by as much.
LEMMA OneStakeMoves ==
    ASSUME EscrowTypeOK, EscrowTypeOK', NEW o \in Oracle,
           \A u \in Oracle : u # o => oracles'[u].stake = oracles[u].stake
    PROVE  StakeSum' = StakeSum - oracles[o].stake + oracles'[o].stake
  <1>1. Stakes \in [Oracle -> Nat] /\ Stakes' \in [Oracle -> Nat] /\ IsFiniteSet(Oracle)
    BY StakesTyped, StakesTypedNext, RegistryAssumption DEF StakesNatural
  <1>2. Stakes \in [Oracle -> Int] /\ Stakes' \in [Oracle -> Int]
    BY <1>1
  <1>3. \A u \in Oracle \ {o} : Stakes'[u] = Stakes[u]
    BY DEF Stakes
  <1>4. Share(Stakes, o) = oracles[o].stake /\ Share(Stakes', o) = oracles'[o].stake
    BY DEF Share, Stakes
  <1>5. SumFunction(Stakes') = SumFunction(Stakes) - Share(Stakes, o) + Share(Stakes', o)
    <2> DEFINE f == Stakes
               g == Stakes'
    <2>1. f \in [Oracle -> Int] /\ g \in [Oracle -> Int] /\ IsFiniteSet(Oracle)
          /\ \A u \in Oracle \ {o} : g[u] = f[u]
      BY <1>1, <1>2, <1>3
    <2> HIDE DEF f, g
    <2>2. SumFunction(g) = SumFunction(f) - Share(f, o) + Share(g, o)
      BY <2>1, SumStep
    <2>3. QED
      BY <2>2 DEF f, g
  <1>6. QED
    BY <1>4, <1>5, StakesTyped, StakesTypedNext DEF StakesNatural

\* A stake is part of the total.
LEMMA StakeWithinTotal ==
    ASSUME EscrowTypeOK, StakeInv, NEW o \in Oracle
    PROVE  oracles[o].stake \in Nat /\ oracles[o].stake <= total_stake
  <1> DEFINE f == Stakes
             r == [u \in Oracle \ {o} |-> f[u]]
  <1>1. f \in [Oracle -> Nat] /\ total_stake = SumFunction(f) /\ IsFiniteSet(Oracle)
    BY StakesTyped, RegistryAssumption DEF StakesNatural, StakeInv, StakesAddUp
  <1>2. f[o] = oracles[o].stake
    BY DEF Stakes
  <1> HIDE DEF f
  <1>3. SumFunction(f) = f[o] + SumFunction(r)
    <2>1. f \in [Oracle -> Int]
      BY <1>1
    <2>2. QED
      BY <1>1, <2>1, SumWithout
  <1>4. SumFunction(r) \in Nat
    <2>1. r \in [Oracle \ {o} -> Nat] /\ IsFiniteSet(Oracle \ {o})
      BY <1>1, FS_RemoveElement
    <2> HIDE DEF r
    <2>2. QED
      BY <2>1, SumNat
  <1>5. f[o] \in Nat
    BY <1>1
  <1>6. QED
    BY <1>1, <1>2, <1>3, <1>4, <1>5

\* Joining adds to the total and to the pool what it adds to the stakes.
LEMMA JoinStakes ==
    ASSUME EscrowTypeOK, EscrowTypeOK', StakeInv, NEW o \in Oracle, NEW stake \in Nat,
           NEW weight, Joins(o, stake, weight)
    PROVE  StakeInv'
  <1>1. oracles \in [Oracle -> OracleConfig]
    BY DEF EscrowTypeOK
  <1>2. /\ oracles' = [oracles EXCEPT ![o] = Entry(stake, weight, 0)]
        /\ total_stake' = total_stake + stake /\ pool' = pool + stake
        /\ rewardsFromPool' = rewardsFromPool /\ ~oracles[o].registered
    BY DEF Joins, Registered
  <1>3. Entry(stake, weight, 0).stake = stake /\ Entry(stake, weight, 0).registered
    BY DEF Entry
  <1>4. /\ oracles'[o].stake = stake /\ oracles'[o].registered
        /\ \A u \in Oracle : u # o => oracles'[u] = oracles[u]
    BY <1>1, <1>2, <1>3
  <1>5. StakeSum' = StakeSum - oracles[o].stake + oracles'[o].stake
    BY <1>4, OneStakeMoves
  <1>6. oracles[o].stake = 0
    BY <1>2 DEF StakeInv
  <1>7. QED
    BY <1>2, <1>4, <1>5, <1>6 DEF StakeInv, StakesAddUp

\* Leaving takes from the total what it takes from the stakes, and from the pool the
\* rewards as well.
LEMMA LeaveStakes ==
    ASSUME EscrowTypeOK, EscrowTypeOK', StakeInv, NEW o \in Oracle, NEW rewards \in Nat,
           Leaves(o, rewards)
    PROVE  StakeInv'
  <1>1. oracles \in [Oracle -> OracleConfig]
    BY DEF EscrowTypeOK
  <1>2. /\ oracles' = [oracles EXCEPT ![o] = Unregistered]
        /\ total_stake' = Less(total_stake, oracles[o].stake)
        /\ pool' = pool - (oracles[o].stake + rewards)
        /\ rewardsFromPool' = rewardsFromPool + rewards
        /\ oracles[o].stake + rewards <= pool
    BY DEF Leaves
  <1>3. Unregistered.stake = 0
    BY DEF Unregistered
  <1>4. oracles'[o].stake = 0 /\ \A u \in Oracle : u # o => oracles'[u] = oracles[u]
    BY <1>1, <1>2, <1>3
  <1>5. StakeSum' = StakeSum - oracles[o].stake + oracles'[o].stake
    BY <1>4, OneStakeMoves
  <1>6. oracles[o].stake \in Nat /\ oracles[o].stake <= total_stake
    BY StakeWithinTotal
  <1>7. total_stake' = total_stake - oracles[o].stake
    BY <1>2, <1>6 DEF Less, StakeInv
  <1>8. StakesAddUp'
    BY <1>2, <1>4, <1>5, <1>6, <1>7 DEF StakeInv, StakesAddUp
  <1>9. QED
    BY <1>2, <1>4, <1>6, <1>7, <1>8 DEF StakeInv

\* increase_oracle_stake.
LEMMA IncreaseStakes ==
    ASSUME EscrowTypeOK, EscrowTypeOK', StakeInv, NEW o \in Oracle, NEW additional \in Nat,
           increase_oracle_stake(o, additional)
    PROVE  StakeInv'
  <1> DEFINE w == WeightOf(oracles[o].stake + additional)
             e == [oracles[o] EXCEPT !.stake = @ + additional, !.weight = w]
  <1>1. oracles \in [Oracle -> OracleConfig] /\ oracles[o].stake \in Nat
        /\ oracles[o] \in OracleConfig
    BY DEF EscrowTypeOK, OracleConfig
  <1>2. /\ oracles' = [oracles EXCEPT ![o].stake = @ + additional, ![o].weight = w]
        /\ total_stake' = total_stake + additional /\ pool' = pool + additional
        /\ rewardsFromPool' = rewardsFromPool /\ oracles[o].registered
    BY DEF increase_oracle_stake, IsActive
  <1> HIDE DEF w
  <1>3. e.stake = oracles[o].stake + additional /\ e.registered = oracles[o].registered
    BY <1>1 DEF OracleConfig
  <1>4. oracles' = [oracles EXCEPT ![o] = e]
    BY <1>1, <1>2
  <1> HIDE DEF e
  <1>5. /\ oracles'[o].stake = oracles[o].stake + additional /\ oracles'[o].registered
        /\ \A u \in Oracle : u # o => oracles'[u] = oracles[u]
    BY <1>1, <1>2, <1>3, <1>4
  <1>6. StakeSum' = StakeSum - oracles[o].stake + oracles'[o].stake
    BY <1>5, OneStakeMoves
  <1>7. StakeSum \in Nat
    BY StakesTyped DEF StakesNatural
  <1>8. QED
    BY <1>1, <1>2, <1>5, <1>6, <1>7 DEF StakeInv, StakesAddUp

\* Instructions that change no stake.
LEMMA StakesStay ==
    ASSUME StakeInv, UNCHANGED <<total_stake, pool, rewardsFromPool>>,
           \A o \in Oracle : /\ oracles'[o].stake = oracles[o].stake
                             /\ oracles'[o].registered = oracles[o].registered
    PROVE  StakeInv'
  <1>1. StakeSum' = StakeSum
    BY DEF StakeSum
  <1>2. QED
    BY <1>1 DEF StakeInv, StakesAddUp

\* The registry's own instructions.
LEMMA RegistryStakes ==
    ASSUME EscrowTypeOK, EscrowTypeOK', StakeInv, RegistryStep
    PROVE  StakeInv'
  <1>1. /\ oracles \in [Oracle -> OracleConfig]
        /\ \A o \in Oracle : oracles[o] \in OracleConfig /\ oracles[o].rewards \in Nat
    BY DEF EscrowTypeOK, OracleConfig
  <1>2. /\ Mobile \subseteq Oracle /\ Stake \subseteq Nat /\ Addition \subseteq Nat
    BY RegistryAssumption
  <1>3. ASSUME NEW o \in Mobile, NEW stake \in Stake,
               \/ \E weight \in AdminWeight : add_oracle(o, stake, weight)
               \/ register_oracle(o, stake)
        PROVE  StakeInv'
    BY <1>2, <1>3, JoinStakes DEF add_oracle, register_oracle
  <1>4. ASSUME NEW o \in Mobile, NEW additional \in Addition,
               increase_oracle_stake(o, additional)
        PROVE  StakeInv'
    BY <1>2, <1>4, IncreaseStakes
  <1>5. ASSUME NEW o \in Mobile, complete_oracle_withdrawal(o) \/ remove_oracle(o)
        PROVE  StakeInv'
    BY <1>1, <1>2, <1>5, LeaveStakes DEF complete_oracle_withdrawal, remove_oracle
  <1>6. ASSUME NEW o \in Mobile, request_oracle_withdrawal(o) \/ cancel_oracle_withdrawal(o)
        PROVE  StakeInv'
    <2>1. PICK x : oracles' = [oracles EXCEPT ![o].requested_at = x]
      BY <1>6 DEF request_oracle_withdrawal, cancel_oracle_withdrawal
    <2>2. \A u \in Oracle : /\ oracles'[u].stake = oracles[u].stake
                            /\ oracles'[u].registered = oracles[u].registered
      BY <1>1, <1>2, <2>1 DEF OracleConfig
    <2>3. QED
      BY <1>6, <2>2, StakesStay DEF request_oracle_withdrawal, cancel_oracle_withdrawal
  <1>7. ASSUME NEW o \in Oracle, claim_oracle_rewards(o)
        PROVE  StakeInv'
    <2>1. \A u \in Oracle : /\ oracles'[u].stake = oracles[u].stake
                            /\ oracles'[u].registered = oracles[u].registered
      BY <1>1, <1>7 DEF claim_oracle_rewards, OracleConfig
    <2>2. QED
      BY <1>7, <2>1, StakesStay DEF claim_oracle_rewards
  <1>8. CASE Tick \/ \E amount \in Withdrawal : withdraw_treasury(amount)
    BY <1>8, StakesStay DEF Tick, withdraw_treasury
  <1>9. CASE reset_oracle_registry
    <2> DEFINE g == [o \in Oracle |-> 0]
    <2>1. \A o \in Oracle : oracles'[o].stake = 0
      BY <1>9 DEF reset_oracle_registry, Unregistered
    <2>2. StakeSum' = SumFunction(g)
      BY <2>1 DEF StakeSum
    <2>3. g \in [Oracle -> Int] /\ \A o \in Oracle : g[o] = 0
      OBVIOUS
    <2> HIDE DEF g
    <2>4. SumFunction(g) = Cardinality(Oracle) * 0
      BY <2>3, RegistryAssumption, SumConstant
    <2>5. Cardinality(Oracle) * 0 = 0
      BY RegistryAssumption, FS_CardinalityType
    <2>6. QED
      BY <1>9, <2>1, <2>2, <2>4, <2>5 DEF reset_oracle_registry, StakeInv, StakesAddUp
  <1>10. QED
    BY <1>3, <1>4, <1>5, <1>6, <1>7, <1>8, <1>9 DEF RegistryStep

\* What oracle o loses by a ruling for score c.
Loss(t, c, o) ==
    IF o \in Slashed(t, c)
    THEN IF o \in Expelled(t, c) THEN oracles[o].stake ELSE SlashOf(o)
    ELSE 0

\* A ruling takes from an oracle's stake its loss, and unregisters only whom it takes
\* everything from.
LEMMA RulingLoss ==
    ASSUME EscrowTypeOK, NEW t, NEW c, NEW reward, oracles' = AfterRuling(t, c, reward),
           NEW o \in Oracle
    PROVE  /\ Loss(t, c, o) \in Nat
           /\ oracles'[o].stake = oracles[o].stake - Loss(t, c, o)
           /\ \/ oracles'[o].registered = oracles[o].registered
              \/ oracles'[o].stake = 0
           /\ Loss(t, c, o) <= oracles[o].stake
  <1>1. oracles[o] \in OracleConfig /\ oracles[o].stake \in Nat
    BY DEF EscrowTypeOK, OracleConfig
  <1>2. SlashOf(o) \in Nat /\ SlashOf(o) <= oracles[o].stake
    <2>1. 10 \in 0..100
      OBVIOUS
    <2>2. QED
      BY <1>1, <2>1, PercentBound DEF SlashOf
  <1>3. Less(oracles[o].stake, SlashOf(o)) = oracles[o].stake - SlashOf(o)
    BY <1>1, <1>2, LessFacts
  <1>4. Expelled(t, c) \subseteq Slashed(t, c)
    BY DEF Expelled
  <1>5. CASE o \in Expelled(t, c)
    <2>1. oracles'[o] = Unregistered /\ Unregistered.stake = 0
      BY <1>5 DEF AfterRuling, Unregistered
    <2>2. Loss(t, c, o) = oracles[o].stake
      BY <1>4, <1>5 DEF Loss
    <2>3. QED
      BY <1>1, <2>1, <2>2
  <1>6. CASE o \in Slashed(t, c) \ Expelled(t, c)
    <2> DEFINE left == Less(oracles[o].stake, SlashOf(o))
               r == [oracles[o] EXCEPT !.stake = left, !.violations = @ + 1]
    <2>1. oracles'[o] = r
      BY <1>6 DEF AfterRuling
    <2>2. Loss(t, c, o) = SlashOf(o)
      BY <1>6 DEF Loss
    <2>3. left = oracles[o].stake - SlashOf(o)
      BY <1>3
    <2> HIDE DEF left
    <2>4. r.stake = left /\ r.registered = oracles[o].registered
      BY <1>1, Zenon DEF OracleConfig
    <2> HIDE DEF r
    <2>5. QED
      BY <1>2, <2>1, <2>2, <2>3, <2>4
  <1>7. CASE o \notin Slashed(t, c)
    <2> DEFINE r == [oracles[o] EXCEPT !.rewards = @ + reward]
    <2>1. r.stake = oracles[o].stake /\ r.registered = oracles[o].registered
      BY <1>1 DEF OracleConfig
    <2>2. oracles'[o] = r \/ oracles'[o] = oracles[o]
      BY <1>4, <1>7 DEF AfterRuling
    <2>3. Loss(t, c, o) = 0
      BY <1>7 DEF Loss
    <2> HIDE DEF r
    <2>4. QED
      BY <1>1, <2>1, <2>2, <2>3
  <1>8. QED
    BY <1>5, <1>6, <1>7

\* The losses of a ruling are what it forfeits.
LEMMA LossesAddUp ==
    ASSUME EscrowTypeOK, NEW t, NEW c, NEW reward, oracles' = AfterRuling(t, c, reward)
    PROVE  Forfeited(t, c) = SumFunction([o \in Oracle |-> Loss(t, c, o)])
  <1> DEFINE S == Slashed(t, c)
             h == [o \in S |-> IF o \in Expelled(t, c) THEN oracles[o].stake ELSE SlashOf(o)]
             g == [o \in Oracle |-> Loss(t, c, o)]
  <1>1. S \subseteq Oracle
    BY DEF Slashed, Voters, Registered
  <1>2. \A o \in S : h[o] = Loss(t, c, o)
    BY DEF Loss
  <1>3. g \in [Oracle -> Int] /\ \A o \in Oracle \ S : g[o] = 0
    BY RulingLoss DEF Loss
  <1>4. \A o \in S : g[o] = h[o]
    BY <1>1, <1>2
  <1>5. h \in [S -> Int]
    BY <1>1, <1>2, RulingLoss
  <1>6. IsFiniteSet(Oracle)
    BY RegistryAssumption
  <1>7. Forfeited(t, c) = SumFunction(h)
    BY DEF Forfeited
  <1> HIDE DEF S, h, g
  <1>8. SumFunction(g) = SumFunction(h)
    BY <1>1, <1>3, <1>4, <1>5, <1>6, SumExtend
  <1>9. QED
    BY <1>7, <1>8 DEF g

\* finalize_multi_oracle_dispute takes from the total and from the pool what it takes
\* from the stakes.
LEMMA RulingStakes ==
    ASSUME EscrowTypeOK, EscrowTypeOK', StakeInv, NEW t, NEW c, NEW given, NEW reward,
           NEW slash, SplitStakes(t, c, given, reward, slash), UNCHANGED rewardsFromPool
    PROVE  StakeInv'
  <1> DEFINE f == Stakes
             h == Stakes'
             g == [o \in Oracle |-> Loss(t, c, o)]
             lost == Forfeited(t, c)
  <1>1. /\ oracles' = AfterRuling(t, c, reward)
        /\ lost <= pool
        /\ total_stake' = Less(total_stake, lost)
        /\ pool' = pool - lost
    BY DEF SplitStakes
  <1>2. lost = SumFunction(g)
    BY <1>1, LossesAddUp
  <1>3. \A o \in Oracle : Loss(t, c, o) \in Nat
    BY <1>1, RulingLoss
  <1>4. g \in [Oracle -> Nat] /\ g \in [Oracle -> Int] /\ IsFiniteSet(Oracle)
    BY <1>3, RegistryAssumption
  <1>5. /\ f \in [Oracle -> Int] /\ h \in [Oracle -> Int]
        /\ StakeSum = SumFunction(f) /\ StakeSum' = SumFunction(h)
        /\ SumFunction(f) \in Nat /\ SumFunction(h) \in Nat
    BY StakesTyped, StakesTypedNext DEF StakesNatural
  <1>6. \A o \in Oracle : h[o] = f[o] - g[o]
    BY <1>1, RulingLoss DEF Stakes
  <1> HIDE DEF f, g, h, lost
  <1>7. SumFunction(h) = SumFunction(f) - SumFunction(g) /\ SumFunction(g) \in Nat
    BY <1>4, <1>5, <1>6, SumMinus, SumNat
  <1>8. /\ total_stake \in Nat /\ pool \in Nat /\ rewardsFromPool \in Nat
        /\ total_stake = StakeSum /\ pool + rewardsFromPool = total_stake
    BY DEF StakeInv, StakesAddUp
  <1>9. total_stake' = total_stake - lost
    BY <1>1, <1>2, <1>5, <1>7, <1>8 DEF Less
  <1>10. StakesAddUp'
    BY <1>1, <1>2, <1>5, <1>7, <1>8, <1>9 DEF StakesAddUp
  <1>11. \A o \in Oracle : ~oracles'[o].registered => oracles'[o].stake = 0
    <2> SUFFICES ASSUME NEW o \in Oracle, ~oracles'[o].registered
                 PROVE  oracles'[o].stake = 0
      OBVIOUS
    <2>1. /\ Loss(t, c, o) \in Nat
          /\ oracles'[o].stake = oracles[o].stake - Loss(t, c, o)
          /\ oracles'[o].registered = oracles[o].registered \/ oracles'[o].stake = 0
          /\ Loss(t, c, o) <= oracles[o].stake
      BY <1>1, RulingLoss
    <2>2. CASE oracles'[o].registered = oracles[o].registered
      <3>1. oracles[o].stake = 0
        BY <2>2 DEF StakeInv
      <3>2. QED
        BY <2>1, <3>1
    <2>3. QED
      BY <2>1, <2>2
  <1>12. total_stake' \in Nat /\ pool' \in Nat
    BY <1>1, <1>2, <1>5, <1>7, <1>8, <1>9
  <1>13. QED
    BY <1>8, <1>10, <1>11, <1>12 DEF StakeInv

\* The founders' stakes are the first total.
LEMMA StakeInit == EscrowInit => StakeInv
  <1> SUFFICES ASSUME EscrowInit PROVE StakeInv
    OBVIOUS
  <1> DEFINE s == FounderStake
             f == [o \in Founder |-> s]
             g == Stakes
  <1>1. /\ s \in Nat /\ Founder \subseteq Oracle /\ IsFiniteSet(Oracle)
        /\ IsFiniteSet(Founder)
    BY RegistryAssumption, FS_Subset
  <1>2. /\ total_stake = Cardinality(Founder) * s /\ pool = total_stake
        /\ rewardsFromPool = 0
    BY DEF EscrowInit, RegistryInit
  <1>3. /\ Entry(s, 1, FounderViolations).stake = s
        /\ Entry(s, 1, FounderViolations).registered
        /\ Unregistered.stake = 0
    BY DEF Entry, Unregistered
  <1>4. /\ \A o \in Founder : oracles[o].stake = s /\ oracles[o].registered
        /\ \A o \in Oracle \ Founder : oracles[o].stake = 0
    BY <1>1, <1>3 DEF EscrowInit, RegistryInit
  <1>5. /\ g \in [Oracle -> Int] /\ f \in [Founder -> Int]
        /\ \A o \in Founder : g[o] = f[o] /\ f[o] = s
        /\ \A o \in Oracle \ Founder : g[o] = 0
    BY <1>1, <1>4 DEF Stakes
  <1>6. StakeSum = SumFunction(g)
    BY DEF StakeSum, Stakes
  <1> HIDE DEF f, g, s
  <1>7. SumFunction(g) = SumFunction(f)
    BY <1>1, <1>5, SumExtend
  <1>8. SumFunction(f) = Cardinality(Founder) * s
    BY <1>1, <1>5, SumConstant
  <1>9. Cardinality(Founder) * s \in Nat
    BY <1>1, FS_CardinalityType
  <1>10. QED
    BY <1>1, <1>2, <1>4, <1>6, <1>7, <1>8, <1>9 DEF StakeInv, StakesAddUp

\* Instructions that leave the registry's stakes and balances alone.
LEMMA StakesUntouched ==
    ASSUME StakeInv, UNCHANGED <<oracles, total_stake, pool, rewardsFromPool>>
    PROVE  StakeInv'
  BY DEF StakeInv, StakesAddUp, StakeSum

\* No instruction breaks the sums.
LEMMA StakeStep ==
    ASSUME EscrowInv, EscrowInv', StakeInv, [KamiyoNext]_kamiyoVars
    PROVE  StakeInv'
  <1>1. EscrowTypeOK /\ EscrowTypeOK'
    BY DEF EscrowInv
  <1>2. CASE RegistryStep
    BY <1>1, <1>2, RegistryStakes
  <1>3. CASE \/ pause_protocol \/ unpause_protocol
             \/ UNCHANGED kamiyoVars
    BY <1>3, StakesUntouched DEF pause_protocol, unpause_protocol, registryVars, kamiyoVars
  <1>4. ASSUME NEW t \in Transaction, NEW given, NEW slash,
               finalize_multi_oracle_dispute(t, given, slash)
        PROVE  StakeInv'
    <2>1. UNCHANGED rewardsFromPool
      BY <1>4 DEF finalize_multi_oracle_dispute
    <2>2. PICK c : SplitStakes(t, c, given, RewardPerOracle(t, c, given), slash)
      BY <1>4 DEF finalize_multi_oracle_dispute
    <2>3. QED
      BY <1>1, <2>1, <2>2, RulingStakes
  <1>5. ASSUME NEW t \in Transaction, EscrowStep(t)
        PROVE  StakeInv'
    <2>1. CASE \E given \in SUBSET OptionalAccount, slash \in AgentSlash \cup {0} :
                  finalize_multi_oracle_dispute(t, given, slash)
      BY <1>4, <2>1
    <2>2. CASE UNCHANGED <<oracles, total_stake, pool, rewardsFromPool>>
      BY <2>2, StakesUntouched
    <2>3. QED
      BY <1>5, <2>1, <2>2
         DEF EscrowStep, initialize_escrow, release_funds, mark_disputed, resolve_dispute,
             commit_oracle_score, submit_oracle_score, claim_expired_escrow, registryVars
  <1>6. QED
    BY <1>2, <1>3, <1>5 DEF KamiyoNext

\* The recorded total is the sum of the recorded stakes, and the pool falls short of it
\* by the rewards that withdrawals took out of it since the last reset, for any number
\* of oracles, stakes, rulings and expulsions.
THEOREM StakeSafety == KamiyoSpec => []StakesAddUp
  <1>1. EscrowInv /\ EscrowInv' /\ StakeInv /\ [KamiyoNext]_kamiyoVars => StakeInv'
    BY StakeStep
  <1>2. StakeInv => StakesAddUp
    BY DEF StakeInv
  <1>3. QED
    BY <1>1, <1>2, InitEscrowInv, NextEscrowInv, StakeInit, PTL DEF KamiyoSpec

-----------------------------------------------------------------------------
(* The consensus score *)

\* A non-empty set of scores has a least and a greatest member.
LEMMA ScoreBounds ==
    ASSUME NEW V, V \subseteq 0..100, V # {}
    PROVE  /\ \E m \in V : \A v \in V : m <= v
           /\ \E m \in V : \A v \in V : v <= m
  <1>1. \E m \in V : \A v \in V : m <= v
    <2>1. V \subseteq Nat
      OBVIOUS
    <2>2. QED
      BY <2>1, LeastNatural
  <1>2. \E m \in V : \A v \in V : v <= m
    <2> DEFINE R == {100 - v : v \in V}
    <2>1. R \subseteq Nat /\ R # {}
      <3>1. \A v \in V : 100 - v \in Nat
        OBVIOUS
      <3>2. QED
        BY <3>1
    <2>2. PICK r \in R : \A k \in R : r <= k
      <3> HIDE DEF R
      <3> QED BY <2>1, LeastNatural
    <2>3. PICK m \in V : r = 100 - m
      BY <2>2
    <2>4. ASSUME NEW v \in V
          PROVE  v <= m
      <3>1. 100 - v \in R
        OBVIOUS
      <3>2. 100 - m <= 100 - v
        BY <2>2, <2>3, <3>1
      <3>3. v \in Int /\ m \in Int
        OBVIOUS
      <3>4. QED
        BY <3>2, <3>3
    <2>5. QED
      BY <2>4
  <1>3. QED
    BY <1>1, <1>2

\* Voters whose score is at most s.
UpTo(t, s) == {o \in Voters(t) : Vote(t, o) <= s}

VotesTyped(t) ==
    /\ IsFiniteSet(Voters(t))
    /\ \A o \in Voters(t) : Vote(t, o) \in 0..100

\* The k-th smallest vote exists, if there are k votes.
LEMMA RankedIsVote ==
    ASSUME NEW t, VotesTyped(t), NEW k \in 1..Cardinality(Voters(t))
    PROVE  Ranked(t, k) \in 0..100
  <1> DEFINE S == Voters(t)
             V == {Vote(t, o) : o \in S}
             Below(s) == {o \in S : Vote(t, o) < s}
             W == {s \in V : Cardinality(UpTo(t, s)) >= k}
  <1>1. IsFiniteSet(S) /\ V \subseteq 0..100 /\ Cardinality(S) \in Nat
    BY FS_CardinalityType DEF VotesTyped
  <1>2. S # {} /\ V # {}
    <2>1. Cardinality(S) # 0
      BY <1>1
    <2>2. QED
      BY <1>1, <2>1, FS_EmptySet
  <1>3. \A s : IsFiniteSet(UpTo(t, s)) /\ Cardinality(UpTo(t, s)) \in Nat
    BY <1>1, FS_Subset, FS_CardinalityType DEF UpTo
  <1>4. W # {}
    <2>1. PICK m \in V : \A v \in V : v <= m
      BY <1>1, <1>2, ScoreBounds
    <2>2. UpTo(t, m) = S
      BY <2>1 DEF UpTo
    <2>3. QED
      BY <1>1, <2>1, <2>2
  <1>5. PICK s \in W : \A v \in W : s <= v
    <2>1. W \subseteq 0..100
      BY <1>1
    <2>2. QED
      BY <1>4, <2>1, ScoreBounds
  <1>6. s \in V /\ s \in 0..100 /\ Cardinality(UpTo(t, s)) >= k
    BY <1>1, <1>5
  <1>7. Cardinality(Below(s)) < k
    <2>1. CASE Below(s) = {}
      BY <2>1, FS_EmptySet
    <2>2. CASE Below(s) # {}
      <3> DEFINE B == {Vote(t, o) : o \in Below(s)}
      <3>1. B \subseteq V /\ B # {} /\ B \subseteq 0..100
        BY <1>1, <2>2
      <3>2. PICK b \in B : \A v \in B : v <= b
        BY <3>1, ScoreBounds
      <3>3. b < s /\ b \in V /\ b \in 0..100
        BY <1>6, <3>1, <3>2
      <3>4. \A o \in S : Vote(t, o) \in 0..100
        BY DEF VotesTyped
      <3>5. UpTo(t, b) = Below(s)
        <4>1. ASSUME NEW o \in S
              PROVE  (Vote(t, o) <= b) <=> (Vote(t, o) < s)
          <5>1. Vote(t, o) < s => Vote(t, o) \in B
            OBVIOUS
          <5>2. Vote(t, o) \in Int /\ b \in Int /\ s \in Int
            BY <1>6, <3>3, <3>4
          <5>3. QED
            BY <3>2, <3>3, <5>1, <5>2
        <4>2. QED
          BY <4>1 DEF UpTo
      <3>6. b \notin W
        BY <1>5, <1>6, <3>3
      <3>7. ~ (Cardinality(UpTo(t, b)) >= k)
        BY <3>3, <3>6
      <3>8. QED
        BY <1>3, <3>5, <3>7
    <2>3. QED
      BY <2>1, <2>2
  <1>8. Ranked(t, k) \in V
    BY <1>6, <1>7 DEF Ranked, UpTo
  <1>9. QED
    BY <1>1, <1>8

\* The median of the votes is a score.
LEMMA MedianIsScore ==
    ASSUME NEW t, VotesTyped(t), Voters(t) # {}
    PROVE  Median(t) \in Nat
  <1> DEFINE n == Cardinality(Voters(t))
  <1>1. n \in Nat /\ n # 0
    BY FS_CardinalityType, FS_EmptySet DEF VotesTyped
  <1> HIDE DEF n
  <1>2. CASE n % 2 = 1
    <2>1. (n \div 2) + 1 \in 1..n
      BY <1>1, <1>2
    <2>2. Ranked(t, (n \div 2) + 1) \in 0..100
      BY <2>1, RankedIsVote DEF n
    <2>3. QED
      BY <1>2, <2>2 DEF Median, n
  <1>3. CASE n % 2 # 1
    <2>1. (n \div 2) \in 1..n /\ (n \div 2) + 1 \in 1..n
      BY <1>1, <1>3
    <2>2. Ranked(t, n \div 2) \in 0..100 /\ Ranked(t, (n \div 2) + 1) \in 0..100
      BY <2>1, RankedIsVote DEF n
    <2>3. \A x, y \in 0..100 : (x + y + 1) \div 2 \in Nat
      OBVIOUS
    <2>4. QED
      BY <1>3, <2>2, <2>3 DEF Median, n
  <1>4. QED
    BY <1>2, <1>3

\* The rounded-up quotient of a weighted sum lies between the bounds of its terms.
LEMMA CeilingBetween ==
    ASSUME NEW w \in Nat \ {0}, NEW s \in Nat, NEW lo \in Nat, NEW hi \in Nat,
           lo * w <= s, s <= hi * w
    PROVE  /\ (s + w - 1) \div w \in Nat
           /\ lo <= (s + w - 1) \div w
           /\ (s + w - 1) \div w <= hi
  <1> DEFINE x == s + w - 1
             q == x \div w
  <1>1. x \in Nat
    OBVIOUS
  <1>2. q \in Nat /\ q * w <= x /\ x < q * w + w
    <2> HIDE DEF x
    <2> QED BY <1>1
  <1>3. x = s + w - 1
    OBVIOUS
  <1> HIDE DEF x, q
  <1>4. lo <= q
    <2> SUFFICES ASSUME q + 1 <= lo PROVE FALSE
      BY <1>2
    <2>1. (q + 1) * w <= lo * w
      BY <1>2
    <2>2. (q + 1) * w = q * w + w /\ q * w \in Nat /\ lo * w \in Nat
      BY <1>2
    <2>3. QED
      BY <1>2, <1>3, <2>1, <2>2
  <1>5. q <= hi
    <2> SUFFICES ASSUME hi + 1 <= q PROVE FALSE
      BY <1>2
    <2>1. (hi + 1) * w <= q * w
      BY <1>2
    <2>2. (hi + 1) * w = hi * w + w /\ q * w \in Nat /\ hi * w \in Nat
      BY <1>2
    <2>3. QED
      BY <1>2, <1>3, <2>1, <2>2
  <1>6. QED
    BY <1>2, <1>4, <1>5 DEF q, x

\* A score between two that are near a third is near one of the two.
LEMMA NearOneEnd ==
    ASSUME NEW m \in Nat, NEW d \in Nat, NEW lo \in Nat, NEW hi \in Nat, NEW c \in Nat,
           AbsDiff(lo, m) <= d, AbsDiff(hi, m) <= d, lo <= c, c <= hi
    PROVE  AbsDiff(lo, c) <= d \/ AbsDiff(hi, c) <= d
  BY DEF AbsDiff

\* Weights are natural, so they keep the order of the scores.
LEMMA Weighing ==
    ASSUME NEW a \in Nat, NEW x \in Nat, NEW y \in Nat, x <= y
    PROVE  x * a <= a * y /\ a * x <= y * a
  OBVIOUS

\* The weighted mean of the votes near the median is near one of them: the votes it
\* averages span at most twice the deviation.
LEMMA ConsensusHasSupport ==
    ASSUME NEW t, VotesTyped(t), Voters(t) # {}, WeightInRange(t) > 0,
           \A o \in Voters(t) : oracles[o].weight \in Nat,
           max_score_deviation \in Nat
    PROVE  \E o \in Voters(t) :
              AbsDiff(Vote(t, o), calculate_weighted_consensus(t)) <= max_score_deviation
  <1> DEFINE S == InRange(t)
             V == {Vote(t, o) : o \in S}
             f == [o \in S |-> oracles[o].weight]
             g == [o \in S |-> oracles[o].weight * Vote(t, o)]
             w == SumFunction(f)
             s == SumFunction(g)
             d == max_score_deviation
  <1>1. Median(t) \in Nat /\ d \in Nat
    BY MedianIsScore
  <1>2. /\ S \subseteq Voters(t) /\ IsFiniteSet(S)
        /\ \A o \in S : AbsDiff(Vote(t, o), Median(t)) <= d
        /\ \A o \in S : Vote(t, o) \in 0..100 /\ oracles[o].weight \in Nat
    BY FS_Subset DEF InRange, VotesTyped
  <1>3. w = WeightInRange(t)
    BY DEF WeightInRange
  <1>4. f \in [S -> Nat]
    BY <1>2
  <1>5. g \in [S -> Nat]
    BY <1>2
  <1>6. w \in Nat \ {0} /\ s \in Nat
    <2> HIDE DEF S, f, g
    <2> QED BY <1>2, <1>3, <1>4, <1>5, SumNat
  <1>7. S # {}
    <2> SUFFICES ASSUME S = {} PROVE FALSE
      OBVIOUS
    <2>1. DOMAIN f = {}
      OBVIOUS
    <2>2. SumFunction(f) = 0
      BY <2>1, SumEmpty
    <2>3. QED
      BY <1>6, <2>2
  <1>8. V \subseteq 0..100 /\ V # {}
    BY <1>2, <1>7
  <1>9. PICK lo \in V : \A v \in V : lo <= v
    BY <1>8, ScoreBounds
  <1>10. PICK hi \in V : \A v \in V : v <= hi
    BY <1>8, ScoreBounds
  <1>11. lo \in 0..100 /\ hi \in 0..100 /\ lo \in Nat /\ hi \in Nat
    BY <1>8, <1>9, <1>10
  <1>12. \A o \in S : lo <= Vote(t, o) /\ Vote(t, o) <= hi
    BY <1>9, <1>10
  <1>13. ASSUME NEW b \in Nat
         PROVE  SumFunction([o \in S |-> b * oracles[o].weight]) = b * w
    <2> DEFINE h == [o \in S |-> b * oracles[o].weight]
    <2>1. h \in [S -> Int] /\ f \in [S -> Int] /\ \A o \in S : h[o] = b * f[o]
      BY <1>2
    <2> HIDE DEF h, f, S
    <2>2. SumFunction(h) = b * SumFunction(f)
      BY <1>2, <2>1, SumScaled
    <2>3. QED
      BY <2>2 DEF h
  <1>14. lo * w <= s
    <2> DEFINE h == [o \in S |-> lo * oracles[o].weight]
    <2>1. \A o \in S : lo * oracles[o].weight <= oracles[o].weight * Vote(t, o)
      <3> SUFFICES ASSUME NEW o \in S
                   PROVE  lo * oracles[o].weight <= oracles[o].weight * Vote(t, o)
        OBVIOUS
      <3>1. /\ oracles[o].weight \in Nat /\ Vote(t, o) \in Nat
            /\ lo <= Vote(t, o) /\ Vote(t, o) <= hi
        BY <1>2, <1>12
      <3>2. QED
        BY <1>11, <3>1, Weighing
    <2>2. h \in [S -> Int] /\ g \in [S -> Int] /\ \A o \in S : h[o] <= g[o]
      BY <1>2, <1>5, <1>11, <2>1
    <2>3. SumFunction(h) = lo * w
      BY <1>11, <1>13
    <2> HIDE DEF h, g, S, f
    <2>4. QED
      BY <1>2, <2>2, <2>3, SumMonotone
  <1>15. s <= hi * w
    <2> DEFINE h == [o \in S |-> hi * oracles[o].weight]
    <2>1. \A o \in S : oracles[o].weight * Vote(t, o) <= hi * oracles[o].weight
      <3> SUFFICES ASSUME NEW o \in S
                   PROVE  oracles[o].weight * Vote(t, o) <= hi * oracles[o].weight
        OBVIOUS
      <3>1. /\ oracles[o].weight \in Nat /\ Vote(t, o) \in Nat
            /\ lo <= Vote(t, o) /\ Vote(t, o) <= hi
        BY <1>2, <1>12
      <3>2. QED
        BY <1>11, <3>1, Weighing
    <2>2. h \in [S -> Int] /\ g \in [S -> Int] /\ \A o \in S : g[o] <= h[o]
      BY <1>2, <1>5, <1>11, <2>1
    <2>3. SumFunction(h) = hi * w
      BY <1>11, <1>13
    <2> HIDE DEF h, g, S, f
    <2>4. QED
      BY <1>2, <2>2, <2>3, SumMonotone
  <1> DEFINE q == (s + w - 1) \div w
  <1>16. calculate_weighted_consensus(t) = AtMost(q, 100)
    BY DEF calculate_weighted_consensus, WeightInRange
  <1>17. PICK olo \in S : Vote(t, olo) = lo
    BY <1>9
  <1>18. PICK ohi \in S : Vote(t, ohi) = hi
    BY <1>10
  <1>19. AbsDiff(lo, Median(t)) <= d /\ AbsDiff(hi, Median(t)) <= d
    BY <1>2, <1>17, <1>18
  <1>20. q \in Nat /\ lo <= q /\ q <= hi
    <2> HIDE DEF w, s
    <2> QED BY <1>6, <1>11, <1>14, <1>15, CeilingBetween
  <1>21. AtMost(q, 100) = q
    <2> HIDE DEF q
    <2> QED BY <1>11, <1>20 DEF AtMost
  <1>22. AbsDiff(lo, q) <= d \/ AbsDiff(hi, q) <= d
    <2> HIDE DEF q, d
    <2> QED BY <1>1, <1>11, <1>19, <1>20, NearOneEnd
  <1> HIDE DEF q
  <1>23. QED
    BY <1>2, <1>16, <1>17, <1>18, <1>21, <1>22

\* Revealed scores are scores.
RuledSound(e) == \A o \in e.revealed : e.commitment[o] \in 0..100

RuleInv == \A t \in Transaction : RuledSound(escrows[t])

\* The escrow of t may become e: by a ruling of the oracles only with a supporter.
Supported(t, e) ==
    escrows[t].ruled_by # "oracles" /\ e.ruled_by = "oracles" =>
       \E o \in escrows[t].revealed :
          AbsDiff(Vote(t, o), e.quality_score) <= max_score_deviation

\* The step that RulingHasSupport allows.
SupportedStep == \A t \in Transaction : Supported(t, escrows'[t])

\* An instruction on one escrow.
LEMMA OneEscrowRuled ==
    ASSUME RuleInv, escrows \in [Transaction -> Escrow], NEW t \in Transaction, NEW e,
           escrows' = [escrows EXCEPT ![t] = e], RuledSound(e), Supported(t, e)
    PROVE  RuleInv' /\ SupportedStep
  <1>1. /\ DOMAIN escrows' = Transaction /\ escrows'[t] = e
        /\ \A u \in Transaction : u # t => escrows'[u] = escrows[u]
    OBVIOUS
  <1>2. RuleInv'
    BY <1>1 DEF RuleInv, RuledSound
  <1>3. SupportedStep
    BY <1>1 DEF SupportedStep, Supported
  <1>4. QED
    BY <1>2, <1>3

\* Paying out: a ruling of the oracles needs its supporter.
LEMMA PayoutRuled ==
    ASSUME EscrowInv, RuleInv, NEW t \in Transaction, NEW by, NEW score, NEW status,
           NEW toAgent, NEW toApi, NEW toFees,
           PaysOut(t, status, by, score, toAgent, toApi, toFees),
           by = "oracles" =>
              \E o \in escrows[t].revealed :
                 AbsDiff(Vote(t, o), score) <= max_score_deviation
    PROVE  RuleInv' /\ SupportedStep
  <1> DEFINE left == escrows[t].held
                       - (IF escrows[t].token THEN 0 ELSE toAgent + toApi + toFees)
             e == [escrows[t] EXCEPT !.status = status, !.held = left,
                                     !.quality_score = score, !.ruled_by = by]
  <1>1. escrows \in [Transaction -> Escrow] /\ escrows[t] \in Escrow
    BY DEF EscrowInv, EscrowTypeOK
  <1>2. escrows' = [escrows EXCEPT ![t] = e]
    BY <1>1 DEF PaysOut, Escrow
  <1> HIDE DEF left
  <1>3. /\ e.status = status /\ e.ruled_by = by /\ e.quality_score = score
        /\ e.revealed = escrows[t].revealed /\ e.commitment = escrows[t].commitment
    BY <1>1 DEF Escrow
  <1> HIDE DEF e
  <1>4. RuledSound(e) /\ Supported(t, e)
    BY <1>3 DEF RuleInv, RuledSound, Supported
  <1>5. QED
    BY <1>1, <1>2, <1>4, OneEscrowRuled

\* A dispute decided by its oracles.
LEMMA FinalizeRuled ==
    ASSUME EscrowInv, RuleInv, NEW t \in Transaction, NEW given, NEW slash,
           finalize_multi_oracle_dispute(t, given, slash)
    PROVE  RuleInv' /\ SupportedStep
  <1>1. CanFinalize(t)
    BY DEF finalize_multi_oracle_dispute
  <1>2. PICK c \in 0..100 : /\ c = calculate_weighted_consensus(t)
                            /\ SplitEscrow(t, c, given, RewardPerOracle(t, c, given))
    BY DEF finalize_multi_oracle_dispute
  <1>3. /\ Voters(t) \subseteq Oracle /\ Voters(t) \subseteq escrows[t].revealed
        /\ IsFiniteSet(Voters(t))
    BY RegistryAssumption, FS_Subset DEF Voters, Registered
  <1>4. VotesTyped(t)
    BY <1>3 DEF VotesTyped, Vote, RuleInv, RuledSound
  <1>5. \A o \in Voters(t) : oracles[o].weight \in Nat
    BY <1>3 DEF EscrowInv, EscrowTypeOK, OracleConfig
  <1>6. Voters(t) # {}
    <2>1. Cardinality(Voters(t)) >= MIN_CONSENSUS_ORACLES
      BY <1>1 DEF CanFinalize
    <2>2. MIN_CONSENSUS_ORACLES \in Nat \ {0}
      BY EscrowAssumption
    <2>3. Cardinality({}) = 0
      BY FS_EmptySet
    <2>4. QED
      BY <2>1, <2>2, <2>3
  <1>7. WeightInRange(t) > 0
    BY <1>1 DEF CanFinalize
  <1>8. \E o \in Voters(t) : AbsDiff(Vote(t, o), c) <= max_score_deviation
    BY <1>2, <1>4, <1>5, <1>6, <1>7, ConsensusHasSupport DEF EscrowInv, EscrowTypeOK
  <1>9. \E o \in escrows[t].revealed : AbsDiff(Vote(t, o), c) <= max_score_deviation
    BY <1>3, <1>8
  <1>10. \E toAgent, toApi, toFees :
            PaysOut(t, "Resolved", "oracles", c, toAgent, toApi, toFees)
    BY <1>2 DEF SplitEscrow
  <1>11. QED
    BY <1>9, <1>10, PayoutRuled

\* The instructions before a ruling find the escrow unruled.
LEMMA UnruledSteps ==
    ASSUME EscrowInv, RuleInv, NEW t \in Transaction,
           \/ \E amount \in Amount, lock \in TimeLock, token \in BOOLEAN :
                 initialize_escrow(t, amount, lock, token)
           \/ mark_disputed(t)
           \/ \E o \in Oracle, score \in Score : commit_oracle_score(t, o, score)
           \/ \E o \in Oracle : submit_oracle_score(t, o)
    PROVE  RuleInv' /\ SupportedStep
  <1>1. /\ escrows \in [Transaction -> Escrow] /\ escrows[t] \in Escrow
        /\ RuledSound(escrows[t])
    BY DEF EscrowInv, EscrowTypeOK, RuleInv
  <1>2. ASSUME NEW amount \in Amount, NEW lock \in TimeLock, NEW token \in BOOLEAN,
               initialize_escrow(t, amount, lock, token)
        PROVE  RuleInv' /\ SupportedStep
    <2> DEFINE e == [NoEscrow EXCEPT !.status = "Active", !.amount = amount,
                                     !.token = token,
                                     !.held = IF token THEN 0 ELSE amount,
                                     !.expires_at = now + lock]
    <2>1. escrows' = [escrows EXCEPT ![t] = e]
      BY <1>2 DEF initialize_escrow
    <2>2. e.revealed = {} /\ e.ruled_by = "nobody"
      BY DEF NoEscrow
    <2> HIDE DEF e
    <2>3. RuledSound(e) /\ Supported(t, e)
      BY <2>2 DEF RuledSound, Supported
    <2>4. QED
      BY <1>1, <2>1, <2>3, OneEscrowRuled
  <1>3. CASE mark_disputed(t)
    <2> DEFINE e == [escrows[t] EXCEPT !.status = "Disputed", !.disputed_at = now]
    <2>1. escrows' = [escrows EXCEPT ![t] = e] /\ escrows[t].status = "Active"
      BY <1>1, <1>3 DEF mark_disputed
    <2>2. /\ e.revealed = escrows[t].revealed /\ e.commitment = escrows[t].commitment
          /\ e.ruled_by = escrows[t].ruled_by
      BY <1>1 DEF Escrow
    <2> HIDE DEF e
    <2>3. RuledSound(e) /\ Supported(t, e)
      BY <1>1, <2>1, <2>2 DEF RuledSound, Supported
    <2>4. QED
      BY <1>1, <2>1, <2>3, OneEscrowRuled
  <1>4. ASSUME NEW o \in Oracle, NEW score \in Score, commit_oracle_score(t, o, score)
        PROVE  RuleInv' /\ SupportedStep
    <2> DEFINE ends == IF escrows[t].commit_phase_ends_at = 0
                       THEN now + COMMIT_PHASE_DURATION
                       ELSE escrows[t].commit_phase_ends_at
               votes == [escrows[t].commitment EXCEPT ![o] = score]
               e == [escrows[t] EXCEPT !.commitment = votes,
                                       !.commit_phase_ends_at = ends]
    <2>1. escrows' = [escrows EXCEPT ![t] = e] /\ escrows[t].status = "Disputed"
      BY <1>1, <1>4 DEF commit_oracle_score, Escrow
    <2>2. escrows[t].revealed = {}
      <3>1. now \in Nat /\ escrows[t].commit_phase_ends_at \in Nat
        BY <1>1 DEF EscrowInv, EscrowTypeOK, Escrow
      <3>2. escrows[t].commit_phase_ends_at # 0 =>
               ~(escrows[t].commit_phase_ends_at <= now)
        BY <1>4, <3>1 DEF commit_oracle_score
      <3>3. QED
        BY <3>2 DEF EscrowInv, RevealsFollowCommits
    <2> HIDE DEF ends, votes
    <2>3. e.revealed = {} /\ e.ruled_by = escrows[t].ruled_by
      BY <1>1, <2>2 DEF Escrow
    <2> HIDE DEF e
    <2>4. RuledSound(e) /\ Supported(t, e)
      BY <1>1, <2>1, <2>3 DEF RuledSound, Supported
    <2>5. QED
      BY <1>1, <2>1, <2>4, OneEscrowRuled
  <1>5. ASSUME NEW o \in Oracle, submit_oracle_score(t, o)
        PROVE  RuleInv' /\ SupportedStep
    <2> DEFINE e == [escrows[t] EXCEPT !.revealed = escrows[t].revealed \cup {o}]
    <2>1. /\ escrows' = [escrows EXCEPT ![t] = e] /\ escrows[t].status = "Disputed"
          /\ escrows[t].commitment[o] # NoScore
      BY <1>1, <1>5 DEF submit_oracle_score, Committed
    <2>2. /\ e.revealed = escrows[t].revealed \cup {o} /\ e.commitment = escrows[t].commitment
          /\ e.ruled_by = escrows[t].ruled_by
      BY <1>1 DEF Escrow
    <2>3. escrows[t].commitment[o] \in 0..100
      <3>1. escrows[t].commitment \in [Oracle -> (0..100) \cup {NoScore}]
        BY <1>1 DEF Escrow
      <3>2. QED
        BY <2>1, <3>1
    <2> HIDE DEF e
    <2>4. RuledSound(e) /\ Supported(t, e)
      BY <1>1, <2>1, <2>2, <2>3 DEF RuledSound, Supported
    <2>5. QED
      BY <1>1, <2>1, <2>4, OneEscrowRuled
  <1>6. QED
    BY <1>2, <1>3, <1>4, <1>5

\* No instruction breaks the rulings.
LEMMA RuleStep ==
    ASSUME EscrowInv, RuleInv, [KamiyoNext]_kamiyoVars
    PROVE  RuleInv' /\ SupportedStep
  <1>1. ASSUME UNCHANGED escrows PROVE RuleInv' /\ SupportedStep
    BY <1>1 DEF RuleInv, RuledSound, SupportedStep, Supported
  <1>2. CASE \/ RegistryStep /\ UNCHANGED escrowVars
             \/ pause_protocol \/ unpause_protocol \/ UNCHANGED kamiyoVars
    BY <1>1, <1>2 DEF pause_protocol, unpause_protocol, escrowVars, kamiyoVars
  <1>3. ASSUME NEW t \in Transaction, EscrowStep(t)
        PROVE  RuleInv' /\ SupportedStep
    <2>1. ASSUME NEW by \in {"nobody", "verifier", "expiry"}, NEW status, NEW score,
                 NEW toAgent, NEW toApi, NEW toFees,
                 PaysOut(t, status, by, score, toAgent, toApi, toFees)
          PROVE  RuleInv' /\ SupportedStep
      <3>1. by # "oracles"
        BY <2>1
      <3>2. QED
        BY <2>1, <3>1, PayoutRuled
    <2>2. CASE \/ \E caller \in {"agent", "api"} : release_funds(t, caller)
               \/ claim_expired_escrow(t)
               \/ \E o \in Oracle, score \in Score, percentage \in RefundPercentage :
                     resolve_dispute(t, o, score, percentage)
      <3>1. \E by \in {"nobody", "verifier", "expiry"} :
               \E status, score, toAgent, toApi, toFees :
               PaysOut(t, status, by, score, toAgent, toApi, toFees)
        BY <2>2 DEF release_funds, claim_expired_escrow, resolve_dispute
      <3>2. QED
        BY <2>1, <3>1
    <2>3. CASE \E given \in SUBSET OptionalAccount, slash \in AgentSlash \cup {0} :
                  finalize_multi_oracle_dispute(t, given, slash)
      BY <2>3, FinalizeRuled
    <2>4. QED
      BY <1>3, <2>2, <2>3, UnruledSteps DEF EscrowStep
  <1>4. QED
    BY <1>2, <1>3 DEF KamiyoNext

\* Nothing is ruled at first.
LEMMA RuleInit == EscrowInit => RuleInv
  BY DEF EscrowInit, RuleInv, RuledSound, NoEscrow

\* Every ruling of the oracles has a supporter among them, for any number of oracles,
\* weights, votes and deviations: the rounded weighted mean of the votes near the
\* median is never far from all of them.
THEOREM RulingSafety == KamiyoSpec => RulingHasSupport
  <1>1. EscrowInv /\ RuleInv /\ [KamiyoNext]_kamiyoVars => RuleInv' /\ SupportedStep
    BY RuleStep
  <1>2. SupportedStep =>
           [\A t \in Transaction :
               escrows[t].ruled_by # "oracles" /\ escrows'[t].ruled_by = "oracles" =>
                  \E o \in escrows[t].revealed :
                     AbsDiff(Vote(t, o), escrows'[t].quality_score) <= max_score_deviation
           ]_kamiyoVars
    BY DEF SupportedStep, Supported
  <1>3. QED
    BY <1>1, <1>2, InitEscrowInv, NextEscrowInv, RuleInit, PTL
       DEF KamiyoSpec, RulingHasSupport

=============================================================================
