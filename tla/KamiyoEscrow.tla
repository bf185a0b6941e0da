---------------------------- MODULE KamiyoEscrow ----------------------------
(***************************************************************************)
(* Escrows and their disputes in the on-chain program                      *)
(* (programs/kamiyo/src/lib.rs), over the oracle registry.  An agent locks *)
(* an amount for an API; the money leaves the escrow by a release, by a    *)
(* dispute that one verifier or a vote of the oracles decides, or by a     *)
(* claim after the grace period.  Oracles vote by commit and reveal.       *)
(*                                                                         *)
(* Signatures and hashes are taken at their word: a commitment binds its   *)
(* oracle to one score and only that score can be revealed.  Reputation,   *)
(* events and the counters of the treasury are left out, no guard of these *)
(* instructions reads them.  The wallets and the agent's identity are      *)
(* outside the model: what an escrow paid is in `paid', what a lost        *)
(* dispute takes from the identity is an input.                            *)
(*                                                                         *)
(* So are the token accounts of an escrow in tokens.  The caller of every  *)
(* instruction names them, and the program checks that those of the agent  *)
(* and the API are theirs, but neither that the deposit went into, or is   *)
(* drawn from, an account of the escrow nor whose the treasury's is.  A    *)
(* token payment is the transfers it orders; the token program carries out *)
(* all of them or fails the instruction, which then does not happen.       *)
(***************************************************************************)
EXTENDS OracleRegistry

CONSTANTS
    Transaction,              \* escrow accounts, one per agent and transaction id
    Amount,                   \* amounts an agent may lock
    TimeLock,                 \* time locks an agent may choose
    Score,                    \* quality scores the oracles and verifiers give
    RefundPercentage,         \* percentages a single verifier may choose
    AgentSlash,               \* twentieths of the stakes agent identities have
    NoScore,                  \* no commitment, no ruling
    MIN_CONSENSUS_ORACLES,
    TIER2_ESCROW_THRESHOLD,
    TIER3_ESCROW_THRESHOLD,
    MAX_COMMITMENTS,          \* places for commitments in the escrow account
    MAX_ORACLE_SLASH_VIOLATIONS,
    MIN_CREATION_FEE,
    COMMIT_PHASE_DURATION,
    REVEAL_PHASE_DURATION,
    ORACLE_REVEAL_DELAY,
    GRACE_PERIOD_SECONDS

ASSUME EscrowAssumption ==
    /\ Amount \subseteq Nat
    /\ TimeLock \subseteq Nat \ {0}
    /\ Score \subseteq 0..100
    /\ RefundPercentage \subseteq 0..100
    /\ AgentSlash \subseteq Nat
    /\ NoScore \notin 0..100
    /\ MIN_CONSENSUS_ORACLES \in Nat \ {0}
    /\ {TIER2_ESCROW_THRESHOLD, TIER3_ESCROW_THRESHOLD,
        MAX_COMMITMENTS, MAX_ORACLE_SLASH_VIOLATIONS, MIN_CREATION_FEE,
        COMMIT_PHASE_DURATION, REVEAL_PHASE_DURATION, ORACLE_REVEAL_DELAY,
        GRACE_PERIOD_SECONDS} \subseteq Nat

VARIABLES
    paused,      \* ProtocolConfig.paused
    escrows,     \* the Escrow accounts
    paid         \* the transfers an escrow made: to agent, API, and for fees

escrowVars == <<paused, escrows, paid>>
kamiyoVars == <<registryVars, escrowVars>>

-----------------------------------------------------------------------------
Status == {"None", "Active", "Released", "Disputed", "Resolved"}

\* held: the lamports of the escrow account above its rent.
\* 0 stands for None in disputed_at and commit_phase_ends_at.
\* ruled_by: the event that announced the end, the instruction's name for short.
Escrow ==
    [status: Status, amount: Nat, token: BOOLEAN, held: Nat, expires_at: Nat,
     disputed_at: Nat, commit_phase_ends_at: Nat,
     commitment: [Oracle -> (0..100) \cup {NoScore}], revealed: SUBSET Oracle,
     quality_score: (0..100) \cup {NoScore},
     ruled_by: {"nobody", "verifier", "oracles", "expiry"}]

NoEscrow ==
    [status |-> "None", amount |-> 0, token |-> FALSE, held |-> 0,
     expires_at |-> 0, disputed_at |-> 0, commit_phase_ends_at |-> 0,
     commitment |-> [o \in Oracle |-> NoScore], revealed |-> {},
     quality_score |-> NoScore, ruled_by |-> "nobody"]

\* fees: to the treasury, or in tokens to the account named as the treasury's.
Payout == [agent: Nat, api: Nat, fees: Nat]

\* The types of the registry entries and of the escrow accounts; whoever is
\* registered has a weight.  The pooled balances are the subject of StakesAddUp.
EscrowTypeOK ==
    /\ now \in Nat \ {0}
    /\ max_score_deviation \in 0..50
    /\ oracles \in [Oracle -> OracleConfig]
    /\ \A o \in Registered : oracles[o].weight > 0
    /\ paused \in BOOLEAN
    /\ escrows \in [Transaction -> Escrow]
    /\ paid \in [Transaction -> Payout]

EscrowInit ==
    /\ RegistryInit
    /\ paused = FALSE
    /\ escrows = [t \in Transaction |-> NoEscrow]
    /\ paid = [t \in Transaction |-> [agent |-> 0, api |-> 0, fees |-> 0]]

-----------------------------------------------------------------------------
(* The pause switch *)

pause_protocol ==
    /\ ~paused
    /\ paused' = TRUE
    /\ UNCHANGED <<registryVars, escrows, paid>>

unpause_protocol ==
    /\ paused
    /\ paused' = FALSE
    /\ UNCHANGED <<registryVars, escrows, paid>>

-----------------------------------------------------------------------------
(* Money out of an escrow *)

Percent(amount, percentage) == (amount * percentage) \div 100

IsOpen(t) == escrows[t].status \in {"Active", "Disputed"}

\* The escrow ends in status, ruled by someone with some score, and pays out.
\* The runtime refuses to take more lamports than the account holds.
PaysOut(t, status, by, score, toAgent, toApi, toFees) ==
    LET lamports == IF escrows[t].token THEN 0 ELSE toAgent + toApi + toFees
    IN  /\ lamports <= escrows[t].held
        /\ escrows' = [escrows EXCEPT
                         ![t].status = status,
                         ![t].held = @ - lamports,
                         ![t].quality_score = score,
                         ![t].ruled_by = by]
        /\ paid' = [paid EXCEPT ![t] = [agent |-> paid[t].agent + toAgent,
                                        api |-> paid[t].api + toApi,
                                        fees |-> paid[t].fees + toFees]]

\* The fee of 0.1%, or a flat one for tokens, is paid in lamports.
CreationFee(amount, token) ==
    LET fee == (amount * 10) \div 10000
    IN  IF token \/ fee < MIN_CREATION_FEE THEN MIN_CREATION_FEE ELSE fee

initialize_escrow(t, amount, lock, token) ==
    /\ ~paused
    /\ escrows[t].status = "None"
    /\ treasury' = treasury + CreationFee(amount, token)
    /\ escrows' = [escrows EXCEPT ![t] =
                     [NoEscrow EXCEPT !.status = "Active", !.amount = amount,
                                      !.token = token,
                                      !.held = IF token THEN 0 ELSE amount,
                                      !.expires_at = now + lock]]
    /\ UNCHANGED <<now, oracles, total_stake, max_score_deviation, pool,
                   rewardsFromPool, paused, paid>>

\* The agent releases at any time, the API once the time lock has run out.
release_funds(t, caller) ==
    /\ ~paused
    /\ escrows[t].status = "Active"
    /\ caller = "agent" \/ now >= escrows[t].expires_at
    /\ PaysOut(t, "Released", "nobody", NoScore, 0, escrows[t].amount, 0)
    /\ UNCHANGED <<registryVars, paused>>

mark_disputed(t) ==
    /\ ~paused
    /\ escrows[t].status = "Active"
    /\ now < escrows[t].expires_at
    /\ escrows' = [escrows EXCEPT ![t].status = "Disputed", ![t].disputed_at = now]
    /\ UNCHANGED <<registryVars, paused, paid>>

\* One registered oracle signs a score; the percentage is the caller's.
resolve_dispute(t, verifier, score, percentage) ==
    LET refund == Percent(escrows[t].amount, percentage)
    IN  /\ ~paused
        /\ IsOpen(t)
        /\ oracles[verifier].registered
        /\ PaysOut(t, "Resolved", "verifier", score,
                   refund, Less(escrows[t].amount, refund), 0)
        /\ UNCHANGED <<registryVars, paused>>

claim_expired_escrow(t) ==
    LET half == escrows[t].amount \div 2
    IN  /\ ~paused
        /\ now >= escrows[t].expires_at + GRACE_PERIOD_SECONDS
        /\ \/ /\ escrows[t].status = "Active"
              /\ PaysOut(t, "Resolved", "expiry", 50, escrows[t].amount, 0, 0)
           \/ /\ escrows[t].status = "Disputed"
              /\ PaysOut(t, "Resolved", "expiry", 50,
                         half, Less(escrows[t].amount, half), 0)
        /\ UNCHANGED <<registryVars, paused>>

-----------------------------------------------------------------------------
(* The vote of the oracles *)

Committed(t) == {o \in Oracle : escrows[t].commitment[o] # NoScore}

commit_oracle_score_NoDeadline(t, o, score) ==
    /\ ~paused
    /\ escrows[t].status = "Disputed"
    /\ IsActive(o)
    /\ o \notin Committed(t)
    /\ Cardinality(Committed(t)) < MAX_COMMITMENTS
    /\ escrows' = [escrows EXCEPT
                     ![t].commitment[o] = score,
                     ![t].commit_phase_ends_at =
                         IF @ = 0 THEN now + COMMIT_PHASE_DURATION ELSE @]
    /\ UNCHANGED <<registryVars, paused, paid>>

\* The first commitment opens the commit phase, the others fall into it.
commit_oracle_score(t, o, score) ==
    LET e == escrows[t]
    IN  /\ ~paused
        /\ e.status = "Disputed"
        /\ IsActive(o)
        /\ o \notin Committed(t)
        /\ Cardinality(Committed(t)) < MAX_COMMITMENTS
        /\ e.commit_phase_ends_at # 0 => now < e.commit_phase_ends_at
        /\ escrows' = [escrows EXCEPT
                         ![t].commitment[o] = score,
                         ![t].commit_phase_ends_at =
                             IF @ = 0 THEN now + COMMIT_PHASE_DURATION ELSE @]
        /\ UNCHANGED <<registryVars, paused, paid>>

submit_oracle_score(t, o) ==
    LET e == escrows[t]
    IN  /\ ~paused
        /\ e.status = "Disputed"
        /\ e.commit_phase_ends_at # 0
        /\ now >= e.commit_phase_ends_at
        /\ now < e.commit_phase_ends_at + REVEAL_PHASE_DURATION
        /\ IsActive(o)
        /\ o \in Committed(t) \ e.revealed
        /\ escrows' = [escrows EXCEPT ![t].revealed = @ \cup {o}]
        /\ UNCHANGED <<registryVars, paused, paid>>

required_oracle_count(amount) ==
    CASE amount >= TIER3_ESCROW_THRESHOLD -> 5
      [] amount < TIER3_ESCROW_THRESHOLD /\ amount >= TIER2_ESCROW_THRESHOLD -> 4
      [] OTHER -> MIN_CONSENSUS_ORACLES

\* Half of the registered oracles, and never fewer than the tier asks for.
HasQuorum(t) ==
    LET votes == Cardinality(escrows[t].revealed)
    IN  /\ votes >= required_oracle_count(escrows[t].amount)
        /\ votes >= (Cardinality(Registered) * 50) \div 100

\* The votes that count: those of oracles still registered.
Voters(t) == escrows[t].revealed \cap Registered

Vote(t, o) == escrows[t].commitment[o]

AbsDiff(a, b) == IF a >= b THEN a - b ELSE b - a

\* The k-th smallest vote.
Ranked(t, k) ==
    CHOOSE s \in {Vote(t, o) : o \in Voters(t)} :
       /\ Cardinality({o \in Voters(t) : Vote(t, o) < s}) < k
       /\ Cardinality({o \in Voters(t) : Vote(t, o) <= s}) >= k

\* The middle vote, or the mean of the two middle ones rounded up.
Median(t) ==
    LET n == Cardinality(Voters(t))
    IN  IF n % 2 = 1 THEN Ranked(t, (n \div 2) + 1)
        ELSE (Ranked(t, n \div 2) + Ranked(t, (n \div 2) + 1) + 1) \div 2

InRange(t) ==
    {o \in Voters(t) : AbsDiff(Vote(t, o), Median(t)) <= max_score_deviation}

WeightInRange(t) == SumFunction([o \in InRange(t) |-> oracles[o].weight])

calculate_weighted_consensus_PerVote(t) ==
    LET votes == Cardinality(InRange(t))
        sum   == SumFunction([o \in InRange(t) |-> oracles[o].weight * Vote(t, o)])
    IN  AtMost((sum + votes - 1) \div votes, 100)

\* The weighted mean, rounded up, of the votes near the median; there is none if
\* no vote is near it.
calculate_weighted_consensus(t) ==
    LET weight == WeightInRange(t)
        sum    == SumFunction([o \in InRange(t) |-> oracles[o].weight * Vote(t, o)])
    IN  AtMost((sum + weight - 1) \div weight, 100)

calculate_refund_from_quality(score) ==
    CASE score < 50 -> 100
      [] score >= 50 /\ score < 65 -> 75
      [] score >= 65 /\ score < 80 -> 35
      [] OTHER -> 0

Agreeing(t, c) == {o \in Voters(t) : AbsDiff(Vote(t, o), c) <= max_score_deviation}

SlashOf(o) == Percent(oracles[o].stake, 10)

Slashed(t, c) == {o \in Voters(t) \ Agreeing(t, c) : SlashOf(o) > 0}

Expelled(t, c) ==
    {o \in Slashed(t, c) : oracles[o].violations + 1 >= MAX_ORACLE_SLASH_VIOLATIONS}

Forfeited_TenthOnly(t, c) == SumFunction([o \in Slashed(t, c) |-> SlashOf(o)])

\* What leaves the pool: a tenth of the stake of a dissenter, and the rest of it
\* too if this was one violation too many.
Forfeited(t, c) ==
    SumFunction([o \in Slashed(t, c) |->
                   IF o \in Expelled(t, c) THEN oracles[o].stake ELSE SlashOf(o)])

AfterRuling(t, c, reward) ==
    [o \in Oracle |->
       IF o \in Expelled(t, c) THEN Unregistered
       ELSE IF o \in Slashed(t, c)
            THEN [oracles[o] EXCEPT !.stake = Less(@, SlashOf(o)), !.violations = @ + 1]
       ELSE IF o \in Agreeing(t, c)
            THEN [oracles[o] EXCEPT !.rewards = @ + reward]
       ELSE oracles[o]]

\* The caller decides which optional accounts it passes.
OptionalAccount == {"treasury", "treasury_token_account"}

\* Where fees and rewards of the escrow can go.
RewardsEnabled(t, given) ==
    (IF escrows[t].token THEN "treasury_token_account" ELSE "treasury") \in given

\* One percent of the amount each for the protocol and for the voters together,
\* out of the payment to the API and never more than that.
ProtocolFee(amount, payment) == AtMost(Percent(amount, 1), payment)

RewardPerOracle_AlwaysOn(t, c, given) ==
    LET amount  == escrows[t].amount
        payment == Less(amount, Percent(amount, calculate_refund_from_quality(c)))
        budget  == Less(payment, ProtocolFee(amount, payment))
    IN  AtMost(Percent(amount, 1), budget) \div Cardinality(escrows[t].revealed)

RewardPerOracle(t, c, given) ==
    LET amount  == escrows[t].amount
        payment == Less(amount, Percent(amount, calculate_refund_from_quality(c)))
        budget  == Less(payment, ProtocolFee(amount, payment))
    IN  IF RewardsEnabled(t, given)
        THEN AtMost(Percent(amount, 1), budget) \div Cardinality(escrows[t].revealed)
        ELSE 0

\* Enough votes, the delay over and, among the voters still registered, a
\* consensus.  The reveal phase need not be over.
CanFinalize(t) ==
    /\ ~paused
    /\ escrows[t].status = "Disputed"
    /\ HasQuorum(t)
    /\ now >= escrows[t].disputed_at + ORACLE_REVEAL_DELAY
    /\ Cardinality(Voters(t)) >= MIN_CONSENSUS_ORACLES
    /\ WeightInRange(t) > 0

\* The escrow is split by the refund for score c; fees and rewards come out of
\* the payment to the API.
SplitEscrow(t, c, given, reward) ==
    LET amount  == escrows[t].amount
        refund  == Percent(amount, calculate_refund_from_quality(c))
        payment == Less(amount, refund)
        fee     == ProtocolFee(amount, payment)
        rewards == reward * Cardinality(Agreeing(t, c))
        toApi   == Less(Less(payment, fee), rewards)
    IN  IF RewardsEnabled(t, given)
        THEN PaysOut(t, "Resolved", "oracles", c, refund, toApi, fee + rewards)
        ELSE PaysOut(t, "Resolved", "oracles", c, refund, toApi + fee, 0)

\* Slashed stakes go to the treasury if the caller passed it, else to the API;
\* so does slash, the twentieth that a lost dispute costs the agent's identity.
SplitStakes(t, c, given, reward, slash) ==
    /\ calculate_refund_from_quality(c) # 0 => slash = 0
    /\ Forfeited(t, c) <= pool
    /\ oracles' = AfterRuling(t, c, reward)
    /\ total_stake' = Less(total_stake, Forfeited(t, c))
    /\ pool' = pool - Forfeited(t, c)
    /\ treasury' = treasury
         + (IF "treasury" \in given THEN slash + Forfeited(t, c) ELSE 0)
         + (IF escrows[t].token THEN 0 ELSE paid'[t].fees)

finalize_multi_oracle_dispute(t, given, slash) ==
    /\ CanFinalize(t)
    /\ \E c \in {calculate_weighted_consensus(t)} \cap (0..100) :
          LET reward == RewardPerOracle(t, c, given)
          IN  /\ SplitEscrow(t, c, given, reward)
              /\ SplitStakes(t, c, given, reward, slash)
    /\ UNCHANGED <<now, max_score_deviation, rewardsFromPool, paused>>

-----------------------------------------------------------------------------
EscrowStep(t) ==
    \/ \E amount \in Amount, lock \in TimeLock, token \in BOOLEAN :
          initialize_escrow(t, amount, lock, token)
    \/ \E caller \in {"agent", "api"} : release_funds(t, caller)
    \/ mark_disputed(t)
    \/ \E o \in Oracle, score \in Score, percentage \in RefundPercentage :
          resolve_dispute(t, o, score, percentage)
    \/ \E o \in Oracle, score \in Score : commit_oracle_score(t, o, score)
    \/ \E o \in Oracle : submit_oracle_score(t, o)
    \/ \E given \in SUBSET OptionalAccount, slash \in AgentSlash \cup {0} :
          finalize_multi_oracle_dispute(t, given, slash)
    \/ claim_expired_escrow(t)

KamiyoNext ==
    \/ RegistryStep /\ UNCHANGED escrowVars
    \/ pause_protocol
    \/ unpause_protocol
    \/ \E t \in Transaction : EscrowStep(t)

KamiyoSpec == EscrowInit /\ [][KamiyoNext]_kamiyoVars

-----------------------------------------------------------------------------
(* Properties *)

\* The lamports of an escrow are all there until it ends, and an ended escrow has
\* paid its amount exactly once, in lamports or in tokens, whichever way it ended:
\* no rounding, missing treasury or capped fee sends more or leaves a remainder.
\* Of an escrow in tokens this says nothing about the balance behind it.
EscrowConserved ==
    \A t \in Transaction :
       LET out == paid[t].agent + paid[t].api + paid[t].fees
           e   == escrows[t]
       IN  IF IsOpen(t) THEN e.held = (IF e.token THEN 0 ELSE e.amount) /\ out = 0
           ELSE e.held = 0 /\ out = e.amount

\* Commitments are sealed before scores show: once one oracle of a dispute has
\* revealed its score, no commitment is added to the dispute or changed.
CommitsSealed ==
    [][\A t \in Transaction :
          escrows[t].revealed # {} =>
             escrows'[t].commitment = escrows[t].commitment]_kamiyoVars

\* Every ruling of the oracles has a supporter among its voters: the consensus
\* score is never so far from all of them that all of them are slashed.
RulingHasSupport ==
    [][\A t \in Transaction :
          escrows[t].ruled_by # "oracles" /\ escrows'[t].ruled_by = "oracles" =>
             \E o \in escrows[t].revealed :
                AbsDiff(Vote(t, o), escrows'[t].quality_score) <= max_score_deviation
      ]_kamiyoVars

\* The recorded total is the sum of the recorded stakes through joins, slashes,
\* expulsions, withdrawals and resets, and the pool falls short of it by exactly
\* the rewards that withdrawals paid out of it since the last reset.
StakesAddUp ==
    /\ total_stake = StakeSum
    /\ pool + rewardsFromPool = total_stake

\* The registry account holds what its oracles have staked, as the comment in
\* finalize_multi_oracle_dispute wants it.
PoolCoversStakes == pool >= StakeSum

=============================================================================
