--------------------------- MODULE OracleRegistry ---------------------------
(***************************************************************************)
(* The oracle registry and the treasury of the on-chain program            *)
(* (programs/kamiyo/src/lib.rs).  Oracles put stake into one pooled        *)
(* account, earn rewards that are recorded beside the stake and leave      *)
(* again after a cooldown or by the hand of the admin, who may also reset  *)
(* the registry as a whole.                                                *)
(*                                                                         *)
(* Every instruction is one Solana transaction, so one step: it happens as *)
(* a whole or, when a require! fails, not at all.  pool and treasury are   *)
(* the lamports of the two accounts above their rent-exempt minimum, which *)
(* the runtime lets no instruction take.                                   *)
(*                                                                         *)
(* The flag public_registration is read by register_oracle alone and the   *)
(* admin flips it at will: register_oracle may happen at any time.         *)
(***************************************************************************)
EXTENDS Naturals, FiniteSets, FiniteSetsExt

CONSTANTS
    Oracle,                       \* the public keys that may become oracles
    Founder,                      \* the ones registered before, with the stake and
    FounderStake,                 \* the violations that earlier disputes left them
    FounderViolations,
    Mobile,                       \* bound: the ones that join, leave or add stake
    MAX_ORACLES,                  \* places in the registry
    MAX_SCORE_DEVIATION,          \* the deviation it was initialized with
    MIN_ORACLE_STAKE,
    LAMPORTS_PER_SOL,             \* stake that buys one unit of weight
    ORACLE_WITHDRAWAL_COOLDOWN,
    Stake,                        \* stakes an oracle may bring
    Addition,                     \* additions to a stake
    AdminWeight,                  \* weights the admin may give
    Withdrawal,                   \* amounts the multi-sig may take
    MaxStake,                     \* bound: no stake is raised past it
    MaxTime                       \* bound: the last value of the clock

ASSUME RegistryAssumption ==
    /\ IsFiniteSet(Oracle)
    /\ Founder \subseteq Oracle
    /\ Mobile \subseteq Oracle
    /\ MAX_SCORE_DEVIATION \in 0..50
    /\ {MAX_ORACLES, MIN_ORACLE_STAKE, FounderStake, FounderViolations,
        MaxStake, MaxTime} \subseteq Nat
    /\ {LAMPORTS_PER_SOL, ORACLE_WITHDRAWAL_COOLDOWN} \subseteq Nat \ {0}
    /\ Stake \subseteq Nat
    /\ Addition \subseteq Nat \ {0}
    /\ AdminWeight \subseteq Nat \ {0}
    /\ Withdrawal \subseteq Nat \ {0}

VARIABLES
    now,            \* Clock::get()?.unix_timestamp
    oracles,        \* OracleRegistry.oracles
    total_stake,    \* OracleRegistry.total_stake
    max_score_deviation,  \* OracleRegistry.max_score_deviation
    pool,           \* lamports of the registry account
    treasury,       \* lamports of the treasury account
    rewardsFromPool \* history: rewards that withdrawals took out of the pool
                    \* since the registry was last reset

registryVars == <<now, oracles, total_stake, max_score_deviation, pool, treasury,
                  rewardsFromPool>>

-----------------------------------------------------------------------------
\* requested_at is 0 while status is 0 (active), as the code sets both together.
OracleConfig ==
    [registered: BOOLEAN, stake: Nat, weight: Nat, violations: Nat,
     rewards: Nat, requested_at: Nat]

Unregistered ==
    [registered |-> FALSE, stake |-> 0, weight |-> 0, violations |-> 0,
     rewards |-> 0, requested_at |-> 0]

Registered == {o \in Oracle : oracles[o].registered}

IsActive(o) == oracles[o].registered /\ oracles[o].requested_at = 0

\* Subtraction that stops at zero (saturating_sub).
Less(a, b) == IF a >= b THEN a - b ELSE 0

AtMost(a, b) == IF a <= b THEN a ELSE b

StakeSum == SumFunction([o \in Oracle |-> oracles[o].stake])

WeightOf_NoMinimum(stake) == (stake \div LAMPORTS_PER_SOL) % 65536

\* One unit of weight per SOL, cast to u16, at least 1.
WeightOf(stake) ==
    LET weight == (stake \div LAMPORTS_PER_SOL) % 65536
    IN  IF weight = 0 THEN 1 ELSE weight

Entry(stake, weight, violations) ==
    [registered |-> TRUE, stake |-> stake, weight |-> weight,
     violations |-> violations, rewards |-> 0, requested_at |-> 0]

RegistryInit ==
    /\ now = 1
    /\ oracles = [o \in Oracle |->
                    IF o \in Founder THEN Entry(FounderStake, 1, FounderViolations)
                    ELSE Unregistered]
    /\ total_stake = Cardinality(Founder) * FounderStake
    /\ max_score_deviation = MAX_SCORE_DEVIATION
    /\ pool = total_stake
    /\ treasury = 0
    /\ rewardsFromPool = 0

-----------------------------------------------------------------------------
(* Joining and leaving *)

Joins(o, stake, weight) ==
    /\ Cardinality(Registered) < MAX_ORACLES
    /\ stake >= MIN_ORACLE_STAKE
    /\ o \notin Registered
    /\ oracles' = [oracles EXCEPT ![o] = Entry(stake, weight, 0)]
    /\ total_stake' = total_stake + stake
    /\ pool' = pool + stake
    /\ UNCHANGED <<now, max_score_deviation, treasury, rewardsFromPool>>

add_oracle(o, stake, weight) == weight > 0 /\ Joins(o, stake, weight)

register_oracle(o, stake) == Joins(o, stake, WeightOf(stake))

increase_oracle_stake(o, additional) ==
    /\ IsActive(o)
    /\ oracles[o].stake + additional <= MaxStake
    /\ oracles' = [oracles EXCEPT ![o].stake = @ + additional,
                                  ![o].weight = WeightOf(oracles[o].stake + additional)]
    /\ total_stake' = total_stake + additional
    /\ pool' = pool + additional
    /\ UNCHANGED <<now, max_score_deviation, treasury, rewardsFromPool>>

request_oracle_withdrawal(o) ==
    /\ IsActive(o)
    /\ oracles' = [oracles EXCEPT ![o].requested_at = now]
    /\ UNCHANGED <<now, total_stake, max_score_deviation, pool, treasury, rewardsFromPool>>

cancel_oracle_withdrawal(o) ==
    /\ oracles[o].requested_at # 0
    /\ oracles' = [oracles EXCEPT ![o].requested_at = 0]
    /\ UNCHANGED <<now, total_stake, max_score_deviation, pool, treasury, rewardsFromPool>>

\* The oracle leaves with payout lamports of the pool, rewards of them rewards.
Leaves(o, rewards) ==
    /\ oracles[o].stake + rewards <= pool
    /\ oracles' = [oracles EXCEPT ![o] = Unregistered]
    /\ total_stake' = Less(total_stake, oracles[o].stake)
    /\ pool' = pool - (oracles[o].stake + rewards)
    /\ rewardsFromPool' = rewardsFromPool + rewards
    /\ UNCHANGED <<now, max_score_deviation, treasury>>

\* The rewards were never put into the pool: finalize_multi_oracle_dispute
\* sends them to the treasury.
complete_oracle_withdrawal(o) ==
    /\ oracles[o].requested_at # 0
    /\ now >= oracles[o].requested_at + ORACLE_WITHDRAWAL_COOLDOWN
    /\ Leaves(o, oracles[o].rewards)

\* The admin's removal returns the stake; recorded rewards are dropped.
remove_oracle(o) ==
    /\ oracles[o].registered
    /\ Leaves(o, 0)

\* The admin empties the registry, takes the whole pool and writes the header of a
\* fresh one; recorded stakes and rewards are gone.
reset_oracle_registry ==
    /\ oracles' = [o \in Oracle |-> Unregistered]
    /\ total_stake' = 0
    /\ max_score_deviation' = 15
    /\ pool' = 0
    /\ rewardsFromPool' = 0
    /\ UNCHANGED <<now, treasury>>

-----------------------------------------------------------------------------
(* The treasury and the clock *)

claim_oracle_rewards(o) ==
    /\ oracles[o].rewards > 0
    /\ treasury >= oracles[o].rewards
    /\ oracles' = [oracles EXCEPT ![o].rewards = 0]
    /\ treasury' = treasury - oracles[o].rewards
    /\ UNCHANGED <<now, total_stake, max_score_deviation, pool, rewardsFromPool>>

withdraw_treasury(amount) ==
    /\ amount <= treasury
    /\ treasury' = treasury - amount
    /\ UNCHANGED <<now, oracles, total_stake, max_score_deviation, pool, rewardsFromPool>>

Tick ==
    /\ now < MaxTime
    /\ now' = now + 1
    /\ UNCHANGED <<oracles, total_stake, max_score_deviation, pool, treasury, rewardsFromPool>>

RegistryStep ==
    \/ \E o \in Mobile, stake \in Stake, weight \in AdminWeight :
          add_oracle(o, stake, weight)
    \/ \E o \in Mobile, stake \in Stake : register_oracle(o, stake)
    \/ \E o \in Mobile, additional \in Addition : increase_oracle_stake(o, additional)
    \/ \E o \in Mobile : \/ request_oracle_withdrawal(o)
                         \/ cancel_oracle_withdrawal(o)
                         \/ complete_oracle_withdrawal(o)
                         \/ remove_oracle(o)
    \/ reset_oracle_registry
    \/ \E o \in Oracle : claim_oracle_rewards(o)
    \/ \E amount \in Withdrawal : withdraw_treasury(amount)
    \/ Tick
=============================================================================
