# A TLA+ verification of the KAMIYO payment core

This directory holds TLA+ models of the parts of the KAMIYO protocol repository
that hold and move money, the TLC configurations that check them on small
instances and TLAPS proofs of their main properties for every instance.

Two parts are modelled. `services/x402-facilitator` is an HTTP service that pays
merchants on behalf of agents: out of its own wallets, secured by **Kizuna
credit** (prefund locked in advance, or a debt against collateral), or out of the
payer's wallet for a signed payment or a **payment session**. Money is moved on a
chain, accounted for in PostgreSQL, confirmed to a credit kernel and repaid from
credits kept by `services/api`, so the questions worth asking are about
interleavings, partial failure and retries. `programs/kamiyo` is the Solana
program that holds **escrows** and lets staked oracles rule on disputes; there an
instruction is atomic, and the questions are about sequences of instructions,
time windows, rounding and who owns pooled money.

This is a small part of a large repository: the definitions stand for about 3,800
of its 336,000 implementation lines (1.1%). Nothing here says anything about
the services, packages and programs listed as not modelled in `PROJECT.json`.

## 1. Inventory

| Component | State | Operations | Interacts with |
|---|---|---|---|
| Credit ledger (`x402-facilitator/src/db/queries.ts`) | reservations, enterprise balances, pool reserves, debts, settlements, fee ledger, billable events, repayments, funding events, trust-event outbox | `createKizunaReservation`, `releaseKizunaReservation`, `insertSettlement`, `updateSettlementStatus`, `finalizeKizunaSettlement`, `applyKizunaRepayment`, `applyKizunaFundingEvent`; one transaction each | every route below |
| Settle handler, Kizuna branch (`routes/settle.ts`) | one activation per request | read, replay, expire, insert, pay, finalize, commit, catch | ledger, chain, kernel |
| Settle handler, session and plain branches (`routes/settle.ts`) | `payment_nonce_guard`, settlements, fee ledger; one activation per request | read, reserve nonce, reserve budget, insert, link, pay, record, catch | sessions, chain |
| Payment sessions (`routes/session.ts`) | `session_challenges`, `payment_sessions` | challenge, authorize, revoke, draw, give back | settle handler |
| Repayment (`routes/kizuna.ts`, `services/api/src/db.ts`) | ledger; credits, deposits, usage and internal debits of the API | read, debit, apply, ingest; deposit, deduct | ledger, credits service, kernel |
| Trust sync (`services/fairscale-trust-sync.ts`) | outbox columns; a batch per run | lease, post, mark delivered, mark failed, requeue | ledger (same tables), FairScale |
| Oracle registry and treasury (`programs/kamiyo/src/lib.rs`) | oracles with stake, weight, violations, rewards; pooled lamports, treasury | join, leave with cooldown, add stake, claim rewards, withdraw, reset | escrows |
| Escrows and disputes (`programs/kamiyo/src/lib.rs`) | escrow accounts with commitments and reveals; pause switch | initialize, release, dispute, resolve, commit, reveal, finalize, claim expired, pause | registry, treasury |

What is hard: two requests for one nonce or one challenge; state read before an
on-chain transfer and used after it; a transfer that was sent but not seen to
confirm; a crash or a failing statement between payment and bookkeeping; an answer
of another service that is lost; credit that nobody frees; leases that do not say
who holds them; counters clamped at zero; retries with the same reference; oracles
that leave between their vote and the ruling; rewards recorded in one account and
kept in another. Correctness means: credit is charged once and only for executed
payments, no payment is made without credit or consent behind it, balances and
pools agree with the rows they summarise, replies are true, every request is
answered, FairScale hears of exactly what was committed, and every lamport of an
escrow leaves it exactly once. `PROJECT.json` lists the hazards at the lines where
they bite, with the properties that cover them.

## 2. Modules

```
KizunaLedger ──┬─ KizunaSettle ──── KizunaSettleProofs  ┐
               ├─ FairscaleSync ─── FairscaleSyncProofs ├─ use KizunaLedgerProofs
               └─ KizunaRepay ───── KizunaRepayProofs   ┘
PaymentSessions ── GuardedSettle ── GuardedSettleProofs ── GuardedBudgetProofs
                        └─ INSTANCE PaymentBudget (the abstract specification)
OracleRegistry ── KamiyoEscrow ──── KamiyoEscrowProofs
SumTheorems: sums over finite sets, used by the ledger, budget and escrow proofs
```

Each `MC…` module instantiates the module it is named after.

**KizunaLedger** is the abstract specification of the database: one action per
committed transaction, named as in the source. Row tables are partial functions,
`debts` a sequence in `created_at` order. A transaction that throws is rolled
back by `withTransaction` and is no step; in particular the branch of
`finalizeKizunaSettlement` that writes `expired` and then throws. Time is the set
`lapsed` of nonces whose `expires_at` has passed. A tx hash is abstracted to the
settlement that carries it; amounts are natural numbers (`NUMERIC`/`bigint` in the
code, which do not overflow). A reservation's key is its nonce
(`UNIQUE (payer_wallet, request_nonce)`). Pools may be seeded by the migrations or
not (`SeedLane`): a request may name any pool, and the first lane to do so owns
the row. The repay route always passes both lane and pool, so a repayment touches
one pool. Not in the model: the `collateral_value` column and collateral
positions, accounts, underwrite decisions.

**KizunaSettle** composes the ledger with any number of settle requests. A request
advances one await per step; `pc` names the await:

| pc | code (`routes/settle.ts`) |
|---|---|
| `read` | `getKizunaReservationByNonce` and the checks that follow |
| `replay` | a consumed reservation: kernel commit again, answer from the row |
| `expire` | `releaseKizunaReservation(…, 'expired').catch(() => {})` |
| `insert`, `pay` | `insertSettlement('pending')`, `settlePayment` / `settlePaymentBase` |
| `finalize`, `billable`, `commit` | `finalizeKizunaSettlement`, `getKizunaBillableSettlementEvent`, kernel commit |
| `catch`, `catchPaid`, `release` | the catch block before and after `onchain` was set |

What may go wrong is the constant `Disturbance`, so that a run names exactly the
circumstances it assumes: `concurrent` (two requests for one nonce overlap),
`lapse`, `release` (the internal route), `unconfirmed` (sent, not seen to
confirm), `kernel` (commit call fails, processed or not), `db` (a statement
fails), `crash`. The checks that only refuse (signature, wallets, network,
decision envelope) are left out: refusing earlier changes nothing. The chain and
the kernel are external and modelled from their use. When the commit
acknowledgement of the finalize is lost, the handler goes on exactly as when
`ReadBillable` fails, which is modelled.

**FairscaleSync** composes the ledger with `Flusher` concurrent runs of
`flushFairscaleTrustEventsOnce` (timer ticks and `POST /trust-sync/flush`, in any
number of processes, each with its own batch size). `due` lists the rows whose `next_attempt_at` has passed in
its order, so `ORDER BY … LIMIT` is "no row left out comes before one taken"; rows
with equal or future times are unordered. `excused` is a history variable: the
rows that were freed under a running flush. Abstractions: `SKIP LOCKED` and the
wait of one in-process tick for another only remove interleavings; a post that
was abandoned at its timeout is received then or never; the collateral events of
the same outbox are not queued. A failed batch is given back one row at a time, as
the updates of `Promise.all` commit.

**PaymentBudget** says what the session and plain branches of `POST /settle`
promise, without handlers: a payment claims its nonce and, under a session, a part
of what the payer signed before money moves; a claim is given back only if the
payment has not been made. The exception the code makes is stated too: a payment
whose outcome was lost sight of may be given back and still be made.

**PaymentSessions** models `routes/session.ts`: any number of authorize requests
race for a challenge, await by await; a session is drawn on until it is revoked or
expires. **GuardedSettle** composes it with concurrent settle requests of three
schemes: `session` (delegated allowance), `plain` (signed payment) and
`authorized` (plain on Base with an EIP-3009 transfer). `pc` names the await. When a
statement outside any `try`, or one of a catch block, throws, Express 5 passes the
rejected promise to `errorHandler`, which answers 400 to 500: the request ends with
the reply `error` and keeps what it has claimed. It is `crashed` only when the
process dies. The three differ where
the code does: only a session reserves a spend, only `session` and `authorized`
give their nonce back in the catch block. `Holders` are the requests that still
hold their claim; the refinement mapping (`statusBar`, `spentBar`, `claimsBar`)
takes the account of a challenge from the row of its only session and the claims
from the holders. The escrow and privacy routes take nonces from the same table
(`TakeNonceElsewhere`). The chain executes an authorization once; the handler ties it
to the payment nonce only if that is 32-byte hex (`HexNonce`), otherwise a retry may
bring a new one.

**KizunaRepay** composes the ledger with repay requests and the credits tables of
`services/api`: read what is owed, debit the credits over HTTP, apply the debit to
the ledger, ingest it into the kernel. The answer of the debit may be lost. The
credits are also topped up by deposits and spent by the API's own endpoints. `again`
is a history field: the reference had been debited when the request was sent. Debts
come about by ledger transactions; settle handlers are not repeated here. The repay
wallet of an agent is a constant: registering the account again can change it in the
code (`upsertKizunaAccount`), which is not modelled, so `RepaymentIsDebited` and
`DebitsCoverPayments` are about accounts that are not registered again.

**OracleRegistry** and **KamiyoEscrow** model the instructions of the on-chain
program; a failing `require!` undoes the instruction, so it is no step. `pool` and
`treasury` are lamports above the rent-exempt minimum, `held` is what is left of an
escrow in lamports, `paid` a history variable of what it paid out to whom.
`now` is the cluster's clock. The caller of `finalize_multi_oracle_dispute` decides
which optional accounts it passes, and that decides where fees, rewards and slashed
stakes go. A commitment is the score it binds its oracle to; signatures and hashes
are taken at their word. `rewardsFromPool` is a history variable. Left out:
reputation and statistics that no guard reads, events, the identity accounts of
agents (what a lost dispute takes from them is an input), key rotation of the
authorities, the flag `public_registration` (the admin flips it at will).

Token accounts are outside the model too. The caller of each instruction names them;
the program checks that those of the agent and of the API belong to them and that
the mint is right, but not that the tokens are deposited into an account of the
escrow (an existing `escrow_token_account` is taken as it is), that they are drawn
from that account again, or that `treasury_token_account` is the treasury's. So of an
escrow in tokens the model has the status, the amount and the transfers an
instruction orders (`paid`, with `fees` for what goes to the account named as the
treasury's), and `held` is 0: nothing is claimed about the tokens behind it.

## 3. What is checked with TLC

| Run | Expectation | Shows |
|---|---|---|
| `ledger` | pass | all ledger properties, on a seeded pool and on one that the first lane to name it owns |
| `settle` | pass | two concurrent requests under every disturbance: replies true, credit consumed only for executed payments, the ledger is implemented |
| `settle_calm` | pass | with no overlap, no lapse and confirmed transfers: no unsecured payout over three attempts, failures are clean |
| `settle_live` | pass | every request answered; a retry frees an expired reservation |
| `settle_race` | violation | `NoUnsecuredPayout`: two overlapping requests both pay |
| `sync` | pass | delivery, commitment and lease safety under all faults, and every event is delivered |
| `guarded` | pass | two settle requests of any scheme and two authorize requests under every disturbance implement the payment budget; spends, caps, replies and refusals are right |
| `guarded_idempotency` | violation | `SessionNoncePaysOnce`: a session nonce is paid twice after an unconfirmed transfer |
| `repay` | pass | three repay requests, retries and concurrency, under every fault: no debt paid without a debit, no reference debited twice, the ledger is implemented |
| `repay_runbook` | violation | `RetryReconciles`: the runbook's retry is answered ok and reconciles nothing |
| `escrow` | pass | one escrow and up to four oracles through every instruction: money conserved, votes sealed, rulings supported, stakes add up |
| `escrow_pool` | violation | `PoolCoversStakes`: a withdrawal takes rewards out of others' stakes |

**Properties.** Ledger: `ChargedExactlyOnce`, `TerminalRowsAreFinal`,
`PrefundConserved`, `PrefundBacksReservations` (reserved and spent columns are
exactly what the rows locked), `PoolMirrorsRows` (the clamp never hides a drift),
`RepaymentsPayDebts`, `OutboxMatchesLedger`. Settle: `RepliesAreTrue`,
`ConsumedIsPaid`, `NoUnsecuredPayout`, `FailureIsClean`, `ImplementsLedger`,
`EveryRequestAnswered`, `RetryFreesExpired`. Sync: `DeliveredIsReported`,
`ReportedIsCommitted`, `OneFlushPerEvent`, `EveryEventDelivered`. Sessions and
plain payments: `ImplementsBudget`, `SpentMatchesHolders` (no failure path gives a
spend back twice, and the clamp never saves one), `WithinSignedCap`,
`OneSessionPerChallenge`, `RepliesAgree`, `SecondPaymentHasCause`,
`RefusalIsClean`. Repayment: `RepaymentIsDebited`, `CreditsAddUp`,
`DebitsCoverPayments`, `RepayRepliesAreTrue`, `RepayImplementsLedger`. Escrows:
`EscrowConserved`, `CommitsSealed`, `RulingHasSupport`, `StakesAddUp`. Each has a
mutant of the code in `PROJECT.json` that breaks it.

**Findings.**

* ARCHITECTURE.md promises "no unsecured payout path". `settle_race` shows a payout
  that no reservation backs: the Kizuna branch claims nothing before it pays. The
  same property fails with `Disturbance = {"lapse"}` (the reservation expires
  between the check and the finalize) and with `{"unconfirmed"}` (a transfer that
  times out lands after the catch block released the reservation). `settle_calm`
  shows that, in the model, these are the only circumstances to exclude besides a
  concurrent internal release, failing statements and crashes. In all of them the
  ledger stays consistent and no credit is consumed wrongly.
* `routes/session.ts` offers a nonce "for idempotency". `guarded_idempotency` shows
  a nonce paid twice: the catch block gives the nonce back although the transfer was
  sent. `SecondPaymentHasCause` shows, and is proved to say, that this is the only
  way, and that the plain path has none.
* The repayment runbook says to retry "until records reconcile". `repay_runbook`
  shows a retry that never does: another reference has paid the debt meanwhile, so
  the handler returns before it looks at its own debit.
* A comment in `finalize_multi_oracle_dispute` wants the pooled account and the
  recorded stakes consistent. `escrow_pool` shows that `complete_oracle_withdrawal`
  pays recorded rewards from the pool although they were sent to the treasury;
  `StakesAddUp` shows that the shortfall is exactly those rewards.

Two more disagreements were met and have no run: the header of `lib.rs` (lines
55-56) says that existing escrows can still be released, disputed and resolved while
the protocol is paused, and each of these instructions requires that it is not; and
the quorum of half of the registered oracles (of up to 50) cannot be met by the five
commitment places of an escrow once twelve oracles are registered, so that only
`resolve_dispute` and the claim after the grace period remain.

**Bounds.** One agent; in the ledger two pools, elsewhere one: transactions of
different agents or pools touch no common row except the pool's counters, which are
sums. Two nonces and two settlements let two reservations compete for a balance and a
pool, and let a settlement fail while another succeeds; amounts {1, 2} make partial
payments, overpayment and insufficient balances happen. Two settle requests race;
three are used where requests may only follow one another. Two flushers, one taking
two events and one a single event at a time, so that the limit leaves rows out, over
the crypto-fast pool, where a settlement leaves a debt and a repayment event can
follow. `guarded`: two requests, two nonces, two authorize requests for one challenge
whose budget covers one payment, and no hex nonce, because one would only take away
behaviours (in `guarded_idempotency` the nonce is hex). `repay`: three requests over two references and one
deposit, so that a retry, a concurrent request and a spent balance meet. `escrow`:
three founders (`Founder`) that earlier disputes have slashed once (stake 45 of 50,
one violation of the two that expel here instead of three) and a fourth oracle that
comes and goes and may triple its weight (`Mobile`), so slashing, expulsion, removal
before the ruling, odd and even medians all happen. One SOL is 100 units. The scores
45 and 83 are 38 apart and the deviation is 20: two votes against one slash the
dissenter; with two against two the median 64 is near both, and the weighted mean of
all four is near both sides, or near one only if the fourth is heavy, so that every
refund step, rulings that slash nobody and rulings that slash one side occur. After a
reset only the fourth oracle comes back in this instance: a vote of oracles who joined
after one is covered by the proofs alone. The periods are one or two ticks each, in the order of the real ones. `MaxTime` and `MaxStake` bound
the clock and the stakes. Symmetry is used in safety runs only. Ids are never reused
and the clock ends, so every run ends when they are used up: deadlock is not checked.

**Fairness.** `settle_live`: weak fairness of each handler, as Node runs every
continuation and every awaited call returns or throws (timeouts on the kernel and
Base calls, blockhash expiry on Solana). No crash and no failing statement there: a
dead process answers nobody, and a swallowed failure of the expiry leaves the credit
locked until the next attempt. `sync`: weak fairness of time, of the timer and of
every flush; strong fairness of an accepted post and of a successful mark, that is,
FairScale and the database do not fail for ever on something retried for ever. The
other modules have no liveness property: what their handlers owe is an answer, and
that is the argument of `EveryRequestAnswered` over again; nobody is obliged to call
an on-chain instruction.

## 4. What is proved with TLAPS

For every value of the constants (any agents, pools, nonces, requests, sessions,
flushers, oracles, amounts), from the assumptions named in the modules: amounts are
positive naturals, null values are no rows, `SeedLane` gives each pool a lane or
none, batches are not empty, a single payment's cap is within the total, `Oracle` is
finite, scores and percentages are at most 100, the initial deviation at most 50, hex
nonces are nonces, the disturbances are among those
listed.

Thirty-nine theorems are listed in `PROJECT.json`. Every safety invariant, action
property and refinement that a passing run checks is stated by one of them.

* `SumTheorems` — what the other proofs need to know of `SumFunction`, the sum of a
  function over a finite set: its value on the empty set and after one element is
  added, removed or changed, that it is monotone, linear and splits over a partition.
  The library's induction theorems take an operator as parameter and cannot be used
  here, so the induction is done with **least counterexamples**: the set of
  finite sets on which a fact fails has a smallest member (`WFMin` with the
  well-foundedness of strict inclusion), and removing one element of it gives a
  contradiction. `LeastNatural` does the same for numbers.
* `KizunaLedgerProofs` — `TypeCorrect`, `ChargeSafe`, `TerminalSafe`,
  `PrefundSafe`, `OutboxSafe`, `LocksBacked`, `PoolsMirrored`, `RepaymentsExact`.
  `ChargedExactlyOnce` is not inductive: a finalize must know that no fee, bill or
  debt exists yet for the settlement and the nonce it charges. `ChargeInv` adds that
  every debt, bill and fee row points to a consumed reservation that points back to
  it, that a consumed reservation's settlement was inserted for its nonce, and that
  no two debts share a reservation. One lemma per transaction. The three invariants
  over sums have their own strengthenings: `PrefundInv` adds to `PrefundBacksReservations` that the tables are
  finite and that only reservations of the enterprise lane lock prefund, `PoolInv` to
  `PoolMirrorsRows` that every pool a row names is owned by a lane, `PaidInv` to
  `RepaymentsPayDebts` the finiteness; its core is the lemma that what the repayment
  loop pays the debts, one by one, adds up to `applied_micro`.
* `KizunaSettleProofs` — `SettleRefinesLedger`, `SettleChargesOnce`, `RepliesSafe`,
  `ConsumptionSafe`, `SettleTypeCorrect`, `PayoutSecured`, `FailuresClean`.
  `SettleInv` states what a handler may still rely on at each await although the row
  it read is stale (`SoundAt`): its reservation exists and covers the amount, at
  `finalize` its transfer executed, at `commit` the reservation is consumed by it;
  that a settlement row belongs to the request it is named after; and that every
  consumed reservation was paid for. A step is shown to be `Accounted`: it undoes no
  consumption and consumes nothing unpaid; each action's ledger part is a step of
  `KizunaLedger` or none, which is the refinement. The last two theorems are about
  calm runs and say so: `NoUnsecuredPayout` holds whenever `Disturbance` is within
  `{"kernel"}`, `FailureIsClean` even within `{"kernel", "crash"}`, for any number of
  requests, nonces and amounts. `CalmInv` says that the requests of a nonce follow
  one another, that a request keeps the reservation it read until it consumes or
  releases it, and that a transfer is on its way unseen only if its request crashed.
  TLC finds a counterexample to `NoUnsecuredPayout` for each single disturbance other
  than `kernel`, and one to `FailureIsClean` for each other than `kernel` and `crash`
  (`settle_race` is the one that is kept), so these hypotheses are the weakest of
  their kind.
* `FairscaleSyncProofs` — `DeliverySafe`, `LeaseSafe`, `ReportSafe`,
  `SyncTypeCorrect`. `SyncInv` follows an event from the outbox through the batch of
  a flush to FairScale and says that every event a flush works on is leased or
  excused. `ReportSafe` composes it with `ChargeInv` and `OutboxMatchesLedger`, which
  hold under the sync because each of its steps is one of the ledger or none.
  `SyncTypeCorrect` shows that no row is ever due twice; `DueInv` adds that only rows
  of the outbox, which is finite, are due. `Without` is defined by rank and not by
  `SelectSeq`, of which the prover knows nothing.
* `GuardedSettleProofs` — `GuardedTypeCorrect`, `ChallengeSafety`, `RepliesSafety`,
  `SecondPaymentSafety`, `RefusalSafety`. `GuardedInv` says, per await, which claims
  a request owns (its guard row is its own and carries no tx hash yet), whether its
  transfer can have executed, that a guard with a tx hash belongs to a finished
  request whose transfer executed, and that an authorize request that marked its
  challenge is alone with it. `RefusalSafety` says what a request that was not
  answered ok leaves behind: no payment it knows of; a pending row or a held spend
  only if the catch block itself threw (reply `error`), and then under its own
  unsettled guard row, which keeps every retry of the nonce out.
* `GuardedBudgetProofs` — `GuardedRefinesBudget`, `SpentSafety`, `CapSafety`. Under
  the refinement mapping every step is one of `PaymentBudget` or stutters. It needs
  `OneSessionPerChallenge`, so that the account of a challenge is the row of one
  session. `SpendInv` says that the spent column is the sum over the requests that
  still hold a part; a draw adds one holder, a give-back removes one, and every other
  step keeps both. `WithinSignedCap` follows: what was paid and seen is among what is
  held, and a session is drawn on only up to its total.
* `KizunaRepayProofs` — `RepayTypeCorrect`, `RepaymentSafety`, `RepliesSafety`,
  `RepayRefinesLedger`, `RepayKeepsLedger`, `CreditsSafety`, `DebitsCover`. `RepayInv`
  adds what a request may rely on after each await: past the debit its reference is
  debited with its amount, past the ledger write it is recorded. Debits and
  repayments are never changed, so these facts survive every other request.
  `CreditInv` is `CreditsAddUp` with the tables finite. `DebitsCover` sends each
  repayment of an agent to the debit of its reference and carries `RepaymentsExact`
  over the refinement. It is a statement per agent: agents that share a wallet share
  its debits.
* `KamiyoEscrowProofs` — `EscrowTypeCorrect`, `EscrowSafety`, `SealSafety`,
  `StakeSafety`, `RulingSafety`. `EscrowInv` adds that a dispute with a reveal is past
  its commit phase and that an escrow that does not exist has no amount.
  `EscrowSafety` is about the lamports of an escrow and about the payments it orders,
  not about token accounts. The
  arithmetic of the ruling is in lemmas of its own: a percentage is at most its
  amount, fee and rewards together at most the payment to the API, the rewards of
  those who agree at most the pot that was divided among all who voted. `StakeInv`
  shows that what a ruling takes from the stakes of those it slashes is what it takes
  from the total and from the pool; it counts from the last reset of the registry. For
  `RulingHasSupport`, a property of the ruling step because a reset may change the
  deviation afterwards, the median is shown to be
  a score and the weighted mean of the votes near it, rounded up, to lie between the
  smallest and the largest of these; one of the two is then within the deviation
  (`RuleInv` says that what was revealed is a score).

Only model-checked: the liveness properties `EveryRequestAnswered`,
`RetryFreesExpired` and `EveryEventDelivered`, because fairness and `ENABLED` are out
of this prover's reach, and the four expected violations, which are counterexamples.

## 5. Not modelled

The repository has over 300,000 lines in more than a thousand files; this project
models the parts that keep money and consent, about one percent of the lines, and
does not try to be a model of the rest. Each part is a row of `components` in
`PROJECT.json`.

* In the facilitator: the verify and underwriting route (scoring rules around one
  insert), collateral deposits, withdrawals and risk actions, `POST
  /internal/jobs/settle`, the SAEP bridge, the escrow, dispute and privacy routes,
  which are clients of the on-chain program. Row locks: a transaction is one step, so
  the deadlock of two transactions that lock balance and pool in different order is
  only covered as a failing statement.
* In `programs/kamiyo`: agent identities, inference escrows, PoCH, trusted launches,
  trader sessions, reputation and the blacklist. What the escrows share with them is
  the identity's stake and the reputation counters; the blacklist is not read by the
  instructions modelled here. Token accounts, as said in section 2.
* The other on-chain programs, the EVM contracts and `trust-layer-service` have state
  machines worth a model and were not reached.
* The remaining services are agents, bots, dashboards and relays whose behaviour is
  I/O against language models, social networks and chains; packages are client
  libraries; circuits are arithmetic, not state.

## 6. What would come next

1. `POST /internal/jobs/settle`, which inserts a confirmed settlement before it
   finalizes, as another handler over `KizunaLedger`.
2. Collateral: withdrawals and risk actions against concurrent reservations.
3. Verify: decision nonces and the gap between the approval read and the reservation.
4. `programs/kamiyo-staking` and the outbox of `trust-layer-service`.
5. In the proofs: that a calm run with an expired reservation frees it exactly once,
   and the abstract budget's cap as a theorem of `PaymentBudget` itself.
