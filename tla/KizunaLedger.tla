----------------------------- MODULE KizunaLedger -----------------------------
(***************************************************************************)
(* The Kizuna credit ledger of services/x402-facilitator: the tables that  *)
(* src/db/queries.ts writes inside withTransaction (src/db/pool.ts), one   *)
(* action per transaction.  A transaction that throws is rolled back, so a *)
(* rejected call is not a step; the actions below are the calls that       *)
(* commit.                                                                 *)
(*                                                                         *)
(* Rows are partial functions: a key outside the DOMAIN is a row that was  *)
(* never inserted.  tx hashes are abstracted to the settlement that        *)
(* carries them.                                                           *)
(***************************************************************************)
EXTENDS Integers, Sequences, FiniteSets, FiniteSetsExt

CONSTANTS
    Agent,         \* kizuna_accounts.agent_id
    Pool,          \* pool ids a request may name (resolvePoolId takes any)
    Nonce,         \* (payer_wallet, request_nonce): key of a reservation
    Settlement,    \* settlements.id
    Ref,           \* referenceId of repayments and funding events
    Amount,        \* micro-USDC amounts a request may carry
    SeedLane,      \* lane of the pool rows the migrations seed, "none" if unseeded
    NoSettlement   \* SQL NULL in kizuna_credit_reservations.settlement_id

Lane == {"enterprise", "crypto-fast"}
FundingMode == {"none", "prefunded", "collateralized"}

ASSUME AmountAssumption == Amount \subseteq Nat \ {0}
ASSUME NullAssumption == NoSettlement \notin Settlement
ASSUME SeedAssumption == SeedLane \in [Pool -> Lane \cup {"none"}]

VARIABLES
    reservations,   \* kizuna_credit_reservations
    lapsed,         \* nonces whose expires_at has passed
    balances,       \* kizuna_enterprise_balances, keyed by (agent, pool)
    pools,          \* kizuna_pool_reserves
    debts,          \* kizuna_debts in created_at order
    settlements,    \* settlements inserted for a Kizuna reservation
    fees,           \* number of fee_ledger rows of a settlement
    billable,       \* kizuna_billable_settlement_events
    repayments,     \* kizuna_repayments, keyed by (agent, reference)
    fundingEvents,  \* kizuna_funding_events, keyed by (agent, pool, reference)
    outbox          \* idempotency keys queued for the FairScale trust sync

vars == <<reservations, lapsed, balances, pools, debts, settlements, fees,
          billable, repayments, fundingEvents, outbox>>

-----------------------------------------------------------------------------
(* Row types *)

ReservationStatus == {"reserved", "consumed", "released", "expired"}

Reservation ==
    [status: ReservationStatus, agent: Agent, lane: Lane, pool: Pool,
     amount: Amount, mode: FundingMode, locked: Nat,
     settlement: Settlement \cup {NoSettlement}]

Balance == [available: Nat, reserved: Nat, spent: Nat]

PoolReserve == [lane: Lane \cup {"none"}, reserved: Nat, outstanding: Nat]

Debt ==
    [agent: Agent, lane: Lane, pool: Pool, reservation: Nonce,
     settlement: Settlement, principal: Amount, outstanding: Nat,
     status: {"open", "closed"}]

SettlementRow == [status: {"pending", "confirmed", "failed"}, nonce: Nonce]

TrustEvent ==
    [kind: {"settlement"}, reservation: Nonce, settlement: Settlement]
      \cup [kind: {"repayment"}, agent: Agent, ref: Ref]

\* The type of the ledger's tables, the CHECK constraints of
\* src/db/migrate.ts (no negative column) included.
TypeOK ==
    /\ DOMAIN reservations \subseteq Nonce
    /\ reservations \in [DOMAIN reservations -> Reservation]
    /\ lapsed \subseteq Nonce
    /\ balances \in [Agent \X Pool -> Balance]
    /\ pools \in [Pool -> PoolReserve]
    /\ debts \in Seq(Debt)
    /\ DOMAIN settlements \subseteq Settlement
    /\ settlements \in [DOMAIN settlements -> SettlementRow]
    /\ fees \in [Settlement -> Nat]
    /\ billable \subseteq Nonce \X Settlement
    /\ DOMAIN repayments \subseteq Agent \X Ref
    /\ repayments \in [DOMAIN repayments -> [amount: Amount, applied: Nat]]
    /\ DOMAIN fundingEvents \subseteq Agent \X Pool \X Ref
    /\ fundingEvents \in [DOMAIN fundingEvents ->
                            [type: {"deposit", "withdraw"}, amount: Amount]]
    /\ outbox \subseteq TrustEvent

Init ==
    /\ reservations = [n \in {} |-> NoSettlement]
    /\ lapsed = {}
    /\ balances = [k \in Agent \X Pool |->
                     [available |-> 0, reserved |-> 0, spent |-> 0]]
    /\ pools = [p \in Pool |->
                  [lane |-> SeedLane[p], reserved |-> 0, outstanding |-> 0]]
    /\ debts = <<>>
    /\ settlements = [s \in {} |-> NoSettlement]
    /\ fees = [s \in Settlement |-> 0]
    /\ billable = {}
    /\ repayments = [k \in {} |-> NoSettlement]
    /\ fundingEvents = [k \in {} |-> NoSettlement]
    /\ outbox = {}

-----------------------------------------------------------------------------
(* Helpers shared by the transactions *)

\* f with the row r inserted under the fresh key k.
WithRow(f, k, r) == [x \in DOMAIN f \cup {k} |-> IF x = k THEN r ELSE f[x]]

Greatest0(x) == IF x >= 0 THEN x ELSE 0

\* ensureKizunaPoolReserve: INSERT ... ON CONFLICT (pool_id) DO NOTHING.  The
\* first lane to name an unseeded pool owns its row.
EnsuredPool(p, l) ==
    IF pools[p].lane = "none"
    THEN [lane |-> l, reserved |-> 0, outstanding |-> 0]
    ELSE pools[p]

bumpKizunaPoolReserve_AnyLane(p, l, reservedDelta, outstandingDelta) ==
    LET row == EnsuredPool(p, l)
    IN  [pools EXCEPT ![p] =
           [lane |-> row.lane,
            reserved |-> Greatest0(row.reserved + reservedDelta),
            outstanding |-> Greatest0(row.outstanding + outstandingDelta)]]

\* bumpKizunaPoolReserve: UPDATE ... WHERE pool_id = $1 AND lane = $2, every
\* column clamped at 0; no row is touched when another lane owns the pool.
bumpKizunaPoolReserve(p, l, reservedDelta, outstandingDelta) ==
    LET row == EnsuredPool(p, l)
    IN  [pools EXCEPT ![p] =
           IF row.lane = l
           THEN [lane |-> l,
                 reserved |-> Greatest0(row.reserved + reservedDelta),
                 outstanding |-> Greatest0(row.outstanding + outstandingDelta)]
           ELSE row]

CanMutateBalance_NoMinimum(k, dAvailable, dReserved) == TRUE

\* mutateKizunaEnterpriseBalance, its WHERE clause: the row is left alone, and
\* every caller throws, unless all columns stay non-negative.  (The minAvailable
\* and minReserved a caller passes are the amounts it takes away.)
CanMutateBalance(k, dAvailable, dReserved) ==
    /\ balances[k].available + dAvailable >= 0
    /\ balances[k].reserved + dReserved >= 0

\* ... and its SET clause.
mutateKizunaEnterpriseBalance(k, dAvailable, dReserved, dSpent) ==
    [balances EXCEPT ![k] =
       [available |-> balances[k].available + dAvailable,
        reserved |-> balances[k].reserved + dReserved,
        spent |-> balances[k].spent + dSpent]]

BalanceKey(r) == <<r.agent, r.pool>>

\* The funding modes the verify and job routes ask for: the enterprise lane is
\* prefunded unless KIZUNA_ENTERPRISE_REQUIRE_PREFUND is off.
FundingModes(l) ==
    IF l = "enterprise" THEN {"prefunded", "none"} ELSE {"collateralized"}

IsPrefundedEnterprise(r) == r.lane = "enterprise" /\ r.mode = "prefunded"

WithStatus(r, status, s) ==
    [status |-> status, agent |-> r.agent, lane |-> r.lane, pool |-> r.pool,
     amount |-> r.amount, mode |-> r.mode, locked |-> r.locked,
     settlement |-> s]

IsReserved_AnyStatus(n) == n \in DOMAIN reservations

\* WHERE id = $1 AND status = 'reserved' of a release, and the status test a
\* finalize makes on the row it read FOR UPDATE.
IsReserved(n) ==
    /\ n \in DOMAIN reservations
    /\ reservations[n].status = "reserved"

-----------------------------------------------------------------------------
(* Reservations *)

createKizunaReservation(n, a, l, p, amount, mode) ==
    LET locked == IF mode = "prefunded" THEN amount ELSE 0
        row == [status |-> "reserved", agent |-> a, lane |-> l, pool |-> p,
                amount |-> amount, mode |-> mode, locked |-> locked,
                settlement |-> NoSettlement]
    IN  /\ n \notin DOMAIN reservations
        /\ mode = "prefunded" => CanMutateBalance(<<a, p>>, -locked, locked)
        /\ reservations' = WithRow(reservations, n, row)
        /\ pools' = bumpKizunaPoolReserve(p, l, amount, 0)
        /\ balances' = IF mode = "prefunded"
                       THEN mutateKizunaEnterpriseBalance(<<a, p>>, -locked, locked, 0)
                       ELSE balances
        /\ UNCHANGED <<lapsed, debts, settlements, fees, billable, repayments,
                       fundingEvents, outbox>>

\* Time passes the expires_at of a reservation.  Nothing reads the expires_at of
\* a row that is no longer reserved.
Lapse(n) ==
    /\ n \in DOMAIN reservations \ lapsed
    /\ reservations[n].status = "reserved"
    /\ lapsed' = lapsed \cup {n}
    /\ UNCHANGED <<reservations, balances, pools, debts, settlements, fees,
                   billable, repayments, fundingEvents, outbox>>

releaseKizunaReservation(n, status) ==
    LET r == reservations[n]
    IN  /\ IsReserved(n)
        /\ r.mode = "prefunded" =>
              CanMutateBalance(BalanceKey(r), r.locked, -r.locked)
        /\ reservations' = [reservations EXCEPT
                              ![n] = WithStatus(r, status, r.settlement)]
        /\ pools' = bumpKizunaPoolReserve(r.pool, r.lane, -r.amount, 0)
        /\ balances' = IF r.mode = "prefunded"
                       THEN mutateKizunaEnterpriseBalance(
                              BalanceKey(r), r.locked, -r.locked, 0)
                       ELSE balances
        /\ UNCHANGED <<lapsed, debts, settlements, fees, billable, repayments,
                       fundingEvents, outbox>>

-----------------------------------------------------------------------------
(* Settlement *)

\* insertSettlement, by the request that carries nonce n.
insertSettlement(s, n, status) ==
    /\ s \notin DOMAIN settlements
    /\ settlements' = WithRow(settlements, s, [status |-> status, nonce |-> n])
    /\ UNCHANGED <<reservations, lapsed, balances, pools, debts, fees, billable,
                   repayments, fundingEvents, outbox>>

updateSettlementStatus(s, status) ==
    /\ s \in DOMAIN settlements
    /\ settlements' = [settlements EXCEPT ![s].status = status]
    /\ UNCHANGED <<reservations, lapsed, balances, pools, debts, fees, billable,
                   repayments, fundingEvents, outbox>>

ConsumedBalance_ToAvailable(r) ==
    mutateKizunaEnterpriseBalance(BalanceKey(r), r.locked, -r.locked, 0)

\* The locked prefund moves from reserved to spent.
ConsumedBalance(r) ==
    mutateKizunaEnterpriseBalance(BalanceKey(r), 0, -r.locked, r.locked)

\* INSERT INTO kizuna_debts ... ON CONFLICT (settlement_id) DO UPDATE: a second
\* debt for a settlement only refreshes the tx hash of the first.
DebtsWith(r, n, s) ==
    IF \E i \in 1..Len(debts) : debts[i].settlement = s
    THEN debts
    ELSE Append(debts,
           [agent |-> r.agent, lane |-> r.lane, pool |-> r.pool,
            reservation |-> n, settlement |-> s, principal |-> r.amount,
            outstanding |-> r.amount, status |-> "open"])

\* An expired reservation is not a step: the branch that writes 'expired' and
\* gives the funds back ends in a throw, and withTransaction rolls it back.
finalizeKizunaSettlement(n, s) ==
    LET r == reservations[n]
        prefunded == IsPrefundedEnterprise(r)
    IN  /\ IsReserved(n)
        /\ n \notin lapsed
        /\ s \in DOMAIN settlements
        /\ prefunded => CanMutateBalance(BalanceKey(r), 0, -r.locked)
        /\ settlements' = [settlements EXCEPT ![s].status = "confirmed"]
        /\ fees' = [fees EXCEPT ![s] = fees[s] + 1]
        /\ balances' = IF prefunded THEN ConsumedBalance(r) ELSE balances
        /\ debts' = IF prefunded THEN debts ELSE DebtsWith(r, n, s)
        /\ reservations' = [reservations EXCEPT
                              ![n] = WithStatus(r, "consumed", s)]
        /\ billable' = billable \cup {<<n, s>>}
        /\ outbox' = outbox \cup
             {[kind |-> "settlement", reservation |-> n, settlement |-> s]}
        /\ pools' = bumpKizunaPoolReserve(r.pool, r.lane, -r.amount,
                                          IF prefunded THEN 0 ELSE r.amount)
        /\ UNCHANGED <<lapsed, repayments, fundingEvents>>

-----------------------------------------------------------------------------
(* Repayment *)

\* The debts applyKizunaRepayment selects: the agent's open ones in the scope
\* (the repay route always passes both the lane and the pool).
InScope(i, a, l, p) ==
    /\ debts[i].agent = a
    /\ debts[i].lane = l
    /\ debts[i].pool = p
    /\ debts[i].status = "open"

\* What is owed by the debts in scope before the i-th, oldest first.
OwedBefore(i, a, l, p) ==
    SumFunction([j \in {x \in 1..(i - 1) : InScope(x, a, l, p)} |->
                   debts[j].outstanding])

Payment_NotDecremented(i, a, l, p, amount) ==
    LET owed == debts[i].outstanding
    IN  IF ~InScope(i, a, l, p) THEN 0
        ELSE IF amount \in 1..owed THEN amount ELSE owed

\* The payment the loop makes to the i-th debt: nothing once the amount is
\* used up, the rest of the amount if the debt is larger, the debt otherwise.
Payment(i, a, l, p, amount) ==
    LET remaining == amount - OwedBefore(i, a, l, p)
        owed == debts[i].outstanding
    IN  IF ~InScope(i, a, l, p) \/ remaining <= 0 THEN 0
        ELSE IF remaining \in 1..owed THEN remaining ELSE owed

\* The debt after a payment; it closes when nothing is left.
AfterPayment(d, paid) ==
    [agent |-> d.agent, lane |-> d.lane, pool |-> d.pool,
     reservation |-> d.reservation, settlement |-> d.settlement,
     principal |-> d.principal, outstanding |-> d.outstanding - paid,
     status |-> IF d.outstanding = paid THEN "closed" ELSE d.status]

\* The sum of those payments, applied_micro: all that is owed in the scope, or
\* the whole amount if that is less.
Applied(a, l, p, amount) ==
    LET owed == OwedBefore(Len(debts) + 1, a, l, p)
    IN  IF owed \in 0..amount THEN owed ELSE amount

\* A reference already on file changes nothing (idempotent: true).
IsNewRepayment(a, ref) == <<a, ref>> \notin DOMAIN repayments

RepaymentEvent_Always(a, ref, applied) ==
    {[kind |-> "repayment", agent |-> a, ref |-> ref]}

\* A trust event is queued only for a repayment that paid something.
RepaymentEvent(a, ref, applied) ==
    IF applied > 0 THEN {[kind |-> "repayment", agent |-> a, ref |-> ref]} ELSE {}

applyKizunaRepayment(a, ref, l, p, amount) ==
    LET pay == [i \in 1..Len(debts) |-> Payment(i, a, l, p, amount)]
        applied == Applied(a, l, p, amount)
    IN  /\ IsNewRepayment(a, ref)
        /\ debts' = [i \in 1..Len(debts) |-> AfterPayment(debts[i], pay[i])]
        /\ pools' = IF applied > 0 THEN bumpKizunaPoolReserve(p, l, 0, -applied)
                    ELSE pools
        /\ repayments' = WithRow(repayments, <<a, ref>>,
                                 [amount |-> amount, applied |-> applied])
        /\ outbox' = outbox \cup RepaymentEvent(a, ref, applied)
        /\ UNCHANGED <<reservations, lapsed, balances, settlements, fees,
                       billable, fundingEvents>>

-----------------------------------------------------------------------------
(* Prefunding of the enterprise lane *)

IsNewFundingEvent_Always(a, p, ref) == TRUE

\* A reference already on file is answered from its row or refused as a
\* conflict; neither changes anything.
IsNewFundingEvent(a, p, ref) == <<a, p, ref>> \notin DOMAIN fundingEvents

applyKizunaFundingEvent(a, p, ref, type, amount) ==
    LET delta == IF type = "deposit" THEN amount ELSE -amount
    IN  /\ IsNewFundingEvent(a, p, ref)
        /\ CanMutateBalance(<<a, p>>, delta, 0)
        /\ balances' = mutateKizunaEnterpriseBalance(<<a, p>>, delta, 0, 0)
        /\ fundingEvents' = WithRow(fundingEvents, <<a, p, ref>>,
                                    [type |-> type, amount |-> amount])
        /\ UNCHANGED <<reservations, lapsed, pools, debts, settlements, fees,
                       billable, repayments, outbox>>

\* POST /funding/:agentId/confirm and /withdraw: only a pool of the enterprise
\* lane takes prefund.
FundingRequest(a, p, ref, type, amount) ==
    /\ pools[p].lane = "enterprise"
    /\ applyKizunaFundingEvent(a, p, ref, type, amount)

-----------------------------------------------------------------------------
Next ==
    \/ \E n \in Nonce, a \in Agent, l \in Lane, p \in Pool, amount \in Amount :
          \E mode \in FundingModes(l) :
             createKizunaReservation(n, a, l, p, amount, mode)
    \/ \E n \in Nonce : Lapse(n)
    \/ \E n \in Nonce, status \in {"released", "expired"} :
          releaseKizunaReservation(n, status)
    \/ \E s \in Settlement, n \in DOMAIN reservations,
          status \in {"pending", "confirmed"} : insertSettlement(s, n, status)
    \/ \E s \in Settlement : updateSettlementStatus(s, "failed")
    \/ \E s \in DOMAIN settlements :
          finalizeKizunaSettlement(settlements[s].nonce, s)
    \/ \E a \in Agent, ref \in Ref, l \in Lane, p \in Pool, amount \in Amount :
          applyKizunaRepayment(a, ref, l, p, amount)
    \/ \E a \in Agent, p \in Pool, ref \in Ref, amount \in Amount,
          type \in {"deposit", "withdraw"} :
          FundingRequest(a, p, ref, type, amount)

Spec == Init /\ [][Next]_vars

-----------------------------------------------------------------------------
(* Properties *)

\* Every consumed reservation is charged exactly once: one billable event and
\* one fee row under its settlement and, unless locked prefund paid for it,
\* exactly one debt of the reserved amount.  A reservation that is not consumed
\* is not charged at all.  (finalizeKizunaSettlement racing another finalize or
\* a release of the same row.)
ChargedExactlyOnce ==
    \A n \in Nonce :
       LET bills == {e \in billable : e[1] = n}
           owed == {i \in 1..Len(debts) : debts[i].reservation = n}
       IN  IF n \in DOMAIN reservations /\ reservations[n].status = "consumed"
           THEN LET r == reservations[n] IN
                /\ bills = {<<n, r.settlement>>}
                /\ r.settlement \in Settlement
                /\ fees[r.settlement] = 1
                /\ IF IsPrefundedEnterprise(r) THEN owed = {}
                   ELSE \E i \in owed : /\ owed = {i}
                                        /\ debts[i].principal = r.amount
                                        /\ debts[i].settlement = r.settlement
           ELSE bills = {} /\ owed = {}

KeepsTerminalRows ==
    /\ \A n \in DOMAIN reservations :
          /\ n \in DOMAIN reservations'
          /\ reservations[n].status # "reserved" =>
                reservations'[n] = reservations[n]
    /\ \A i \in 1..Len(debts) :
          /\ i \in 1..Len(debts')
          /\ debts'[i].outstanding <= debts[i].outstanding
          /\ debts[i].status = "closed" => debts'[i] = debts[i]

\* A settled, released or expired reservation is never touched again, a closed
\* debt is never reopened, and no debt ever grows (releaseKizunaReservation,
\* finalizeKizunaSettlement and applyKizunaRepayment against stale callers).
TerminalRowsAreFinal == [][KeepsTerminalRows]_vars

Funds(k) == balances[k].available + balances[k].reserved + balances[k].spent

\* What a recorded funding event brings in.
Inflow(e) == IF e.type = "deposit" THEN e.amount ELSE -e.amount

\* The funding events of balance k that a step records.
NewEvents(k) ==
    {e \in DOMAIN fundingEvents' \ DOMAIN fundingEvents :
       e[1] = k[1] /\ e[2] = k[2]}

ConservesPrefund ==
    \A k \in Agent \X Pool :
       IF NewEvents(k) = {} THEN Funds(k)' = Funds(k)
       ELSE \E e \in NewEvents(k) :
              Funds(k)' = Funds(k) + Inflow(fundingEvents'[e])

\* Prefund only enters and leaves a balance through a funding event recorded in
\* the same transaction: locking, consuming and releasing it move it between the
\* available, reserved and spent columns and neither mint nor burn any.
PrefundConserved == [][ConservesPrefund]_vars

LockedOf(k, status) ==
    {n \in DOMAIN reservations : /\ BalanceKey(reservations[n]) = k
                                 /\ reservations[n].mode = "prefunded"
                                 /\ reservations[n].status = status}

LockedSum(k, status) ==
    SumFunction([n \in LockedOf(k, status) |-> reservations[n].locked])

\* The reserved and spent columns of an enterprise balance are exactly what its
\* live and its consumed prefunded reservations locked, so a release or a
\* settlement never finds its lock missing (kizuna_prefund_release_failed and
\* kizuna_prefund_consume_failed are unreachable).
PrefundBacksReservations ==
    \A k \in Agent \X Pool :
       /\ balances[k].reserved = LockedSum(k, "reserved")
       /\ balances[k].spent = LockedSum(k, "consumed")

LiveIn(p, l) ==
    {n \in DOMAIN reservations : /\ reservations[n].pool = p
                                 /\ reservations[n].lane = l
                                 /\ reservations[n].status = "reserved"}

OpenIn(p, l) ==
    {i \in 1..Len(debts) : /\ debts[i].pool = p
                           /\ debts[i].lane = l
                           /\ debts[i].status = "open"}

LiveSum(p, l) == SumFunction([n \in LiveIn(p, l) |-> reservations[n].amount])

OpenSum(p, l) == SumFunction([i \in OpenIn(p, l) |-> debts[i].outstanding])

\* A pool row counts exactly the live reservations and the open debts of its own
\* lane: the clamp at 0 of bumpKizunaPoolReserve never hides a drift.
PoolMirrorsRows ==
    \A p \in Pool :
       /\ pools[p].reserved = LiveSum(p, pools[p].lane)
       /\ pools[p].outstanding = OpenSum(p, pools[p].lane)

DebtsOf(a) == {i \in 1..Len(debts) : debts[i].agent = a}

PaidDown(a) ==
    SumFunction([i \in DebtsOf(a) |-> debts[i].principal - debts[i].outstanding])

RepaymentsOf(a) == {k \in DOMAIN repayments : k[1] = a}

AppliedSum(a) == SumFunction([k \in RepaymentsOf(a) |-> repayments[k].applied])

\* What an agent's debts have been paid down by is exactly what its repayments
\* record as applied, and no repayment applies more than was debited.
RepaymentsPayDebts ==
    \A a \in Agent :
       /\ PaidDown(a) = AppliedSum(a)
       /\ \A k \in DOMAIN repayments : repayments[k].applied <= repayments[k].amount

\* The trust-event outbox holds one event per billed settlement and one per
\* repayment that paid something, whatever the order of the transactions.
OutboxMatchesLedger ==
    outbox = {[kind |-> "settlement", reservation |-> e[1], settlement |-> e[2]] :
                e \in billable}
             \cup {[kind |-> "repayment", agent |-> k[1], ref |-> k[2]] :
                     k \in {x \in DOMAIN repayments : repayments[x].applied > 0}}

=============================================================================
