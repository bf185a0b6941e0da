-------------------------- MODULE KizunaLedgerProofs --------------------------
EXTENDS KizunaLedger, SumTheorems, TLAPS

-----------------------------------------------------------------------------
(* Lemmas about the helpers *)

\* bumpKizunaPoolReserve returns rows with no negative column.
LEMMA BumpType ==
    ASSUME TypeOK, NEW p \in Pool, NEW l \in Lane, NEW dr \in Int, NEW do \in Int
    PROVE  bumpKizunaPoolReserve(p, l, dr, do) \in [Pool -> PoolReserve]
  <1>1. EnsuredPool(p, l) \in PoolReserve
    BY DEF TypeOK, EnsuredPool, PoolReserve
  <1>2. QED
    BY <1>1 DEF bumpKizunaPoolReserve, TypeOK, PoolReserve, Greatest0

\* mutateKizunaEnterpriseBalance changes one row, by the deltas, and keeps its type
\* when the WHERE clause lets it through.
LEMMA MutateType ==
    ASSUME TypeOK, NEW k \in Agent \X Pool, NEW da \in Int, NEW dr \in Int,
           NEW ds \in Nat, CanMutateBalance(k, da, dr)
    PROVE  /\ mutateKizunaEnterpriseBalance(k, da, dr, ds) \in [Agent \X Pool -> Balance]
           /\ mutateKizunaEnterpriseBalance(k, da, dr, ds)[k] =
                [available |-> balances[k].available + da,
                 reserved |-> balances[k].reserved + dr,
                 spent |-> balances[k].spent + ds]
           /\ \A j \in Agent \X Pool : j # k =>
                mutateKizunaEnterpriseBalance(k, da, dr, ds)[j] = balances[j]
  BY DEF TypeOK, CanMutateBalance, mutateKizunaEnterpriseBalance, Balance

\* A payment never exceeds what the debt owes.
LEMMA PaymentBound ==
    ASSUME TypeOK, NEW i \in 1..Len(debts), NEW a, NEW l, NEW p, NEW amount
    PROVE  /\ Payment(i, a, l, p, amount) \in 0..debts[i].outstanding
           /\ debts[i].status = "closed" => Payment(i, a, l, p, amount) = 0
  <1>1. debts[i] \in Debt
    BY DEF TypeOK
  <1>2. debts[i].outstanding \in Nat
    BY <1>1 DEF Debt
  <1>3. QED
    BY <1>2 DEF Payment, InScope

\* A repayment applies at most its amount.
LEMMA AppliedType ==
    ASSUME NEW a, NEW l, NEW p, NEW amount \in Amount
    PROVE  Applied(a, l, p, amount) \in 0..amount
  BY AmountAssumption DEF Applied

\* A debt paid down by at most what it owes is still a debt.
LEMMA AfterPaymentType ==
    ASSUME NEW d \in Debt, NEW paid \in 0..d.outstanding
    PROVE  AfterPayment(d, paid) \in Debt
  BY DEF AfterPayment, Debt

\* A reservation with another status is still a reservation.
LEMMA WithStatusType ==
    ASSUME NEW r \in Reservation, NEW st \in ReservationStatus,
           NEW s \in Settlement \cup {NoSettlement}
    PROVE  WithStatus(r, st, s) \in Reservation
  BY DEF WithStatus, Reservation

-----------------------------------------------------------------------------
(* Type correctness, one lemma per transaction *)

\* createKizunaReservation keeps the types.
LEMMA CreateType ==
    ASSUME TypeOK, NEW n \in Nonce, NEW a \in Agent, NEW l \in Lane,
           NEW p \in Pool, NEW amount \in Amount, NEW mode \in FundingModes(l),
           createKizunaReservation(n, a, l, p, amount, mode)
    PROVE  TypeOK'
  <1> DEFINE locked == IF mode = "prefunded" THEN amount ELSE 0
             row == [status |-> "reserved", agent |-> a, lane |-> l, pool |-> p,
                     amount |-> amount, mode |-> mode, locked |-> locked,
                     settlement |-> NoSettlement]
  <1>1. locked \in Nat /\ amount \in Nat
    BY AmountAssumption
  <1>2. mode \in FundingMode
    BY DEF FundingModes, FundingMode
  <1>3. row \in Reservation
    BY <1>1, <1>2 DEF Reservation, ReservationStatus
  <1>4. reservations' = WithRow(reservations, n, row)
    BY DEF createKizunaReservation
  <1> HIDE DEF row
  <1>5. DOMAIN reservations' \subseteq Nonce
        /\ reservations' \in [DOMAIN reservations' -> Reservation]
    BY <1>3, <1>4 DEF TypeOK, WithRow
  <1>6. pools' \in [Pool -> PoolReserve]
    BY <1>1, BumpType DEF createKizunaReservation
  <1>7. balances' \in [Agent \X Pool -> Balance]
    <2>1. CASE mode = "prefunded"
      <3>1. CanMutateBalance(<<a, p>>, -locked, locked)
        BY <2>1 DEF createKizunaReservation
      <3>2. balances' = mutateKizunaEnterpriseBalance(<<a, p>>, -locked, locked, 0)
        BY <2>1 DEF createKizunaReservation
      <3>3. <<a, p>> \in Agent \X Pool /\ -locked \in Int /\ locked \in Int /\ 0 \in Nat
        BY <1>1
      <3> HIDE DEF locked
      <3>4. QED
        BY <3>1, <3>2, <3>3, MutateType
    <2>2. CASE mode # "prefunded"
      BY <2>2 DEF createKizunaReservation, TypeOK
    <2>3. QED
      BY <2>1, <2>2
  <1>8. QED
    BY <1>5, <1>6, <1>7 DEF TypeOK, createKizunaReservation

\* releaseKizunaReservation keeps the types.
LEMMA ReleaseType ==
    ASSUME TypeOK, NEW n \in Nonce, NEW st \in {"released", "expired"},
           releaseKizunaReservation(n, st)
    PROVE  TypeOK'
  <1> DEFINE r == reservations[n]
  <1>1. n \in DOMAIN reservations
    BY DEF releaseKizunaReservation, IsReserved
  <1>2. r \in Reservation
    BY <1>1 DEF TypeOK
  <1>3. /\ r.locked \in Nat /\ r.amount \in Nat /\ r.pool \in Pool
        /\ r.lane \in Lane /\ r.agent \in Agent
        /\ r.settlement \in Settlement \cup {NoSettlement}
    BY <1>2, AmountAssumption DEF Reservation
  <1>4. WithStatus(r, st, r.settlement) \in Reservation
    BY <1>2, <1>3, WithStatusType DEF ReservationStatus
  <1>5. DOMAIN reservations' \subseteq Nonce
        /\ reservations' \in [DOMAIN reservations' -> Reservation]
    BY <1>4 DEF TypeOK, releaseKizunaReservation
  <1>6. pools' \in [Pool -> PoolReserve]
    BY <1>3, BumpType DEF releaseKizunaReservation
  <1>7. balances' \in [Agent \X Pool -> Balance]
    <2>1. CASE r.mode = "prefunded"
      <3>1. CanMutateBalance(BalanceKey(r), r.locked, -r.locked)
        BY <2>1 DEF releaseKizunaReservation
      <3>2. balances' = mutateKizunaEnterpriseBalance(BalanceKey(r), r.locked, -r.locked, 0)
        BY <2>1 DEF releaseKizunaReservation
      <3>3. BalanceKey(r) \in Agent \X Pool /\ -r.locked \in Int /\ r.locked \in Int /\ 0 \in Nat
        BY <1>3 DEF BalanceKey
      <3> HIDE DEF r
      <3>4. QED
        BY <3>1, <3>2, <3>3, MutateType
    <2>2. CASE r.mode # "prefunded"
      BY <2>2 DEF releaseKizunaReservation, TypeOK
    <2>3. QED
      BY <2>1, <2>2
  <1>8. QED
    BY <1>5, <1>6, <1>7 DEF TypeOK, releaseKizunaReservation

\* finalizeKizunaSettlement keeps the types.
LEMMA FinalizeType ==
    ASSUME TypeOK, NEW s \in DOMAIN settlements,
           finalizeKizunaSettlement(settlements[s].nonce, s)
    PROVE  TypeOK'
  <1> DEFINE n == settlements[s].nonce
             r == reservations[n]
             prefunded == IsPrefundedEnterprise(r)
  <1>1. s \in Settlement /\ n \in Nonce
    BY DEF TypeOK, SettlementRow
  <1>2. n \in DOMAIN reservations
    BY DEF finalizeKizunaSettlement, IsReserved
  <1>3. r \in Reservation
    BY <1>2 DEF TypeOK
  <1>4. /\ r.locked \in Nat /\ r.amount \in Nat /\ r.amount \in Amount
        /\ r.pool \in Pool /\ r.lane \in Lane /\ r.agent \in Agent
    BY <1>3, AmountAssumption DEF Reservation
  <1>5. DOMAIN reservations' \subseteq Nonce
        /\ reservations' \in [DOMAIN reservations' -> Reservation]
    <2>1. WithStatus(r, "consumed", s) \in Reservation
      BY <1>1, <1>3, WithStatusType DEF ReservationStatus
    <2>2. reservations' = [reservations EXCEPT ![n] = WithStatus(r, "consumed", s)]
      BY DEF finalizeKizunaSettlement
    <2> HIDE DEF n, r
    <2>3. QED
      BY <2>1, <2>2 DEF TypeOK
  <1>6. pools' \in [Pool -> PoolReserve]
    <2>1. pools' = bumpKizunaPoolReserve(r.pool, r.lane, -r.amount,
                                         IF prefunded THEN 0 ELSE r.amount)
      BY DEF finalizeKizunaSettlement
    <2>2. -r.amount \in Int /\ (IF prefunded THEN 0 ELSE r.amount) \in Int
      BY <1>4
    <2> HIDE DEF n, r, prefunded
    <2>3. QED
      BY <1>4, <2>1, <2>2, BumpType
  <1>7. balances' \in [Agent \X Pool -> Balance]
    <2>1. CASE prefunded
      <3>1. CanMutateBalance(BalanceKey(r), 0, -r.locked)
        BY <2>1 DEF finalizeKizunaSettlement
      <3>2. balances' = mutateKizunaEnterpriseBalance(BalanceKey(r), 0, -r.locked, r.locked)
        BY <2>1 DEF finalizeKizunaSettlement, ConsumedBalance
      <3>3. BalanceKey(r) \in Agent \X Pool /\ -r.locked \in Int /\ r.locked \in Nat /\ 0 \in Int
        BY <1>4 DEF BalanceKey
      <3> HIDE DEF n, r, prefunded
      <3>4. QED
        BY <3>1, <3>2, <3>3, MutateType
    <2>2. CASE ~prefunded
      BY <2>2 DEF finalizeKizunaSettlement, TypeOK
    <2>3. QED
      BY <2>1, <2>2
  <1>8. debts' \in Seq(Debt)
    <2>1. debts' = debts \/ debts' = DebtsWith(r, n, s)
      BY DEF finalizeKizunaSettlement
    <2> DEFINE d == [agent |-> r.agent, lane |-> r.lane, pool |-> r.pool,
                     reservation |-> n, settlement |-> s, principal |-> r.amount,
                     outstanding |-> r.amount, status |-> "open"]
    <2>2. d \in Debt
      BY <1>1, <1>4 DEF Debt
    <2>3. DebtsWith(r, n, s) = debts \/ DebtsWith(r, n, s) = Append(debts, d)
      BY DEF DebtsWith
    <2>4. debts \in Seq(Debt)
      BY DEF TypeOK
    <2> HIDE DEF d, n, r
    <2>5. Append(debts, d) \in Seq(Debt)
      BY <2>2, <2>4
    <2>6. QED
      BY <2>1, <2>3, <2>4, <2>5
  <1>9. /\ DOMAIN settlements' \subseteq Settlement
        /\ settlements' \in [DOMAIN settlements' -> SettlementRow]
        /\ fees' \in [Settlement -> Nat]
        /\ billable' \subseteq Nonce \X Settlement
    <2>1. /\ settlements' = [settlements EXCEPT ![s].status = "confirmed"]
          /\ fees' = [fees EXCEPT ![s] = fees[s] + 1]
          /\ billable' = billable \cup {<<n, s>>}
      BY DEF finalizeKizunaSettlement
    <2>2. DOMAIN settlements' \subseteq Settlement
          /\ settlements' \in [DOMAIN settlements' -> SettlementRow]
      BY <2>1 DEF TypeOK, SettlementRow
    <2> HIDE DEF n
    <2>3. fees' \in [Settlement -> Nat]
      BY <1>1, <2>1 DEF TypeOK
    <2>4. billable' \subseteq Nonce \X Settlement
      BY <1>1, <2>1 DEF TypeOK
    <2>5. QED
      BY <2>2, <2>3, <2>4
  <1>10. outbox' \subseteq TrustEvent
    <2>1. [kind |-> "settlement", reservation |-> n, settlement |-> s] \in TrustEvent
      BY <1>1 DEF TrustEvent
    <2>2. outbox' = outbox \cup
            {[kind |-> "settlement", reservation |-> n, settlement |-> s]}
      BY DEF finalizeKizunaSettlement
    <2>3. QED
      BY <2>1, <2>2 DEF TypeOK
  <1>11. QED
    BY <1>5, <1>6, <1>7, <1>8, <1>9, <1>10 DEF TypeOK, finalizeKizunaSettlement

\* applyKizunaRepayment keeps the types.
LEMMA RepaymentType ==
    ASSUME TypeOK, NEW a \in Agent, NEW ref \in Ref, NEW l \in Lane,
           NEW p \in Pool, NEW amount \in Amount,
           applyKizunaRepayment(a, ref, l, p, amount)
    PROVE  TypeOK'
  <1> DEFINE applied == Applied(a, l, p, amount)
  <1>1. applied \in Nat /\ -applied \in Int
    BY AppliedType, AmountAssumption
  <1>2. \A i \in 1..Len(debts) :
          AfterPayment(debts[i], Payment(i, a, l, p, amount)) \in Debt
    <2> TAKE i \in 1..Len(debts)
    <2>1. debts[i] \in Debt
      BY DEF TypeOK
    <2>2. Payment(i, a, l, p, amount) \in 0..debts[i].outstanding
      BY PaymentBound
    <2>3. QED
      BY <2>1, <2>2, AfterPaymentType
  <1>3. debts' \in Seq(Debt)
    <2>1. debts' = [i \in 1..Len(debts) |->
                      AfterPayment(debts[i], Payment(i, a, l, p, amount))]
      BY DEF applyKizunaRepayment
    <2>2. Len(debts) \in Nat
      BY DEF TypeOK
    <2>3. QED
      BY <1>2, <2>1, <2>2
  <1>4. pools' \in [Pool -> PoolReserve]
    <2>1. pools' = pools \/ pools' = bumpKizunaPoolReserve(p, l, 0, -applied)
      BY DEF applyKizunaRepayment
    <2> HIDE DEF applied
    <2>2. bumpKizunaPoolReserve(p, l, 0, -applied) \in [Pool -> PoolReserve]
      BY <1>1, BumpType
    <2>3. QED
      BY <2>1, <2>2 DEF TypeOK
  <1>5. DOMAIN repayments' \subseteq Agent \X Ref
        /\ repayments' \in [DOMAIN repayments' -> [amount: Amount, applied: Nat]]
    <2>1. repayments' = WithRow(repayments, <<a, ref>>,
                                [amount |-> amount, applied |-> applied])
      BY DEF applyKizunaRepayment
    <2> HIDE DEF applied
    <2>2. QED
      BY <1>1, <2>1 DEF TypeOK, WithRow
  <1>6. outbox' \subseteq TrustEvent
    <2>1. [kind |-> "repayment", agent |-> a, ref |-> ref] \in TrustEvent
      BY DEF TrustEvent
    <2>2. outbox' = outbox \cup RepaymentEvent(a, ref, applied)
      BY DEF applyKizunaRepayment
    <2>3. QED
      BY <2>1, <2>2 DEF TypeOK, RepaymentEvent
  <1>7. QED
    BY <1>3, <1>4, <1>5, <1>6 DEF TypeOK, applyKizunaRepayment

\* A deposit or a withdrawal keeps the types.
LEMMA FundingType ==
    ASSUME TypeOK, NEW a \in Agent, NEW p \in Pool, NEW ref \in Ref,
           NEW amount \in Amount, NEW type \in {"deposit", "withdraw"},
           FundingRequest(a, p, ref, type, amount)
    PROVE  TypeOK'
  <1> DEFINE delta == IF type = "deposit" THEN amount ELSE -amount
  <1>1. delta \in Int /\ <<a, p>> \in Agent \X Pool /\ 0 \in Int /\ 0 \in Nat
    BY AmountAssumption
  <1>2. CanMutateBalance(<<a, p>>, delta, 0)
        /\ balances' = mutateKizunaEnterpriseBalance(<<a, p>>, delta, 0, 0)
    BY DEF FundingRequest, applyKizunaFundingEvent
  <1> HIDE DEF delta
  <1>3. balances' \in [Agent \X Pool -> Balance]
    BY <1>1, <1>2, MutateType
  <1>4. DOMAIN fundingEvents' \subseteq Agent \X Pool \X Ref
        /\ fundingEvents' \in [DOMAIN fundingEvents' ->
                                 [type: {"deposit", "withdraw"}, amount: Amount]]
    BY DEF TypeOK, FundingRequest, applyKizunaFundingEvent, WithRow
  <1>5. QED
    BY <1>3, <1>4 DEF TypeOK, FundingRequest, applyKizunaFundingEvent

\* The migrated, empty tables have their types.
LEMMA InitType == Init => TypeOK
  BY SeedAssumption DEF Init, TypeOK, Balance, PoolReserve

\* Every transaction keeps the types.
LEMMA NextType ==
    ASSUME TypeOK, [Next]_vars
    PROVE  TypeOK'
  <1>1. ASSUME NEW n \in Nonce, Lapse(n) PROVE TypeOK'
    BY <1>1 DEF TypeOK, Lapse
  <1>2. ASSUME NEW s \in Settlement, NEW n \in DOMAIN reservations,
               NEW status \in {"pending", "confirmed"},
               insertSettlement(s, n, status)
        PROVE  TypeOK'
    <2>1. n \in Nonce
      BY DEF TypeOK
    <2>2. QED
      BY <1>2, <2>1 DEF TypeOK, insertSettlement, WithRow, SettlementRow
  <1>3. ASSUME NEW s \in Settlement, updateSettlementStatus(s, "failed")
        PROVE  TypeOK'
    BY <1>3 DEF TypeOK, updateSettlementStatus, SettlementRow
  <1>4. CASE UNCHANGED vars
    BY <1>4 DEF TypeOK, vars
  <1>5. QED
    BY <1>1, <1>2, <1>3, <1>4, CreateType, ReleaseType, FinalizeType,
       RepaymentType, FundingType DEF Next

\* Spec keeps every table of the ledger well typed and no column negative,
\* whatever transactions createKizunaReservation, releaseKizunaReservation,
\* finalizeKizunaSettlement, applyKizunaRepayment and applyKizunaFundingEvent
\* commit in whatever order.
THEOREM TypeCorrect == Spec => []TypeOK
  BY InitType, NextType, PTL DEF Spec

-----------------------------------------------------------------------------
(* The inductive invariant behind ChargedExactlyOnce: it follows the charge   *)
(* of a reservation through the settlement row that carries it.               *)

Consumed(n) == n \in DOMAIN reservations /\ reservations[n].status = "consumed"

\* A debt belongs to a consumed reservation that was not prefunded.
DebtsMatch ==
    \A i \in 1..Len(debts) :
       LET n == debts[i].reservation
       IN  /\ Consumed(n)
           /\ ~IsPrefundedEnterprise(reservations[n])
           /\ debts[i].settlement = reservations[n].settlement
           /\ debts[i].principal = reservations[n].amount

DebtsDistinct ==
    \A i, j \in 1..Len(debts) : debts[i].reservation = debts[j].reservation => i = j

\* A consumed reservation was finalized by the request that inserted its
\* settlement, and everything finalizeKizunaSettlement writes is there.
ConsumedCharged ==
    \A n \in DOMAIN reservations :
       Consumed(n) =>
         /\ reservations[n].settlement \in DOMAIN settlements
         /\ settlements[reservations[n].settlement].nonce = n
         /\ fees[reservations[n].settlement] = 1
         /\ <<n, reservations[n].settlement>> \in billable
         /\ ~IsPrefundedEnterprise(reservations[n]) =>
              \E i \in 1..Len(debts) : debts[i].reservation = n

BillsMatch ==
    \A n \in Nonce, s \in Settlement :
       <<n, s>> \in billable => Consumed(n) /\ reservations[n].settlement = s

\* A fee row belongs to a settlement whose reservation is consumed by it.
FeesMatch ==
    \A s \in Settlement :
       fees[s] # 0 => /\ s \in DOMAIN settlements
                      /\ Consumed(settlements[s].nonce)
                      /\ reservations[settlements[s].nonce].settlement = s

ChargeInv ==
    /\ TypeOK
    /\ DebtsMatch
    /\ DebtsDistinct
    /\ ConsumedCharged
    /\ BillsMatch
    /\ FeesMatch

\* The parts of ChargeInv that read the tables a transaction may change.
ChargeParts == DebtsMatch /\ DebtsDistinct /\ ConsumedCharged /\ BillsMatch /\ FeesMatch

\* Adding a reservation row, or moving a reserved one to a status other than
\* consumed, charges nothing and keeps every charge.
LEMMA ReservationStep ==
    ASSUME ChargeInv, NEW n \in Nonce,
           DOMAIN reservations' = DOMAIN reservations \cup {n},
           \A m \in DOMAIN reservations : m # n => reservations'[m] = reservations[m],
           ~Consumed(n), reservations'[n].status # "consumed",
           UNCHANGED <<debts, settlements, fees, billable>>
    PROVE  ChargeParts'
  <1>1. \A m : Consumed(m) => Consumed(m)' /\ reservations'[m] = reservations[m]
    BY DEF Consumed
  <1>2. \A m : Consumed(m)' => Consumed(m) /\ reservations'[m] = reservations[m]
    BY DEF Consumed
  <1>3. DebtsMatch'
    BY <1>1 DEF ChargeInv, DebtsMatch
  <1>4. DebtsDistinct'
    BY DEF ChargeInv, DebtsDistinct
  <1>5. ConsumedCharged'
    BY <1>2 DEF ChargeInv, ConsumedCharged, Consumed
  <1>6. BillsMatch'
    BY <1>1 DEF ChargeInv, BillsMatch
  <1>7. FeesMatch'
    BY <1>1 DEF ChargeInv, FeesMatch
  <1>8. QED
    BY <1>3, <1>4, <1>5, <1>6, <1>7 DEF ChargeParts

\* A new reservation is charged nothing.
LEMMA CreateCharge ==
    ASSUME ChargeInv, NEW n \in Nonce, NEW a, NEW l, NEW p, NEW amount, NEW mode,
           createKizunaReservation(n, a, l, p, amount, mode)
    PROVE  ChargeParts'
  <1>1. n \notin DOMAIN reservations
    BY DEF createKizunaReservation
  <1>2. /\ DOMAIN reservations' = DOMAIN reservations \cup {n}
        /\ \A m \in DOMAIN reservations : m # n => reservations'[m] = reservations[m]
        /\ reservations'[n].status # "consumed"
    BY DEF createKizunaReservation, WithRow
  <1>3. UNCHANGED <<debts, settlements, fees, billable>>
    BY DEF createKizunaReservation
  <1>4. QED
    BY <1>1, <1>2, <1>3, ReservationStep DEF Consumed

\* A released or expired reservation stays uncharged.
LEMMA ReleaseCharge ==
    ASSUME ChargeInv, NEW n \in Nonce, NEW st \in {"released", "expired"},
           releaseKizunaReservation(n, st)
    PROVE  ChargeParts'
  <1>1. n \in DOMAIN reservations /\ ~Consumed(n)
    BY DEF releaseKizunaReservation, IsReserved, Consumed
  <1>2. reservations' = [reservations EXCEPT
          ![n] = WithStatus(reservations[n], st, reservations[n].settlement)]
    BY DEF releaseKizunaReservation
  <1>3. WithStatus(reservations[n], st, reservations[n].settlement).status # "consumed"
    BY DEF WithStatus
  <1>4. /\ DOMAIN reservations' = DOMAIN reservations \cup {n}
        /\ \A m \in DOMAIN reservations : m # n => reservations'[m] = reservations[m]
        /\ reservations'[n].status # "consumed"
    BY <1>1, <1>2, <1>3 DEF ChargeInv, TypeOK
  <1>5. UNCHANGED <<debts, settlements, fees, billable>>
    BY DEF releaseKizunaReservation
  <1>6. QED
    BY <1>1, <1>4, <1>5, ReservationStep

\* A settlement row keeps the nonce it was inserted for.
LEMMA SettlementStep ==
    ASSUME ChargeInv, DOMAIN settlements \subseteq DOMAIN settlements',
           \A s \in DOMAIN settlements : settlements'[s].nonce = settlements[s].nonce,
           UNCHANGED <<reservations, debts, fees, billable>>
    PROVE  ChargeParts'
  <1>1. ConsumedCharged'
    BY DEF ChargeInv, ConsumedCharged, Consumed
  <1>2. FeesMatch'
    BY DEF ChargeInv, FeesMatch, Consumed
  <1>3. DebtsMatch' /\ DebtsDistinct' /\ BillsMatch'
    BY DEF ChargeInv, DebtsMatch, DebtsDistinct, BillsMatch, Consumed
  <1>4. QED
    BY <1>1, <1>2, <1>3 DEF ChargeParts

\* A repayment changes no debt but in what is outstanding.
LEMMA RepaymentCharge ==
    ASSUME ChargeInv, NEW a, NEW ref, NEW l, NEW p, NEW amount,
           applyKizunaRepayment(a, ref, l, p, amount)
    PROVE  ChargeParts'
  <1>1. debts' = [i \in 1..Len(debts) |->
                    AfterPayment(debts[i], Payment(i, a, l, p, amount))]
    BY DEF applyKizunaRepayment
  <1>2. Len(debts) \in Nat
    BY DEF ChargeInv, TypeOK
  <1>3. Len(debts') = Len(debts)
    BY <1>1, <1>2
  <1>4. \A i \in 1..Len(debts) :
          /\ debts'[i].reservation = debts[i].reservation
          /\ debts'[i].settlement = debts[i].settlement
          /\ debts'[i].principal = debts[i].principal
    BY <1>1 DEF AfterPayment
  <1>5. UNCHANGED <<reservations, settlements, fees, billable>>
    BY DEF applyKizunaRepayment
  <1>6. DebtsMatch'
    BY <1>3, <1>4, <1>5 DEF ChargeInv, DebtsMatch, Consumed
  <1>7. DebtsDistinct'
    BY <1>3, <1>4 DEF ChargeInv, DebtsDistinct
  <1>8. ConsumedCharged'
    BY <1>3, <1>4, <1>5 DEF ChargeInv, ConsumedCharged, Consumed
  <1>9. BillsMatch' /\ FeesMatch'
    BY <1>5 DEF ChargeInv, BillsMatch, FeesMatch, Consumed
  <1>10. QED
    BY <1>6, <1>7, <1>8, <1>9 DEF ChargeParts

\* A settlement charges the reservation it consumes, once, and no other.
LEMMA FinalizeCharge ==
    ASSUME ChargeInv, NEW s \in DOMAIN settlements,
           finalizeKizunaSettlement(settlements[s].nonce, s)
    PROVE  ChargeParts'
  <1> DEFINE n == settlements[s].nonce
             r == reservations[n]
             prefunded == IsPrefundedEnterprise(r)
             d == [agent |-> r.agent, lane |-> r.lane, pool |-> r.pool,
                   reservation |-> n, settlement |-> s, principal |-> r.amount,
                   outstanding |-> r.amount, status |-> "open"]
  <1>1. s \in Settlement /\ n \in Nonce
    BY DEF ChargeInv, TypeOK, SettlementRow
  <1>2. n \in DOMAIN reservations /\ ~Consumed(n)
    BY DEF finalizeKizunaSettlement, IsReserved, Consumed
  \* Nothing was charged to s or to n before.
  <1>3. fees[s] = 0
    BY <1>1, <1>2 DEF ChargeInv, FeesMatch
  <1>4. \A i \in 1..Len(debts) : debts[i].reservation # n
    BY <1>2 DEF ChargeInv, DebtsMatch
  <1>5. \A i \in 1..Len(debts) : debts[i].settlement # s
    <2> SUFFICES ASSUME NEW i \in 1..Len(debts), debts[i].settlement = s
                 PROVE  FALSE
      OBVIOUS
    <2>1. /\ Consumed(debts[i].reservation)
          /\ reservations[debts[i].reservation].settlement = s
      BY DEF ChargeInv, DebtsMatch
    <2>2. debts[i].reservation \in DOMAIN reservations
      BY <2>1 DEF Consumed
    <2>3. settlements[s].nonce = debts[i].reservation
      BY <2>1, <2>2 DEF ChargeInv, ConsumedCharged
    <2>4. QED
      BY <1>2, <2>1, <2>3
  \* What the transaction writes.
  <1>6. reservations' = [reservations EXCEPT ![n] = WithStatus(r, "consumed", s)]
    BY DEF finalizeKizunaSettlement
  <1>7. /\ DOMAIN reservations' = DOMAIN reservations
        /\ reservations'[n] = WithStatus(r, "consumed", s)
        /\ \A m \in DOMAIN reservations : m # n => reservations'[m] = reservations[m]
    <2> HIDE DEF n, r
    <2>1. QED
      BY <1>2, <1>6 DEF ChargeInv, TypeOK
  <1>8. /\ reservations'[n].status = "consumed"
        /\ reservations'[n].settlement = s
        /\ reservations'[n].amount = r.amount
        /\ IsPrefundedEnterprise(reservations'[n]) <=> prefunded
    BY <1>7 DEF WithStatus, IsPrefundedEnterprise
  <1>9. /\ DOMAIN settlements' = DOMAIN settlements
        /\ \A t \in DOMAIN settlements : settlements'[t].nonce = settlements[t].nonce
    BY DEF finalizeKizunaSettlement, ChargeInv, TypeOK, SettlementRow
  <1>10. /\ fees'[s] = 1
         /\ \A t \in Settlement : t # s => fees'[t] = fees[t]
    BY <1>1, <1>3 DEF finalizeKizunaSettlement, ChargeInv, TypeOK
  <1>11. billable' = billable \cup {<<n, s>>}
    BY DEF finalizeKizunaSettlement
  <1>12. debts' = IF prefunded THEN debts ELSE Append(debts, d)
    BY <1>5 DEF finalizeKizunaSettlement, DebtsWith
  <1>13. /\ ~prefunded => Len(debts') = Len(debts) + 1 /\ debts'[Len(debts) + 1] = d
         /\ prefunded => Len(debts') = Len(debts)
         /\ \A i \in 1..Len(debts) : debts'[i] = debts[i]
    <2>1. debts \in Seq(Debt)
      BY DEF ChargeInv, TypeOK
    <2> HIDE DEF d, prefunded
    <2>2. QED
      BY <1>12, <2>1
  <1>14. Len(debts) \in Nat
    BY DEF ChargeInv, TypeOK
  <1>15. /\ d.reservation = n /\ d.settlement = s /\ d.principal = r.amount
    OBVIOUS
  <1> HIDE DEF n, r, d, prefunded
  \* A charge made before belongs to another reservation, which is untouched.
  <1>16. \A m : Consumed(m) => /\ m # n
                               /\ m \in DOMAIN reservations'
                               /\ reservations'[m].status = "consumed"
                               /\ reservations'[m] = reservations[m]
    BY <1>2, <1>7 DEF Consumed
  <1>17. n \in DOMAIN reservations'
    BY <1>2, <1>7
  <1>18. DebtsMatch'
    <2> SUFFICES ASSUME NEW i \in 1..Len(debts')
                 PROVE  LET m == debts'[i].reservation
                        IN  /\ m \in DOMAIN reservations'
                            /\ reservations'[m].status = "consumed"
                            /\ ~IsPrefundedEnterprise(reservations'[m])
                            /\ debts'[i].settlement = reservations'[m].settlement
                            /\ debts'[i].principal = reservations'[m].amount
      BY DEF DebtsMatch, Consumed, IsPrefundedEnterprise
    <2>1. CASE i \in 1..Len(debts)
      <3>1. debts'[i] = debts[i]
        BY <1>13, <2>1
      <3>2. /\ Consumed(debts[i].reservation)
            /\ ~IsPrefundedEnterprise(reservations[debts[i].reservation])
            /\ debts[i].settlement = reservations[debts[i].reservation].settlement
            /\ debts[i].principal = reservations[debts[i].reservation].amount
        BY <2>1 DEF ChargeInv, DebtsMatch
      <3>3. QED
        BY <1>16, <3>1, <3>2
    <2>2. CASE i \notin 1..Len(debts)
      <3>1. ~prefunded /\ debts'[i] = d
        BY <1>13, <1>14, <2>2
      <3>2. QED
        BY <1>8, <1>15, <1>17, <3>1
    <2>3. QED
      BY <2>1, <2>2
  <1>19. DebtsDistinct'
    <2> SUFFICES ASSUME NEW i \in 1..Len(debts'), NEW j \in 1..Len(debts'),
                        debts'[i].reservation = debts'[j].reservation
                 PROVE  i = j
      BY DEF DebtsDistinct
    <2>1. CASE i \in 1..Len(debts) /\ j \in 1..Len(debts)
      BY <1>13, <2>1 DEF ChargeInv, DebtsDistinct
    <2>2. CASE i \in 1..Len(debts) /\ j \notin 1..Len(debts)
      BY <1>4, <1>13, <1>14, <1>15, <2>2
    <2>3. CASE i \notin 1..Len(debts) /\ j \in 1..Len(debts)
      BY <1>4, <1>13, <1>14, <1>15, <2>3
    <2>4. CASE i \notin 1..Len(debts) /\ j \notin 1..Len(debts)
      BY <1>13, <1>14, <2>4
    <2>5. QED
      BY <2>1, <2>2, <2>3, <2>4
  <1>20. ConsumedCharged'
    <2> SUFFICES ASSUME NEW m \in DOMAIN reservations', Consumed(m)'
                 PROVE  /\ reservations'[m].settlement \in DOMAIN settlements'
                        /\ settlements'[reservations'[m].settlement].nonce = m
                        /\ fees'[reservations'[m].settlement] = 1
                        /\ <<m, reservations'[m].settlement>> \in billable'
                        /\ ~IsPrefundedEnterprise(reservations'[m]) =>
                             \E i \in 1..Len(debts') : debts'[i].reservation = m
      BY DEF ConsumedCharged, IsPrefundedEnterprise
    <2>1. CASE m = n
      <3>1. settlements'[s].nonce = n
        BY <1>9 DEF n
      <3>2. ~prefunded => \E i \in 1..Len(debts') : debts'[i].reservation = n
        BY <1>13, <1>14, <1>15
      <3>3. QED
        BY <1>8, <1>9, <1>10, <1>11, <2>1, <3>1, <3>2
    <2>2. CASE m # n
      <3>1. m \in DOMAIN reservations /\ reservations'[m] = reservations[m] /\ Consumed(m)
        BY <1>7, <2>2 DEF Consumed
      <3>2. reservations[m].settlement # s
        BY <2>2, <3>1 DEF ChargeInv, ConsumedCharged, n
      <3>3. reservations[m].settlement \in Settlement
        BY <3>1 DEF ChargeInv, ConsumedCharged, TypeOK
      <3>4. fees'[reservations[m].settlement] = 1
        BY <1>10, <3>1, <3>2, <3>3 DEF ChargeInv, ConsumedCharged
      <3>5. ~IsPrefundedEnterprise(reservations[m]) =>
              \E i \in 1..Len(debts') : debts'[i].reservation = m
        <4>1. ~IsPrefundedEnterprise(reservations[m]) =>
                \E i \in 1..Len(debts) : debts[i].reservation = m
          BY <3>1 DEF ChargeInv, ConsumedCharged
        <4>2. 1..Len(debts) \subseteq 1..Len(debts')
          BY <1>13, <1>14
        <4>3. QED
          BY <1>13, <4>1, <4>2
      <3>6. /\ reservations[m].settlement \in DOMAIN settlements
            /\ settlements[reservations[m].settlement].nonce = m
            /\ <<m, reservations[m].settlement>> \in billable
        BY <3>1 DEF ChargeInv, ConsumedCharged
      <3>7. QED
        BY <1>9, <1>11, <3>1, <3>4, <3>5, <3>6
    <2>3. QED
      BY <2>1, <2>2
  <1>21. BillsMatch'
    <2> SUFFICES ASSUME NEW m \in Nonce, NEW t \in Settlement, <<m, t>> \in billable'
                 PROVE  /\ m \in DOMAIN reservations'
                        /\ reservations'[m].status = "consumed"
                        /\ reservations'[m].settlement = t
      BY DEF BillsMatch, Consumed
    <2>1. CASE <<m, t>> \in billable
      <3>1. Consumed(m) /\ reservations[m].settlement = t
        BY <2>1 DEF ChargeInv, BillsMatch
      <3>2. QED
        BY <1>16, <3>1
    <2>2. CASE <<m, t>> = <<n, s>>
      <3>1. m = n /\ t = s
        BY <2>2
      <3>2. QED
        BY <1>8, <1>17, <3>1
    <2>3. QED
      BY <1>11, <2>1, <2>2
  <1>22. FeesMatch'
    <2> SUFFICES ASSUME NEW t \in Settlement, fees'[t] # 0
                 PROVE  /\ t \in DOMAIN settlements'
                        /\ settlements'[t].nonce \in DOMAIN reservations'
                        /\ reservations'[settlements'[t].nonce].status = "consumed"
                        /\ reservations'[settlements'[t].nonce].settlement = t
      BY DEF FeesMatch, Consumed
    <2>1. CASE t = s
      <3>1. settlements'[s].nonce = n
        BY <1>9 DEF n
      <3>2. QED
        BY <1>8, <1>9, <1>17, <2>1, <3>1
    <2>2. CASE t # s
      <3>1. fees[t] # 0
        BY <1>10, <2>2
      <3>2. /\ t \in DOMAIN settlements
            /\ Consumed(settlements[t].nonce)
            /\ reservations[settlements[t].nonce].settlement = t
        BY <3>1 DEF ChargeInv, FeesMatch
      <3>3. QED
        BY <1>9, <1>16, <3>2
    <2>3. QED
      BY <2>1, <2>2
  <1>23. QED
    BY <1>18, <1>19, <1>20, <1>21, <1>22 DEF ChargeParts

\* Nothing is charged in the empty tables.
LEMMA InitCharge == Init => ChargeInv
  <1> SUFFICES ASSUME Init PROVE ChargeInv
    OBVIOUS
  <1>1. TypeOK
    BY InitType
  <1>2. /\ DOMAIN reservations = {}
        /\ 1..Len(debts) = {}
        /\ billable = {}
        /\ \A s \in Settlement : fees[s] = 0
    BY DEF Init
  <1>3. QED
    BY <1>1, <1>2 DEF ChargeInv, DebtsMatch, DebtsDistinct, ConsumedCharged,
                      BillsMatch, FeesMatch

\* Every transaction keeps the inductive invariant.
LEMMA NextCharge ==
    ASSUME ChargeInv, [Next]_vars
    PROVE  ChargeInv'
  <1>1. TypeOK'
    BY NextType DEF ChargeInv
  <1> SUFFICES ChargeParts'
    BY <1>1 DEF ChargeInv, ChargeParts
  <1>2. CASE UNCHANGED <<reservations, debts, settlements, fees, billable>>
    BY <1>2, SettlementStep
  <1>3. ASSUME NEW n \in Nonce, Lapse(n) PROVE ChargeParts'
    BY <1>2, <1>3 DEF Lapse
  <1>4. ASSUME NEW s \in Settlement, NEW n \in DOMAIN reservations,
               NEW st \in {"pending", "confirmed"}, insertSettlement(s, n, st)
        PROVE  ChargeParts'
    <2>1. /\ DOMAIN settlements \subseteq DOMAIN settlements'
          /\ \A t \in DOMAIN settlements : settlements'[t].nonce = settlements[t].nonce
          /\ UNCHANGED <<reservations, debts, fees, billable>>
      BY <1>4 DEF insertSettlement, WithRow
    <2>2. QED
      BY <2>1, SettlementStep
  <1>5. ASSUME NEW s \in Settlement, updateSettlementStatus(s, "failed")
        PROVE  ChargeParts'
    <2>1. /\ DOMAIN settlements \subseteq DOMAIN settlements'
          /\ \A t \in DOMAIN settlements : settlements'[t].nonce = settlements[t].nonce
          /\ UNCHANGED <<reservations, debts, fees, billable>>
      BY <1>5 DEF updateSettlementStatus, ChargeInv, TypeOK, SettlementRow
    <2>2. QED
      BY <2>1, SettlementStep
  <1>6. ASSUME NEW a \in Agent, NEW p \in Pool, NEW ref \in Ref, NEW amount \in Amount,
               NEW type \in {"deposit", "withdraw"},
               FundingRequest(a, p, ref, type, amount)
        PROVE  ChargeParts'
    BY <1>2, <1>6 DEF FundingRequest, applyKizunaFundingEvent
  <1>7. CASE UNCHANGED vars
    BY <1>2, <1>7 DEF vars
  <1>8. QED
    BY <1>3, <1>4, <1>5, <1>6, <1>7, CreateCharge, ReleaseCharge,
       FinalizeCharge, RepaymentCharge DEF Next

\* The charge of one reservation, read off the inductive invariant.
LEMMA ChargeInvImplies == ChargeInv => ChargedExactlyOnce
  <1> SUFFICES ASSUME ChargeInv, NEW n \in Nonce
      PROVE  LET bills == {e \in billable : e[1] = n}
                 owed == {i \in 1..Len(debts) : debts[i].reservation = n}
             IN  IF Consumed(n)
                 THEN LET r == reservations[n] IN
                      /\ bills = {<<n, r.settlement>>}
                      /\ r.settlement \in Settlement
                      /\ fees[r.settlement] = 1
                      /\ IF IsPrefundedEnterprise(r) THEN owed = {}
                         ELSE \E i \in owed : /\ owed = {i}
                                              /\ debts[i].principal = r.amount
                                              /\ debts[i].settlement = r.settlement
                 ELSE bills = {} /\ owed = {}
    BY DEF ChargedExactlyOnce, Consumed
  <1> DEFINE bills == {e \in billable : e[1] = n}
             owed == {i \in 1..Len(debts) : debts[i].reservation = n}
             r == reservations[n]
  <1>1. \A e \in bills : Consumed(n) /\ e = <<n, r.settlement>>
    <2> SUFFICES ASSUME NEW e \in billable, e[1] = n
                 PROVE  Consumed(n) /\ e = <<n, reservations[n].settlement>>
      OBVIOUS
    <2>1. e \in Nonce \X Settlement
      BY DEF ChargeInv, TypeOK
    <2>2. PICK s \in Settlement : e = <<n, s>>
      BY <2>1
    <2>3. Consumed(n) /\ reservations[n].settlement = s
      BY <2>2 DEF ChargeInv, BillsMatch
    <2>4. QED
      BY <2>2, <2>3
  <1>2. \A i \in owed : /\ Consumed(n)
                        /\ ~IsPrefundedEnterprise(r)
                        /\ debts[i].settlement = r.settlement
                        /\ debts[i].principal = r.amount
                        /\ owed = {i}
    BY DEF ChargeInv, DebtsMatch, DebtsDistinct
  <1>3. CASE ~Consumed(n)
    BY <1>1, <1>2, <1>3
  <1>4. CASE Consumed(n)
    <2>1. n \in DOMAIN reservations
      BY <1>4 DEF Consumed
    <2>2. /\ r.settlement \in Settlement
          /\ fees[r.settlement] = 1
          /\ <<n, r.settlement>> \in billable
          /\ ~IsPrefundedEnterprise(r) => \E i \in 1..Len(debts) : debts[i].reservation = n
      BY <1>4, <2>1 DEF ChargeInv, ConsumedCharged, TypeOK
    <2>3. bills = {<<n, r.settlement>>}
      <3>1. <<n, r.settlement>> \in bills
        BY <2>2
      <3> HIDE DEF bills, r
      <3>2. QED
        BY <1>1, <3>1
    <2>4. IF IsPrefundedEnterprise(r) THEN owed = {}
          ELSE \E i \in owed : /\ owed = {i}
                               /\ debts[i].principal = r.amount
                               /\ debts[i].settlement = r.settlement
      <3>1. ~IsPrefundedEnterprise(r) => \E i \in owed : TRUE
        BY <2>2
      <3> HIDE DEF owed, r
      <3>2. QED
        BY <1>2, <3>1
    <2>5. QED
      BY <1>4, <2>2, <2>3, <2>4
  <1>5. QED
    BY <1>3, <1>4

\* For any number of requests, agents and pools: a reservation is charged (one
\* billable event, one fee row and, unless prefund paid, one debt) exactly when
\* it is consumed, and never twice (finalizeKizunaSettlement).
THEOREM ChargeSafe == Spec => []ChargedExactlyOnce
  <1>1. Spec => []ChargeInv
    BY InitCharge, NextCharge, PTL DEF Spec
  <1>2. QED
    BY <1>1, ChargeInvImplies, PTL

-----------------------------------------------------------------------------
(* Terminal rows *)

\* A step that leaves the debts alone and changes only reserved rows.
LEMMA TerminalStep ==
    ASSUME TypeOK, UNCHANGED debts,
           \A m \in DOMAIN reservations :
              /\ m \in DOMAIN reservations'
              /\ reservations[m].status # "reserved" => reservations'[m] = reservations[m]
    PROVE  KeepsTerminalRows
  <1>1. \A i \in 1..Len(debts) : debts[i].outstanding \in Nat
    <2> SUFFICES ASSUME NEW i \in 1..Len(debts) PROVE debts[i].outstanding \in Nat
      OBVIOUS
    <2>1. debts[i] \in Debt
      BY DEF TypeOK
    <2>2. QED
      BY <2>1 DEF Debt
  <1>2. QED
    BY <1>1 DEF KeepsTerminalRows

\* A new reservation touches no terminal row.
LEMMA CreateTerminal ==
    ASSUME TypeOK, NEW n, NEW a, NEW l, NEW p, NEW amount, NEW mode,
           createKizunaReservation(n, a, l, p, amount, mode)
    PROVE  KeepsTerminalRows
  BY TerminalStep DEF createKizunaReservation, WithRow

\* A release touches no terminal row: the one it changes was reserved.
LEMMA ReleaseTerminal ==
    ASSUME TypeOK, NEW n, NEW st, releaseKizunaReservation(n, st)
    PROVE  KeepsTerminalRows
  BY TerminalStep DEF releaseKizunaReservation, IsReserved, TypeOK

\* A settlement touches no terminal row and appends at most one debt.
LEMMA FinalizeTerminal ==
    ASSUME TypeOK, NEW n, NEW s, finalizeKizunaSettlement(n, s)
    PROVE  KeepsTerminalRows
  <1> DEFINE d == [agent |-> reservations[n].agent, lane |-> reservations[n].lane,
                   pool |-> reservations[n].pool, reservation |-> n, settlement |-> s,
                   principal |-> reservations[n].amount,
                   outstanding |-> reservations[n].amount, status |-> "open"]
  <1>1. debts' = debts \/ debts' = Append(debts, d)
    BY DEF finalizeKizunaSettlement, DebtsWith
  <1>2. debts \in Seq(Debt)
    BY DEF TypeOK
  <1> HIDE DEF d
  <1>3. \A i \in 1..Len(debts) : i \in 1..Len(debts') /\ debts'[i] = debts[i]
    BY <1>1, <1>2
  <1>4. \A i \in 1..Len(debts) : debts[i].outstanding \in Nat
    <2> SUFFICES ASSUME NEW i \in 1..Len(debts) PROVE debts[i].outstanding \in Nat
      OBVIOUS
    <2>1. debts[i] \in Debt
      BY <1>2
    <2>2. QED
      BY <2>1 DEF Debt
  <1>5. \A m \in DOMAIN reservations :
           /\ m \in DOMAIN reservations'
           /\ reservations[m].status # "reserved" => reservations'[m] = reservations[m]
    BY DEF finalizeKizunaSettlement, IsReserved, TypeOK
  <1>6. QED
    BY <1>3, <1>4, <1>5 DEF KeepsTerminalRows

\* A repayment grows no debt and leaves the closed ones alone.
LEMMA RepaymentTerminal ==
    ASSUME TypeOK, NEW a, NEW ref, NEW l, NEW p, NEW amount,
           applyKizunaRepayment(a, ref, l, p, amount)
    PROVE  KeepsTerminalRows
  <1>1. debts' = [i \in 1..Len(debts) |->
                    AfterPayment(debts[i], Payment(i, a, l, p, amount))]
    BY DEF applyKizunaRepayment
  <1>2. Len(debts) \in Nat
    BY DEF TypeOK
  <1>3. Len(debts') = Len(debts)
    BY <1>1, <1>2
  <1>4. ASSUME NEW i \in 1..Len(debts)
        PROVE  /\ debts'[i].outstanding <= debts[i].outstanding
               /\ debts[i].status = "closed" => debts'[i] = debts[i]
    <2> DEFINE paid == Payment(i, a, l, p, amount)
    <2>1. debts[i] \in Debt
      BY DEF TypeOK
    <2>2. debts[i].outstanding \in Nat
      BY <2>1 DEF Debt
    <2>3. /\ paid \in 0..debts[i].outstanding
          /\ debts[i].status = "closed" => paid = 0
      BY PaymentBound
    <2>4. debts'[i] = AfterPayment(debts[i], paid)
      BY <1>1
    <2> HIDE DEF paid
    <2>5. debts'[i].outstanding = debts[i].outstanding - paid
      BY <2>4 DEF AfterPayment
    <2>6. debts[i].status = "closed" => debts'[i] = debts[i]
      BY <2>1, <2>2, <2>3, <2>4 DEF AfterPayment, Debt
    <2>7. QED
      BY <2>2, <2>3, <2>5, <2>6
  <1>5. UNCHANGED reservations
    BY DEF applyKizunaRepayment
  <1>6. QED
    BY <1>3, <1>4, <1>5 DEF KeepsTerminalRows

\* No transaction of the ledger touches a settled, released or expired
\* reservation, reopens a closed debt or lets a debt grow.
THEOREM TerminalSafe == Spec => TerminalRowsAreFinal
  <1>1. ASSUME TypeOK, [Next]_vars PROVE [KeepsTerminalRows]_vars
    <2>1. CASE UNCHANGED <<reservations, debts>>
      BY <1>1, <2>1, TerminalStep
    <2>2. QED
      BY <1>1, <2>1, CreateTerminal, ReleaseTerminal, FinalizeTerminal,
         RepaymentTerminal
      DEF Next, vars, Lapse, insertSettlement, updateSettlementStatus,
          FundingRequest, applyKizunaFundingEvent
  <1>2. QED
    BY <1>1, TypeCorrect, PTL DEF Spec, TerminalRowsAreFinal

-----------------------------------------------------------------------------
(* Conservation of the prefund *)

\* mutateKizunaEnterpriseBalance changes a total by the sum of its deltas.
LEMMA MutateFunds ==
    ASSUME TypeOK, NEW k \in Agent \X Pool, NEW da \in Int, NEW dr \in Int,
           NEW ds \in Nat, CanMutateBalance(k, da, dr),
           balances' = mutateKizunaEnterpriseBalance(k, da, dr, ds)
    PROVE  /\ Funds(k)' = Funds(k) + da + dr + ds
           /\ \A j \in Agent \X Pool : j # k => Funds(j)' = Funds(j)
  <1>1. balances[k].available \in Nat /\ balances[k].reserved \in Nat
        /\ balances[k].spent \in Nat
    BY DEF TypeOK, Balance
  <1>2. /\ balances'[k] = [available |-> balances[k].available + da,
                           reserved |-> balances[k].reserved + dr,
                           spent |-> balances[k].spent + ds]
        /\ \A j \in Agent \X Pool : j # k => balances'[j] = balances[j]
    BY MutateType
  <1>3. /\ balances'[k].available = balances[k].available + da
        /\ balances'[k].reserved = balances[k].reserved + dr
        /\ balances'[k].spent = balances[k].spent + ds
    BY <1>2
  <1>4. Funds(k)' = Funds(k) + da + dr + ds
    BY <1>1, <1>3 DEF Funds
  <1>5. QED
    BY <1>2, <1>4 DEF Funds

\* A step that records no funding event and leaves every total alone.
LEMMA ConservedStep ==
    ASSUME UNCHANGED fundingEvents, \A k \in Agent \X Pool : Funds(k)' = Funds(k)
    PROVE  ConservesPrefund
  BY DEF ConservesPrefund, NewEvents

\* Moving locked prefund between two columns of a balance.
LEMMA MoveConserves ==
    ASSUME TypeOK, UNCHANGED fundingEvents, NEW k \in Agent \X Pool,
           NEW da \in Int, NEW dr \in Int, NEW ds \in Nat, da + dr + ds = 0,
           CanMutateBalance(k, da, dr),
           balances' = mutateKizunaEnterpriseBalance(k, da, dr, ds)
    PROVE  ConservesPrefund
  <1>1. Funds(k) \in Int
    BY DEF Funds, TypeOK, Balance
  <1>2. Funds(k)' = Funds(k) + da + dr + ds
    BY MutateFunds
  <1>3. Funds(k)' = Funds(k)
    BY <1>1, <1>2
  <1>4. \A j \in Agent \X Pool : j # k => Funds(j)' = Funds(j)
    BY MutateFunds
  <1>5. QED
    BY <1>3, <1>4, ConservedStep

\* A step that leaves the balances and the funding events alone conserves prefund.
LEMMA UnchangedConserves ==
    ASSUME UNCHANGED <<balances, fundingEvents>>
    PROVE  ConservesPrefund
  BY ConservedStep DEF Funds

\* Locking prefund for a reservation conserves it.
LEMMA CreateConserves ==
    ASSUME TypeOK, NEW n \in Nonce, NEW a \in Agent, NEW l \in Lane,
           NEW p \in Pool, NEW amount \in Amount, NEW mode \in FundingModes(l),
           createKizunaReservation(n, a, l, p, amount, mode)
    PROVE  ConservesPrefund
  <1>1. UNCHANGED fundingEvents
    BY DEF createKizunaReservation
  <1>2. CASE mode = "prefunded"
    <2>1. /\ CanMutateBalance(<<a, p>>, -amount, amount)
          /\ balances' = mutateKizunaEnterpriseBalance(<<a, p>>, -amount, amount, 0)
      BY <1>2 DEF createKizunaReservation
    <2>2. /\ <<a, p>> \in Agent \X Pool /\ -amount \in Int /\ amount \in Int
          /\ 0 \in Nat /\ (-amount) + amount + 0 = 0
      BY AmountAssumption
    <2>3. QED
      BY <1>1, <2>1, <2>2, MoveConserves
  <1>3. CASE mode # "prefunded"
    BY <1>1, <1>3, UnchangedConserves DEF createKizunaReservation
  <1>4. QED
    BY <1>2, <1>3

\* The lock a live row holds and the balance it is held in.
LEMMA ReservationFacts ==
    ASSUME TypeOK, NEW n \in DOMAIN reservations
    PROVE  /\ reservations[n].locked \in Nat
           /\ BalanceKey(reservations[n]) \in Agent \X Pool
  <1>1. reservations[n] \in Reservation
    BY DEF TypeOK
  <1>2. QED
    BY <1>1 DEF Reservation, BalanceKey

\* Unlocking the prefund of a reservation conserves it.
LEMMA ReleaseConserves ==
    ASSUME TypeOK, NEW n \in Nonce, NEW st, releaseKizunaReservation(n, st)
    PROVE  ConservesPrefund
  <1> DEFINE k == BalanceKey(reservations[n])
             locked == reservations[n].locked
  <1>1. UNCHANGED fundingEvents /\ n \in DOMAIN reservations
    BY DEF releaseKizunaReservation, IsReserved
  <1>2. CASE reservations[n].mode = "prefunded"
    <2>1. CanMutateBalance(k, locked, -locked)
          /\ balances' = mutateKizunaEnterpriseBalance(k, locked, -locked, 0)
      BY <1>2 DEF releaseKizunaReservation
    <2>2. locked \in Nat /\ k \in Agent \X Pool
      BY <1>1, ReservationFacts
    <2> HIDE DEF k, locked
    <2>3. locked \in Int /\ -locked \in Int /\ 0 \in Nat /\ locked + (-locked) + 0 = 0
      BY <2>2
    <2>4. QED
      BY <1>1, <2>1, <2>2, <2>3, MoveConserves
  <1>3. CASE reservations[n].mode # "prefunded"
    BY <1>1, <1>3, UnchangedConserves DEF releaseKizunaReservation
  <1>4. QED
    BY <1>2, <1>3

\* Spending the locked prefund conserves it.
LEMMA FinalizeConserves ==
    ASSUME TypeOK, NEW n, NEW s, finalizeKizunaSettlement(n, s)
    PROVE  ConservesPrefund
  <1> DEFINE k == BalanceKey(reservations[n])
             locked == reservations[n].locked
  <1>1. UNCHANGED fundingEvents /\ n \in DOMAIN reservations
    BY DEF finalizeKizunaSettlement, IsReserved
  <1>2. CASE IsPrefundedEnterprise(reservations[n])
    <2>1. CanMutateBalance(k, 0, -locked)
          /\ balances' = mutateKizunaEnterpriseBalance(k, 0, -locked, locked)
      BY <1>2 DEF finalizeKizunaSettlement, ConsumedBalance
    <2>2. locked \in Nat /\ k \in Agent \X Pool
      BY <1>1, ReservationFacts
    <2> HIDE DEF k, locked
    <2>3. 0 \in Int /\ -locked \in Int /\ 0 + (-locked) + locked = 0
      BY <2>2
    <2>4. QED
      BY <1>1, <2>1, <2>2, <2>3, MoveConserves
  <1>3. CASE ~IsPrefundedEnterprise(reservations[n])
    BY <1>1, <1>3, UnchangedConserves DEF finalizeKizunaSettlement
  <1>4. QED
    BY <1>2, <1>3

\* A deposit or a withdrawal changes the total by what its event records.
LEMMA FundingConserves ==
    ASSUME TypeOK, NEW a \in Agent, NEW p \in Pool, NEW ref \in Ref,
           NEW amount \in Amount, NEW type \in {"deposit", "withdraw"},
           FundingRequest(a, p, ref, type, amount)
    PROVE  ConservesPrefund
  <1> DEFINE delta == IF type = "deposit" THEN amount ELSE -amount
             e == <<a, p, ref>>
             row == [type |-> type, amount |-> amount]
  <1>1. delta \in Int /\ <<a, p>> \in Agent \X Pool /\ 0 \in Int /\ 0 \in Nat
    BY AmountAssumption
  <1>2. /\ CanMutateBalance(<<a, p>>, delta, 0)
        /\ balances' = mutateKizunaEnterpriseBalance(<<a, p>>, delta, 0, 0)
        /\ e \notin DOMAIN fundingEvents
        /\ fundingEvents' = WithRow(fundingEvents, e, row)
    BY DEF FundingRequest, applyKizunaFundingEvent, IsNewFundingEvent
  <1>3. /\ e[1] = a /\ e[2] = p
        /\ <<a, p>>[1] = a /\ <<a, p>>[2] = p
        /\ Inflow(row) = delta
    BY DEF Inflow
  <1>4. \A k \in Agent \X Pool : k[1] = a /\ k[2] = p => k = <<a, p>>
    OBVIOUS
  <1> HIDE DEF delta, e, row
  <1>5. DOMAIN fundingEvents' \ DOMAIN fundingEvents = {e} /\ fundingEvents'[e] = row
    BY <1>2 DEF WithRow
  <1>6. Funds(<<a, p>>) \in Int
    BY <1>1 DEF Funds, TypeOK, Balance
  <1>7. Funds(<<a, p>>)' = Funds(<<a, p>>) + delta + 0 + 0
    BY <1>1, <1>2, MutateFunds
  <1>8. Funds(<<a, p>>)' = Funds(<<a, p>>) + Inflow(fundingEvents'[e])
    BY <1>1, <1>3, <1>5, <1>6, <1>7
  <1>9. \A k \in Agent \X Pool : k # <<a, p>> => Funds(k)' = Funds(k)
    BY <1>1, <1>2, MutateFunds
  <1>10. e \in NewEvents(<<a, p>>)
    BY <1>3, <1>5 DEF NewEvents
  <1>11. \A k \in Agent \X Pool : k # <<a, p>> => NewEvents(k) = {}
    BY <1>3, <1>4, <1>5 DEF NewEvents
  <1>12. QED
    BY <1>8, <1>9, <1>10, <1>11 DEF ConservesPrefund

\* No order of reservations, releases and settlements mints or burns prefund:
\* what a balance holds in its three columns changes only with a recorded
\* deposit or withdrawal (mutateKizunaEnterpriseBalance and its callers).
THEOREM PrefundSafe == Spec => PrefundConserved
  <1>1. ASSUME TypeOK, [Next]_vars PROVE [ConservesPrefund]_vars
    <2>1. ASSUME NEW n \in Nonce, Lapse(n) PROVE ConservesPrefund
      BY <2>1, UnchangedConserves DEF Lapse
    <2>2. ASSUME NEW s, NEW n, NEW st, insertSettlement(s, n, st)
          PROVE  ConservesPrefund
      BY <2>2, UnchangedConserves DEF insertSettlement
    <2>3. ASSUME NEW s, updateSettlementStatus(s, "failed") PROVE ConservesPrefund
      BY <2>3, UnchangedConserves DEF updateSettlementStatus
    <2>4. ASSUME NEW a, NEW ref, NEW l, NEW p, NEW amount,
                 applyKizunaRepayment(a, ref, l, p, amount)
          PROVE  ConservesPrefund
      BY <2>4, UnchangedConserves DEF applyKizunaRepayment
    <2>5. QED
      BY <1>1, <2>1, <2>2, <2>3, <2>4, CreateConserves, ReleaseConserves,
         FinalizeConserves, FundingConserves DEF Next
  <1>2. QED
    BY <1>1, TypeCorrect, PTL DEF Spec, PrefundConserved

-----------------------------------------------------------------------------
(* The outbox *)

BilledEvents ==
    {[kind |-> "settlement", reservation |-> e[1], settlement |-> e[2]] : e \in billable}

PaidRepayments == {k \in DOMAIN repayments : repayments[k].applied > 0}

RepaidEvents ==
    {[kind |-> "repayment", agent |-> k[1], ref |-> k[2]] : k \in PaidRepayments}

\* The outbox as the union of its two kinds of events.
LEMMA OutboxParts == OutboxMatchesLedger <=> outbox = BilledEvents \cup RepaidEvents
  BY DEF OutboxMatchesLedger, BilledEvents, RepaidEvents, PaidRepayments

\* A settlement queues the event of the billable row it inserts.
LEMMA FinalizeOutbox ==
    ASSUME OutboxMatchesLedger, NEW n, NEW s, finalizeKizunaSettlement(n, s)
    PROVE  OutboxMatchesLedger'
  <1> DEFINE ev == [kind |-> "settlement", reservation |-> n, settlement |-> s]
  <1>1. billable' = billable \cup {<<n, s>>} /\ outbox' = outbox \cup {ev}
    BY DEF finalizeKizunaSettlement
  <1>2. BilledEvents' = BilledEvents \cup {ev}
    <2> DEFINE Ev(e) == [kind |-> "settlement", reservation |-> e[1], settlement |-> e[2]]
    <2>1. Ev(<<n, s>>) = ev
      OBVIOUS
    <2>2. BilledEvents' = {Ev(e) : e \in billable'} /\ BilledEvents = {Ev(e) : e \in billable}
      BY DEF BilledEvents
    <2> HIDE DEF Ev, ev
    <2>3. QED
      BY <1>1, <2>1, <2>2
  <1>3. RepaidEvents' = RepaidEvents
    BY DEF finalizeKizunaSettlement, RepaidEvents, PaidRepayments
  <1> HIDE DEF ev
  <1>4. outbox' = BilledEvents' \cup RepaidEvents'
    BY <1>1, <1>2, <1>3, OutboxParts
  <1>5. QED
    BY <1>4 DEF OutboxMatchesLedger, BilledEvents, RepaidEvents, PaidRepayments

\* A repayment queues an event exactly when it paid something.
LEMMA RepaymentOutbox ==
    ASSUME OutboxMatchesLedger, NEW a, NEW ref, NEW l, NEW p, NEW amount,
           applyKizunaRepayment(a, ref, l, p, amount)
    PROVE  OutboxMatchesLedger'
  <1> DEFINE k == <<a, ref>>
             applied == Applied(a, l, p, amount)
             row == [amount |-> amount, applied |-> applied]
             ev == [kind |-> "repayment", agent |-> a, ref |-> ref]
  <1>1. /\ k \notin DOMAIN repayments
        /\ repayments' = WithRow(repayments, k, row)
        /\ outbox' = outbox \cup RepaymentEvent(a, ref, applied)
        /\ billable' = billable
    BY DEF applyKizunaRepayment, IsNewRepayment
  <1>2. BilledEvents' = BilledEvents
    BY <1>1 DEF BilledEvents
  <1>3. row.applied = applied /\ k[1] = a /\ k[2] = ref
    OBVIOUS
  <1>4. RepaymentEvent(a, ref, applied) = IF applied > 0 THEN {ev} ELSE {}
    BY DEF RepaymentEvent
  <1> HIDE DEF k, applied, row
  <1>5. PaidRepayments' = PaidRepayments \cup (IF applied > 0 THEN {k} ELSE {})
    BY <1>1, <1>3 DEF PaidRepayments, WithRow
  <1>6. RepaidEvents' = RepaidEvents \cup (IF applied > 0 THEN {ev} ELSE {})
    BY <1>3, <1>5 DEF RepaidEvents
  <1> HIDE DEF ev
  <1>7. outbox' = BilledEvents' \cup RepaidEvents'
    BY <1>1, <1>2, <1>4, <1>6, OutboxParts
  <1>8. QED
    BY <1>7 DEF OutboxMatchesLedger, BilledEvents, RepaidEvents, PaidRepayments

\* Every transaction keeps the outbox in step with the ledger.
LEMMA NextOutbox ==
    ASSUME OutboxMatchesLedger, [Next]_vars
    PROVE  OutboxMatchesLedger'
  <1>1. CASE UNCHANGED <<outbox, billable, repayments>>
    BY <1>1 DEF OutboxMatchesLedger
  <1>2. ASSUME NEW n, NEW a, NEW l, NEW p, NEW amount, NEW mode,
               createKizunaReservation(n, a, l, p, amount, mode)
        PROVE  OutboxMatchesLedger'
    BY <1>1, <1>2 DEF createKizunaReservation
  <1>3. ASSUME NEW n, Lapse(n) PROVE OutboxMatchesLedger'
    BY <1>1, <1>3 DEF Lapse
  <1>4. ASSUME NEW n, NEW st, releaseKizunaReservation(n, st)
        PROVE  OutboxMatchesLedger'
    BY <1>1, <1>4 DEF releaseKizunaReservation
  <1>5. ASSUME NEW s, NEW n, NEW st, insertSettlement(s, n, st)
        PROVE  OutboxMatchesLedger'
    BY <1>1, <1>5 DEF insertSettlement
  <1>6. ASSUME NEW s, NEW st, updateSettlementStatus(s, st) PROVE OutboxMatchesLedger'
    BY <1>1, <1>6 DEF updateSettlementStatus
  <1>7. ASSUME NEW a, NEW p, NEW ref, NEW type, NEW amount,
               FundingRequest(a, p, ref, type, amount)
        PROVE  OutboxMatchesLedger'
    BY <1>1, <1>7 DEF FundingRequest, applyKizunaFundingEvent
  <1>8. CASE UNCHANGED vars
    BY <1>1, <1>8 DEF vars
  <1>9. QED
    BY <1>2, <1>3, <1>4, <1>5, <1>6, <1>7, <1>8, FinalizeOutbox, RepaymentOutbox
    DEF Next

\* The empty outbox matches the empty ledger.
LEMMA InitOutbox == Init => OutboxMatchesLedger
  BY DEF Init, OutboxMatchesLedger

\* Whatever the order of settlements and repayments, the events queued for
\* FairScale are one per billed settlement and one per repayment that paid
\* something (queueFairscaleTrustEventOutbox inside its callers' transactions).
THEOREM OutboxSafe == Spec => []OutboxMatchesLedger
  BY InitOutbox, NextOutbox, PTL DEF Spec

-----------------------------------------------------------------------------
(* Sums over the rows of the ledger *)

\* The tables hold finitely many rows.
FiniteRows == IsFiniteSet(DOMAIN reservations) /\ IsFiniteSet(DOMAIN repayments)

\* What reservation n contributes to the locked prefund of balance k ...
LockShare(k, status, n) ==
    IF n \in LockedOf(k, status) THEN reservations[n].locked ELSE 0

\* ... and to the live reservations of a pool and lane.
LiveShare(p, l, n) == IF n \in LiveIn(p, l) THEN reservations[n].amount ELSE 0

\* A step that writes the row of one reservation changes the sums by what that
\* row contributed before and after.
LEMMA RowStep ==
    ASSUME TypeOK, TypeOK', FiniteRows, FiniteRows', NEW n,
           DOMAIN reservations' = DOMAIN reservations \cup {n},
           \A m \in DOMAIN reservations \ {n} : reservations'[m] = reservations[m]
    PROVE  /\ \A k, st : LockedSum(k, st)' =
                LockedSum(k, st) - LockShare(k, st, n) + LockShare(k, st, n)'
           /\ \A p, l : LiveSum(p, l)' =
                LiveSum(p, l) - LiveShare(p, l, n) + LiveShare(p, l, n)'
  <1>1. ASSUME NEW k, NEW st
        PROVE  LockedSum(k, st)' =
                 LockedSum(k, st) - LockShare(k, st, n) + LockShare(k, st, n)'
    <2> DEFINE f == [m \in LockedOf(k, st) |-> reservations[m].locked]
               g == [m \in LockedOf(k, st)' |-> reservations'[m].locked]
    <2>1. /\ IsFiniteSet(LockedOf(k, st)) /\ IsFiniteSet(LockedOf(k, st)')
      BY FS_Subset DEF FiniteRows, LockedOf
    <2>2. f \in [LockedOf(k, st) -> Int]
      BY DEF TypeOK, Reservation, LockedOf
    <2>3. g \in [LockedOf(k, st)' -> Int]
      BY DEF TypeOK, Reservation, LockedOf
    <2>4. LockedOf(k, st) \ {n} = LockedOf(k, st)' \ {n}
      BY DEF LockedOf
    <2>5. \A m \in LockedOf(k, st) \ {n} : g[m] = f[m]
      BY <2>4 DEF LockedOf
    <2>6. SumFunction(f) = LockedSum(k, st) /\ SumFunction(g) = LockedSum(k, st)'
      BY DEF LockedSum
    <2>7. Share(f, n) = LockShare(k, st, n) /\ Share(g, n) = LockShare(k, st, n)'
      BY DEF Share, LockShare
    <2> HIDE DEF f, g
    <2>8. SumFunction(g) = SumFunction(f) - Share(f, n) + Share(g, n)
      BY <2>1, <2>2, <2>3, <2>4, <2>5, SumStep
    <2>9. QED
      BY <2>6, <2>7, <2>8
  <1>2. ASSUME NEW p, NEW l
        PROVE  LiveSum(p, l)' = LiveSum(p, l) - LiveShare(p, l, n) + LiveShare(p, l, n)'
    <2> DEFINE f == [m \in LiveIn(p, l) |-> reservations[m].amount]
               g == [m \in LiveIn(p, l)' |-> reservations'[m].amount]
    <2>1. /\ IsFiniteSet(LiveIn(p, l)) /\ IsFiniteSet(LiveIn(p, l)')
      BY FS_Subset DEF FiniteRows, LiveIn
    <2>2. f \in [LiveIn(p, l) -> Int]
      BY AmountAssumption DEF TypeOK, Reservation, LiveIn
    <2>3. g \in [LiveIn(p, l)' -> Int]
      BY AmountAssumption DEF TypeOK, Reservation, LiveIn
    <2>4. LiveIn(p, l) \ {n} = LiveIn(p, l)' \ {n}
      BY DEF LiveIn
    <2>5. \A m \in LiveIn(p, l) \ {n} : g[m] = f[m]
      BY <2>4 DEF LiveIn
    <2>6. SumFunction(f) = LiveSum(p, l) /\ SumFunction(g) = LiveSum(p, l)'
      BY DEF LiveSum
    <2>7. Share(f, n) = LiveShare(p, l, n) /\ Share(g, n) = LiveShare(p, l, n)'
      BY DEF Share, LiveShare
    <2> HIDE DEF f, g
    <2>8. SumFunction(g) = SumFunction(f) - Share(f, n) + Share(g, n)
      BY <2>1, <2>2, <2>3, <2>4, <2>5, SumStep
    <2>9. QED
      BY <2>6, <2>7, <2>8
  <1>3. QED
    BY <1>1, <1>2

\* Only prefund of the enterprise lane is locked (FundingModes).
ModesMatch ==
    \A n \in DOMAIN reservations :
       reservations[n].mode = "prefunded" => reservations[n].lane = "enterprise"

\* The tables start empty.
LEMMA InitRows == Init => FiniteRows /\ ModesMatch
  <1>1. IsFiniteSet({})
    BY FS_EmptySet
  <1>2. ASSUME Init PROVE DOMAIN reservations = {} /\ DOMAIN repayments = {}
    BY <1>2 DEF Init
  <1>3. QED
    BY <1>1, <1>2 DEF FiniteRows, ModesMatch

\* Which rows of reservations a transaction writes: none, or one.
Creates(n, a, l, p, amount, mode) ==
    /\ n \notin DOMAIN reservations
    /\ DOMAIN reservations' = DOMAIN reservations \cup {n}
    /\ \A m \in DOMAIN reservations \ {n} : reservations'[m] = reservations[m]
    /\ reservations'[n].status = "reserved"
    /\ BalanceKey(reservations'[n]) = <<a, p>>
    /\ reservations'[n].lane = l /\ reservations'[n].pool = p
    /\ reservations'[n].amount = amount /\ reservations'[n].mode = mode
    /\ reservations'[n].locked = IF mode = "prefunded" THEN amount ELSE 0

\* createKizunaReservation inserts one row.
LEMMA CreateRow ==
    ASSUME NEW n, NEW a, NEW l, NEW p, NEW amount, NEW mode,
           createKizunaReservation(n, a, l, p, amount, mode)
    PROVE  Creates(n, a, l, p, amount, mode)
  BY DEF createKizunaReservation, WithRow, BalanceKey, Creates

\* A release or a settlement changes nothing but the status of a row and the
\* settlement it names.
LEMMA StatusFields ==
    ASSUME NEW r, NEW st, NEW s
    PROVE  /\ WithStatus(r, st, s).status = st
           /\ BalanceKey(WithStatus(r, st, s)) = BalanceKey(r)
           /\ WithStatus(r, st, s).lane = r.lane
           /\ WithStatus(r, st, s).pool = r.pool
           /\ WithStatus(r, st, s).amount = r.amount
           /\ WithStatus(r, st, s).mode = r.mode
           /\ WithStatus(r, st, s).locked = r.locked
  BY DEF WithStatus, BalanceKey

\* A reserved row n that a transaction moves to another status.
Moves(n, st) ==
    /\ n \in DOMAIN reservations /\ reservations[n].status = "reserved"
    /\ DOMAIN reservations' = DOMAIN reservations \cup {n}
    /\ \A m \in DOMAIN reservations \ {n} : reservations'[m] = reservations[m]
    /\ reservations'[n].status = st
    /\ BalanceKey(reservations'[n]) = BalanceKey(reservations[n])
    /\ reservations'[n].lane = reservations[n].lane
    /\ reservations'[n].pool = reservations[n].pool
    /\ reservations'[n].amount = reservations[n].amount
    /\ reservations'[n].mode = reservations[n].mode
    /\ reservations'[n].locked = reservations[n].locked

\* A release moves one reserved row.
LEMMA ReleaseRow ==
    ASSUME NEW n, NEW st, releaseKizunaReservation(n, st)
    PROVE  Moves(n, st)
  <1>1. n \in DOMAIN reservations /\ reservations[n].status = "reserved"
    BY DEF releaseKizunaReservation, IsReserved
  <1>2. reservations' = [reservations EXCEPT
          ![n] = WithStatus(reservations[n], st, reservations[n].settlement)]
    BY DEF releaseKizunaReservation
  <1>3. reservations'[n] = WithStatus(reservations[n], st, reservations[n].settlement)
    BY <1>1, <1>2
  <1>4. QED
    BY <1>1, <1>2, <1>3, StatusFields DEF Moves

\* A settlement consumes one reserved row.
LEMMA FinalizeRow ==
    ASSUME NEW n, NEW s, finalizeKizunaSettlement(n, s)
    PROVE  Moves(n, "consumed")
  <1>1. n \in DOMAIN reservations /\ reservations[n].status = "reserved"
    BY DEF finalizeKizunaSettlement, IsReserved
  <1>2. reservations' = [reservations EXCEPT
          ![n] = WithStatus(reservations[n], "consumed", s)]
    BY DEF finalizeKizunaSettlement
  <1>3. reservations'[n] = WithStatus(reservations[n], "consumed", s)
    BY <1>1, <1>2
  <1>4. QED
    BY <1>1, <1>2, <1>3, StatusFields DEF Moves

\* Every transaction keeps the tables finite and the funding modes in their lanes.
LEMMA NextRows ==
    ASSUME TypeOK, FiniteRows, ModesMatch, [Next]_vars
    PROVE  FiniteRows' /\ ModesMatch'
  <1> SUFFICES /\ IsFiniteSet(DOMAIN reservations')
               /\ IsFiniteSet(DOMAIN repayments')
               /\ ModesMatch'
    BY DEF FiniteRows
  <1>0. IsFiniteSet(DOMAIN reservations) /\ IsFiniteSet(DOMAIN repayments)
    BY DEF FiniteRows
  <1>1. CASE UNCHANGED <<reservations, repayments>>
    BY <1>0, <1>1 DEF ModesMatch
  <1>2. ASSUME NEW n \in Nonce, NEW a \in Agent, NEW l \in Lane, NEW p \in Pool,
               NEW amount \in Amount, NEW mode \in FundingModes(l),
               createKizunaReservation(n, a, l, p, amount, mode)
        PROVE  IsFiniteSet(DOMAIN reservations') /\ IsFiniteSet(DOMAIN repayments')
               /\ ModesMatch'
    <2>0. Creates(n, a, l, p, amount, mode)
      BY <1>2, CreateRow
    <2>1. IsFiniteSet(DOMAIN reservations')
      BY <1>0, <2>0, FS_AddElement DEF Creates
    <2>2. repayments' = repayments
      BY <1>2 DEF createKizunaReservation
    <2>3. mode = "prefunded" => l = "enterprise"
      BY DEF FundingModes, Lane
    <2>4. ModesMatch'
      BY <2>0, <2>3 DEF ModesMatch, Creates
    <2>5. QED
      BY <1>0, <2>1, <2>2, <2>4
  <1>3. ASSUME NEW n, NEW st, releaseKizunaReservation(n, st)
        PROVE  IsFiniteSet(DOMAIN reservations') /\ IsFiniteSet(DOMAIN repayments')
               /\ ModesMatch'
    <2>0. Moves(n, st)
      BY <1>3, ReleaseRow
    <2>1. DOMAIN reservations' = DOMAIN reservations /\ repayments' = repayments
      BY <1>3, <2>0 DEF releaseKizunaReservation, Moves
    <2>2. ModesMatch'
      BY <2>0 DEF ModesMatch, Moves
    <2>3. QED
      BY <1>0, <2>1, <2>2
  <1>4. ASSUME NEW n, NEW s, finalizeKizunaSettlement(n, s)
        PROVE  IsFiniteSet(DOMAIN reservations') /\ IsFiniteSet(DOMAIN repayments')
               /\ ModesMatch'
    <2>0. Moves(n, "consumed")
      BY <1>4, FinalizeRow
    <2>1. DOMAIN reservations' = DOMAIN reservations /\ repayments' = repayments
      <3>1. repayments' = repayments
        BY <1>4 DEF finalizeKizunaSettlement
      <3>2. QED
        BY <2>0, <3>1 DEF Moves
    <2>2. ModesMatch'
      BY <2>0 DEF ModesMatch, Moves
    <2>3. QED
      BY <1>0, <2>1, <2>2
  <1>5. ASSUME NEW a, NEW ref, NEW l, NEW p, NEW amount,
               applyKizunaRepayment(a, ref, l, p, amount)
        PROVE  IsFiniteSet(DOMAIN reservations') /\ IsFiniteSet(DOMAIN repayments')
               /\ ModesMatch'
    <2>1. reservations' = reservations
          /\ DOMAIN repayments' = DOMAIN repayments \cup {<<a, ref>>}
      BY <1>5 DEF applyKizunaRepayment, WithRow
    <2>2. IsFiniteSet(DOMAIN repayments')
      BY <1>0, <2>1, FS_AddElement
    <2>3. QED
      BY <1>0, <2>1, <2>2 DEF ModesMatch
  <1>6. ASSUME NEW n, Lapse(n) PROVE UNCHANGED <<reservations, repayments>>
    BY <1>6 DEF Lapse
  <1>7. ASSUME NEW s, NEW n, NEW st, insertSettlement(s, n, st)
        PROVE  UNCHANGED <<reservations, repayments>>
    BY <1>7 DEF insertSettlement
  <1>8. ASSUME NEW s, NEW st, updateSettlementStatus(s, st)
        PROVE  UNCHANGED <<reservations, repayments>>
    BY <1>8 DEF updateSettlementStatus
  <1>9. ASSUME NEW a, NEW p, NEW ref, NEW type, NEW amount,
               FundingRequest(a, p, ref, type, amount)
        PROVE  UNCHANGED <<reservations, repayments>>
    BY <1>9 DEF FundingRequest, applyKizunaFundingEvent
  <1>10. QED
    BY <1>1, <1>2, <1>3, <1>4, <1>5, <1>6, <1>7, <1>8, <1>9 DEF Next, vars

-----------------------------------------------------------------------------
(* The locked prefund *)

\* Sums are integers, and a row's contribution is its own.
LEMMA LockFacts ==
    ASSUME TypeOK, FiniteRows, NEW k, NEW st
    PROVE  LockedSum(k, st) \in Int
  <1> DEFINE f == [m \in LockedOf(k, st) |-> reservations[m].locked]
  <1>1. IsFiniteSet(LockedOf(k, st))
    BY FS_Subset DEF FiniteRows, LockedOf
  <1>2. f \in [LockedOf(k, st) -> Int]
    BY DEF TypeOK, Reservation, LockedOf
  <1>3. LockedSum(k, st) = SumFunction(f)
    BY DEF LockedSum
  <1> HIDE DEF f
  <1>4. QED
    BY <1>1, <1>2, <1>3, SumInt

\* A new prefunded reservation locks what it adds to the reserved column.
LEMMA CreatePrefund ==
    ASSUME TypeOK, TypeOK', FiniteRows, FiniteRows', PrefundBacksReservations,
           NEW n \in Nonce, NEW a \in Agent, NEW l \in Lane, NEW p \in Pool,
           NEW amount \in Amount, NEW mode \in FundingModes(l),
           createKizunaReservation(n, a, l, p, amount, mode)
    PROVE  PrefundBacksReservations'
  <1> DEFINE locked == IF mode = "prefunded" THEN amount ELSE 0
  <1>0. Creates(n, a, l, p, amount, mode)
    BY CreateRow
  <1>1. locked \in Nat /\ amount \in Nat
    BY AmountAssumption
  <1>2. ASSUME NEW k \in Agent \X Pool
        PROVE  /\ balances'[k].reserved = LockedSum(k, "reserved")'
               /\ balances'[k].spent = LockedSum(k, "consumed")'
    <2>1. \A st : LockShare(k, st, n) = 0
      BY <1>0 DEF LockShare, LockedOf, Creates
    <2>2. /\ LockShare(k, "reserved", n)' =
               IF k = <<a, p>> /\ mode = "prefunded" THEN locked ELSE 0
          /\ LockShare(k, "consumed", n)' = 0
      <3>1. /\ n \in DOMAIN reservations'
            /\ reservations'[n].status = "reserved"
            /\ BalanceKey(reservations'[n]) = <<a, p>>
            /\ reservations'[n].mode = mode
            /\ reservations'[n].locked = locked
        BY <1>0 DEF Creates
      <3> HIDE DEF locked
      <3>2. QED
        BY <3>1 DEF LockShare, LockedOf
    <2>3. \A st : LockedSum(k, st)' =
                    LockedSum(k, st) - LockShare(k, st, n) + LockShare(k, st, n)'
      BY <1>0, RowStep DEF Creates
    <2>4. \A st : LockedSum(k, st) \in Int
      BY LockFacts
    <2>5. /\ balances[k].reserved = LockedSum(k, "reserved")
          /\ balances[k].spent = LockedSum(k, "consumed")
      BY DEF PrefundBacksReservations
    <2>6. /\ balances'[k].reserved = balances[k].reserved
               + IF k = <<a, p>> /\ mode = "prefunded" THEN locked ELSE 0
          /\ balances'[k].spent = balances[k].spent
      <3>0. balances[k] \in Balance
        BY DEF TypeOK
      <3>1. CASE mode = "prefunded"
        <4>1. /\ CanMutateBalance(<<a, p>>, -locked, locked)
              /\ balances' = mutateKizunaEnterpriseBalance(<<a, p>>, -locked, locked, 0)
          BY <3>1 DEF createKizunaReservation
        <4>2. <<a, p>> \in Agent \X Pool /\ -locked \in Int /\ locked \in Int /\ 0 \in Nat
          BY <1>1
        <4> HIDE DEF locked
        <4>3. /\ balances'[<<a, p>>] = [available |-> balances[<<a, p>>].available + (-locked),
                                        reserved |-> balances[<<a, p>>].reserved + locked,
                                        spent |-> balances[<<a, p>>].spent + 0]
              /\ k # <<a, p>> => balances'[k] = balances[k]
          BY <4>1, <4>2, MutateType
        <4>4. QED
          BY <3>0, <3>1, <4>3, <1>1 DEF Balance
      <3>2. CASE mode # "prefunded"
        <4>1. balances' = balances
          BY <3>2 DEF createKizunaReservation
        <4>2. QED
          BY <3>0, <3>2, <4>1 DEF Balance
      <3>3. QED
        BY <3>1, <3>2
    <2> HIDE DEF locked
    <2>7. QED
      BY <1>1, <2>1, <2>2, <2>3, <2>4, <2>5, <2>6
  <1>3. QED
    BY <1>2 DEF PrefundBacksReservations

\* A release takes out of the reserved column what its row had locked.
LEMMA ReleasePrefund ==
    ASSUME TypeOK, TypeOK', FiniteRows, FiniteRows', PrefundBacksReservations,
           NEW n \in Nonce, NEW st \in {"released", "expired"},
           releaseKizunaReservation(n, st)
    PROVE  PrefundBacksReservations'
  <1> DEFINE r == reservations[n]
             x == BalanceKey(r)
  <1>3. Moves(n, st)
    BY ReleaseRow
  <1>1. r \in Reservation /\ r.status = "reserved"
    BY <1>3 DEF TypeOK, Moves
  <1>2. r.locked \in Nat /\ x \in Agent \X Pool
    BY <1>1 DEF Reservation, BalanceKey
  <1>4. ASSUME NEW k \in Agent \X Pool
        PROVE  /\ balances'[k].reserved = LockedSum(k, "reserved")'
               /\ balances'[k].spent = LockedSum(k, "consumed")'
    <2> DEFINE d == IF k = x /\ r.mode = "prefunded" THEN r.locked ELSE 0
    <2>1. LockShare(k, "reserved", n) = d /\ LockShare(k, "consumed", n) = 0
      BY <1>3 DEF LockShare, LockedOf, Moves
    <2>2. LockShare(k, "reserved", n)' = 0 /\ LockShare(k, "consumed", n)' = 0
      BY <1>3 DEF LockShare, LockedOf, Moves
    <2>3. \A t : LockedSum(k, t)' =
                    LockedSum(k, t) - LockShare(k, t, n) + LockShare(k, t, n)'
      BY <1>3, RowStep DEF Moves
    <2>4. \A t : LockedSum(k, t) \in Int
      BY LockFacts
    <2>5. /\ balances[k].reserved = LockedSum(k, "reserved")
          /\ balances[k].spent = LockedSum(k, "consumed")
      BY DEF PrefundBacksReservations
    <2>6. /\ balances'[k].reserved = balances[k].reserved - d
          /\ balances'[k].spent = balances[k].spent
      <3>0. balances[k] \in Balance
        BY DEF TypeOK
      <3>1. CASE r.mode = "prefunded"
        <4>1. /\ CanMutateBalance(x, r.locked, -r.locked)
              /\ balances' = mutateKizunaEnterpriseBalance(x, r.locked, -r.locked, 0)
          BY <3>1 DEF releaseKizunaReservation
        <4>2. -r.locked \in Int /\ r.locked \in Int /\ 0 \in Nat
          BY <1>2
        <4> HIDE DEF r, x
        <4>3. /\ balances'[x] = [available |-> balances[x].available + r.locked,
                                 reserved |-> balances[x].reserved + (-r.locked),
                                 spent |-> balances[x].spent + 0]
              /\ k # x => balances'[k] = balances[k]
          BY <1>2, <4>1, <4>2, MutateType
        <4>4. QED
          BY <1>2, <3>0, <3>1, <4>3 DEF Balance
      <3>2. CASE r.mode # "prefunded"
        <4>1. balances' = balances
          BY <3>2 DEF releaseKizunaReservation
        <4>2. QED
          BY <3>0, <3>2, <4>1 DEF Balance
      <3>3. QED
        BY <3>1, <3>2
    <2>7. d \in Nat
      BY <1>2
    <2> HIDE DEF d
    <2>8. QED
      BY <2>1, <2>2, <2>3, <2>4, <2>5, <2>6, <2>7
  <1>5. QED
    BY <1>4 DEF PrefundBacksReservations

\* A settlement moves what its row had locked from reserved to spent.
LEMMA FinalizePrefund ==
    ASSUME TypeOK, TypeOK', FiniteRows, FiniteRows', ModesMatch,
           PrefundBacksReservations, NEW n, NEW s, finalizeKizunaSettlement(n, s)
    PROVE  PrefundBacksReservations'
  <1> DEFINE r == reservations[n]
             x == BalanceKey(r)
  <1>3. Moves(n, "consumed")
    BY FinalizeRow
  <1>1. r \in Reservation /\ r.status = "reserved"
    BY <1>3 DEF TypeOK, Moves
  <1>2. r.locked \in Nat /\ x \in Agent \X Pool
    BY <1>1 DEF Reservation, BalanceKey
  <1>4. IsPrefundedEnterprise(r) <=> r.mode = "prefunded"
    BY <1>3 DEF IsPrefundedEnterprise, ModesMatch, Moves
  <1>5. ASSUME NEW k \in Agent \X Pool
        PROVE  /\ balances'[k].reserved = LockedSum(k, "reserved")'
               /\ balances'[k].spent = LockedSum(k, "consumed")'
    <2> DEFINE d == IF k = x /\ r.mode = "prefunded" THEN r.locked ELSE 0
    <2>1. LockShare(k, "reserved", n) = d /\ LockShare(k, "consumed", n) = 0
      BY <1>3 DEF LockShare, LockedOf, Moves
    <2>2. LockShare(k, "reserved", n)' = 0 /\ LockShare(k, "consumed", n)' = d
      BY <1>3 DEF LockShare, LockedOf, Moves
    <2>3. \A t : LockedSum(k, t)' =
                    LockedSum(k, t) - LockShare(k, t, n) + LockShare(k, t, n)'
      BY <1>3, RowStep DEF Moves
    <2>4. \A t : LockedSum(k, t) \in Int
      BY LockFacts
    <2>5. /\ balances[k].reserved = LockedSum(k, "reserved")
          /\ balances[k].spent = LockedSum(k, "consumed")
      BY DEF PrefundBacksReservations
    <2>6. /\ balances'[k].reserved = balances[k].reserved - d
          /\ balances'[k].spent = balances[k].spent + d
      <3>0. balances[k] \in Balance
        BY DEF TypeOK
      <3>1. CASE r.mode = "prefunded"
        <4>1. /\ CanMutateBalance(x, 0, -r.locked)
              /\ balances' = mutateKizunaEnterpriseBalance(x, 0, -r.locked, r.locked)
          BY <3>1, <1>4 DEF finalizeKizunaSettlement, ConsumedBalance
        <4>2. -r.locked \in Int /\ r.locked \in Nat /\ 0 \in Int
          BY <1>2
        <4> HIDE DEF r, x
        <4>3. /\ balances'[x] = [available |-> balances[x].available + 0,
                                 reserved |-> balances[x].reserved + (-r.locked),
                                 spent |-> balances[x].spent + r.locked]
              /\ k # x => balances'[k] = balances[k]
          BY <1>2, <4>1, <4>2, MutateType
        <4>4. QED
          BY <1>2, <3>0, <3>1, <4>3 DEF Balance
      <3>2. CASE r.mode # "prefunded"
        <4>1. balances' = balances
          BY <3>2, <1>4 DEF finalizeKizunaSettlement
        <4>2. QED
          BY <3>0, <3>2, <4>1 DEF Balance
      <3>3. QED
        BY <3>1, <3>2
    <2>7. d \in Nat
      BY <1>2
    <2> HIDE DEF d
    <2>8. QED
      BY <2>1, <2>2, <2>3, <2>4, <2>5, <2>6, <2>7
  <1>6. QED
    BY <1>5 DEF PrefundBacksReservations

\* A step that leaves the reservations and the reserved and spent columns alone
\* keeps the locked prefund.
LEMMA PrefundKept ==
    ASSUME PrefundBacksReservations, UNCHANGED reservations,
           \A k \in Agent \X Pool : /\ balances'[k].reserved = balances[k].reserved
                                    /\ balances'[k].spent = balances[k].spent
    PROVE  PrefundBacksReservations'
  BY DEF PrefundBacksReservations, LockedSum, LockedOf

\* A funding event moves only the available column.
LEMMA FundingPrefund ==
    ASSUME TypeOK, PrefundBacksReservations, NEW a \in Agent, NEW p \in Pool,
           NEW ref, NEW type \in {"deposit", "withdraw"}, NEW amount \in Amount,
           FundingRequest(a, p, ref, type, amount)
    PROVE  PrefundBacksReservations'
  <1> DEFINE delta == IF type = "deposit" THEN amount ELSE -amount
             x == <<a, p>>
  <1>1. delta \in Int /\ 0 \in Int /\ 0 \in Nat /\ x \in Agent \X Pool
    BY AmountAssumption
  <1>2. /\ CanMutateBalance(x, delta, 0)
        /\ balances' = mutateKizunaEnterpriseBalance(x, delta, 0, 0)
        /\ reservations' = reservations
    BY DEF FundingRequest, applyKizunaFundingEvent
  <1> HIDE DEF delta, x
  <1>3. balances' = [balances EXCEPT ![x] =
                       [available |-> balances[x].available + delta,
                        reserved |-> balances[x].reserved + 0,
                        spent |-> balances[x].spent + 0]]
    BY <1>2 DEF mutateKizunaEnterpriseBalance
  <1>4. ASSUME NEW k \in Agent \X Pool
        PROVE  /\ balances'[k].reserved = balances[k].reserved
               /\ balances'[k].spent = balances[k].spent
    <2>1. balances[k].reserved \in Nat /\ balances[k].spent \in Nat
      BY DEF TypeOK, Balance
    <2>2. DOMAIN balances = Agent \X Pool
      BY DEF TypeOK
    <2>3. QED
      BY <1>1, <1>3, <2>1, <2>2
  <1>5. QED
    BY <1>2, <1>4, PrefundKept

\* The inductive invariant behind PrefundBacksReservations.
PrefundInv == TypeOK /\ FiniteRows /\ ModesMatch /\ PrefundBacksReservations

\* Nothing is locked at first.
LEMMA InitPrefund == Init => PrefundInv
  <1> SUFFICES ASSUME Init PROVE PrefundInv
    OBVIOUS
  <1>1. TypeOK /\ FiniteRows /\ ModesMatch
    BY InitType, InitRows
  <1>2. ASSUME NEW k \in Agent \X Pool, NEW st PROVE LockedSum(k, st) = 0
    <2>1. LockedOf(k, st) = {}
      BY DEF Init, LockedOf
    <2>2. DOMAIN [n \in LockedOf(k, st) |-> reservations[n].locked] = {}
      BY <2>1
    <2>3. QED
      BY <2>2, SumEmpty DEF LockedSum
  <1>3. \A k \in Agent \X Pool : balances[k].reserved = 0 /\ balances[k].spent = 0
    BY DEF Init
  <1>4. QED
    BY <1>1, <1>2, <1>3 DEF PrefundInv, PrefundBacksReservations

\* Every transaction keeps the locked prefund backed.
LEMMA NextPrefund ==
    ASSUME PrefundInv, [Next]_vars
    PROVE  PrefundInv'
  <1>1. TypeOK /\ FiniteRows /\ ModesMatch /\ PrefundBacksReservations
    BY DEF PrefundInv
  <1>2. TypeOK' /\ FiniteRows' /\ ModesMatch'
    BY <1>1, NextType, NextRows
  <1>3. ASSUME UNCHANGED <<reservations, balances>> PROVE PrefundBacksReservations'
    BY <1>1, <1>3, PrefundKept
  <1>4. ASSUME NEW n \in Nonce, Lapse(n) PROVE PrefundBacksReservations'
    BY <1>3, <1>4 DEF Lapse
  <1>5. ASSUME NEW s, NEW n, NEW st, insertSettlement(s, n, st)
        PROVE  PrefundBacksReservations'
    BY <1>3, <1>5 DEF insertSettlement
  <1>6. ASSUME NEW s, NEW st, updateSettlementStatus(s, st)
        PROVE  PrefundBacksReservations'
    BY <1>3, <1>6 DEF updateSettlementStatus
  <1>7. ASSUME NEW a, NEW ref, NEW l, NEW p, NEW amount,
               applyKizunaRepayment(a, ref, l, p, amount)
        PROVE  PrefundBacksReservations'
    BY <1>3, <1>7 DEF applyKizunaRepayment
  <1>8. PrefundBacksReservations'
    BY <1>1, <1>2, <1>3, <1>4, <1>5, <1>6, <1>7, CreatePrefund, ReleasePrefund,
       FinalizePrefund, FundingPrefund DEF Next, vars
  <1>9. QED
    BY <1>2, <1>8 DEF PrefundInv

\* The reserved and spent columns of an enterprise balance are exactly the prefund
\* its live and its consumed reservations locked, whatever the interleaving of
\* creates, releases, settlements and funding events.
THEOREM LocksBacked == Spec => []PrefundBacksReservations
  <1>1. Spec => []PrefundInv
    BY InitPrefund, NextPrefund, PTL DEF Spec
  <1>2. PrefundInv => PrefundBacksReservations
    BY DEF PrefundInv
  <1>3. QED
    BY <1>1, <1>2, PTL

-----------------------------------------------------------------------------
(* Payments: what the loop of applyKizunaRepayment pays adds up to Applied *)

\* The columns of a debt.
LEMMA DebtRow ==
    ASSUME TypeOK, NEW i \in 1..Len(debts)
    PROVE  /\ debts[i].outstanding \in Nat /\ debts[i].principal \in Nat
           /\ debts[i].agent \in Agent /\ debts[i].pool \in Pool
           /\ debts[i].lane \in Lane
  <1>1. debts[i] \in Debt
    BY DEF TypeOK
  <1>2. QED
    BY <1>1, AmountAssumption DEF Debt

\* The debts in scope up to the i-th owe what those before it owe and, if it is
\* in scope, what it owes itself.
LEMMA OwedStep ==
    ASSUME TypeOK, NEW a, NEW l, NEW p
    PROVE  /\ OwedBefore(1, a, l, p) = 0
           /\ \A i \in 1..(Len(debts) + 1) : OwedBefore(i, a, l, p) \in Nat
           /\ \A i \in 1..Len(debts) :
                OwedBefore(i + 1, a, l, p) = OwedBefore(i, a, l, p)
                  + (IF InScope(i, a, l, p) THEN debts[i].outstanding ELSE 0)
  <1> DEFINE D(i) == {x \in 1..(i - 1) : InScope(x, a, l, p)}
             f(i) == [j \in D(i) |-> debts[j].outstanding]
  <1>0. Len(debts) \in Nat
    BY DEF TypeOK
  <1>1. \A i : OwedBefore(i, a, l, p) = SumFunction(f(i))
    BY DEF OwedBefore
  <1>2. ASSUME NEW i \in 1..(Len(debts) + 1)
        PROVE  IsFiniteSet(D(i)) /\ f(i) \in [D(i) -> Nat] /\ f(i) \in [D(i) -> Int]
    <2>1. i - 1 \in Int /\ 1 \in Int
      BY <1>0
    <2>2. IsFiniteSet(1..(i - 1))
      BY <2>1, FS_Interval
    <2>3. IsFiniteSet(D(i))
      BY <2>2, FS_Subset
    <2>4. \A j \in D(i) : debts[j] \in Debt
      BY <1>0 DEF TypeOK
    <2>5. QED
      BY <2>3, <2>4 DEF Debt
  <1>3. OwedBefore(1, a, l, p) = 0
    <2>1. DOMAIN f(1) = {}
      OBVIOUS
    <2> HIDE DEF f, D
    <2>2. QED
      BY <1>1, <2>1, SumEmpty
  <1>4. \A i \in 1..(Len(debts) + 1) : OwedBefore(i, a, l, p) \in Nat
    <2> HIDE DEF f, D
    <2>1. QED
      BY <1>1, <1>2, SumNat
  <1>5. ASSUME NEW i \in 1..Len(debts)
        PROVE  OwedBefore(i + 1, a, l, p) = OwedBefore(i, a, l, p)
                  + (IF InScope(i, a, l, p) THEN debts[i].outstanding ELSE 0)
    <2>1. i \in 1..(Len(debts) + 1) /\ i + 1 \in 1..(Len(debts) + 1)
      BY <1>0
    <2>2. D(i) \ {i} = D(i + 1) \ {i}
      BY <1>0
    <2>3. \A x \in D(i) \ {i} : f(i + 1)[x] = f(i)[x]
      BY <2>2
    <2>4. Share(f(i), i) = 0
      BY <1>0 DEF Share
    <2>5. Share(f(i + 1), i) = IF InScope(i, a, l, p) THEN debts[i].outstanding ELSE 0
      BY <1>0 DEF Share
    <2>6. IsFiniteSet(D(i)) /\ f(i) \in [D(i) -> Int]
          /\ IsFiniteSet(D(i + 1)) /\ f(i + 1) \in [D(i + 1) -> Int]
      BY <1>2, <2>1
    <2> HIDE DEF f, D
    <2>7. SumFunction(f(i + 1)) = SumFunction(f(i)) - Share(f(i), i) + Share(f(i + 1), i)
      BY <2>2, <2>3, <2>6, SumStep
    <2>8. OwedBefore(i, a, l, p) \in Nat
      BY <1>4, <2>1
    <2>9. debts[i].outstanding \in Nat
      BY DebtRow
    <2>10. /\ OwedBefore(i, a, l, p) = SumFunction(f(i))
           /\ OwedBefore(i + 1, a, l, p) = SumFunction(f(i + 1))
      BY <1>1
    <2>11. QED
      BY <2>4, <2>5, <2>7, <2>8, <2>9, <2>10
  <1>6. QED
    BY <1>3, <1>4, <1>5

\* The payments add up to what applied_micro records: the whole amount, or all
\* that is owed in the scope if that is less.
LEMMA PaymentsAddUp ==
    ASSUME TypeOK, NEW a, NEW l, NEW p, NEW amount \in Amount
    PROVE  SumFunction([i \in 1..Len(debts) |-> Payment(i, a, l, p, amount)])
             = Applied(a, l, p, amount)
  <1> DEFINE n == Len(debts)
             f(m) == [i \in 1..m |-> Payment(i, a, l, p, amount)]
             least(m) == IF OwedBefore(m + 1, a, l, p) \in 0..amount
                         THEN OwedBefore(m + 1, a, l, p) ELSE amount
             Bad == {m \in 0..n : SumFunction(f(m)) # least(m)}
  <1>0. n \in Nat /\ amount \in Nat
    BY AmountAssumption DEF TypeOK
  <1>1. ASSUME NEW m \in 0..n PROVE IsFiniteSet(1..m) /\ f(m) \in [1..m -> Int]
    <2>1. IsFiniteSet(1..m)
      BY <1>0, FS_Interval
    <2>2. \A i \in 1..m : i \in 1..Len(debts)
      BY <1>0
    <2>3. ASSUME NEW i \in 1..m PROVE Payment(i, a, l, p, amount) \in Int
      <3>1. Payment(i, a, l, p, amount) \in 0..debts[i].outstanding
        BY <2>2, PaymentBound
      <3>2. QED
        BY <3>1
    <2>4. QED
      BY <2>1, <2>3
  <1>2. 0 \notin Bad
    <2>1. DOMAIN f(0) = {}
      OBVIOUS
    <2> HIDE DEF f
    <2>2. SumFunction(f(0)) = 0
      BY <2>1, SumEmpty
    <2>3. OwedBefore(0 + 1, a, l, p) = 0
      BY OwedStep
    <2>4. QED
      BY <1>0, <2>2, <2>3
  <1>3. ASSUME NEW m \in 1..n, m - 1 \notin Bad PROVE m \notin Bad
    <2>1. SumFunction(f(m - 1)) = least(m - 1)
      BY <1>0, <1>3
    <2>2. /\ OwedBefore(m, a, l, p) \in Nat /\ OwedBefore(m + 1, a, l, p) \in Nat
          /\ OwedBefore(m + 1, a, l, p) = OwedBefore(m, a, l, p)
               + (IF InScope(m, a, l, p) THEN debts[m].outstanding ELSE 0)
      <3>1. m \in 1..Len(debts) /\ m \in 1..(Len(debts) + 1) /\ m + 1 \in 1..(Len(debts) + 1)
        BY <1>0
      <3>2. QED
        BY <3>1, OwedStep
    <2>3. debts[m].outstanding \in Nat
      BY <1>0, DebtRow
    <2>4. SumFunction(f(m)) = SumFunction(f(m - 1)) + Payment(m, a, l, p, amount)
      <3>1. m - 1 \in 0..n /\ m \in 0..n
        BY <1>0
      <3>2. IsFiniteSet(1..m) /\ f(m) \in [1..m -> Int] /\ IsFiniteSet(1..(m - 1))
            /\ f(m - 1) \in [1..(m - 1) -> Int]
        BY <1>1, <3>1
      <3>3. (1..(m - 1)) \ {m} = (1..m) \ {m}
        BY <1>0
      <3>4. \A x \in (1..(m - 1)) \ {m} : f(m)[x] = f(m - 1)[x]
        BY <1>0
      <3>5. Share(f(m - 1), m) = 0 /\ Share(f(m), m) = Payment(m, a, l, p, amount)
        BY <1>0 DEF Share
      <3>6. Payment(m, a, l, p, amount) \in Int
        BY <1>0, <2>3, PaymentBound
      <3> HIDE DEF f
      <3>7. SumFunction(f(m)) = SumFunction(f(m - 1)) - Share(f(m - 1), m) + Share(f(m), m)
        BY <3>2, <3>3, <3>4, SumStep
      <3>8. SumFunction(f(m - 1)) \in Int
        BY <3>2, SumInt
      <3>9. QED
        BY <3>5, <3>6, <3>7, <3>8
    <2>5. Payment(m, a, l, p, amount) =
            IF ~InScope(m, a, l, p) \/ amount - OwedBefore(m, a, l, p) <= 0 THEN 0
            ELSE IF amount - OwedBefore(m, a, l, p) \in 1..debts[m].outstanding
                 THEN amount - OwedBefore(m, a, l, p) ELSE debts[m].outstanding
      BY DEF Payment
    <2>6. least(m - 1) = IF OwedBefore(m, a, l, p) \in 0..amount
                         THEN OwedBefore(m, a, l, p) ELSE amount
      BY <1>0
    <2>7. SumFunction(f(m)) = least(m)
      <3> HIDE DEF f
      <3>1. QED
        BY <1>0, <2>1, <2>2, <2>3, <2>4, <2>5, <2>6
    <2>8. QED
      BY <2>7
  <1>4. Bad = {}
    <2>1. SUFFICES ASSUME Bad # {} PROVE FALSE
      OBVIOUS
    <2>2. Bad \subseteq Nat
      BY <1>0
    <2> HIDE DEF Bad
    <2>3. PICK m \in Bad : \A k \in Bad : m <= k
      BY <2>1, <2>2, LeastNatural
    <2>4. m \in 0..n
      BY DEF Bad
    <2>5. m # 0
      BY <1>2
    <2>6. m \in 1..n /\ m - 1 < m
      BY <1>0, <2>4, <2>5
    <2>7. m - 1 \notin Bad
      BY <2>2, <2>3, <2>6
    <2>8. QED
      BY <1>3, <2>3, <2>6, <2>7
  <1>5. SumFunction(f(n)) = least(n)
    BY <1>0, <1>4
  <1>6. least(n) = Applied(a, l, p, amount)
    BY DEF Applied
  <1>7. QED
    BY <1>5, <1>6

-----------------------------------------------------------------------------
(* The pool rows *)

\* Every reservation and every debt names a pool some lane owns.
PoolsOwned ==
    /\ \A n \in DOMAIN reservations : pools[reservations[n].pool].lane # "none"
    /\ \A i \in 1..Len(debts) : pools[debts[i].pool].lane # "none"

\* The inductive invariant behind PoolMirrorsRows.
PoolInv == ChargeInv /\ FiniteRows /\ PoolsOwned /\ PoolMirrorsRows

\* The sums a pool row mirrors are naturals.
SumsNat == \A p, l : LiveSum(p, l) \in Nat /\ OpenSum(p, l) \in Nat

\* They add natural numbers over finitely many rows.
LEMMA SumTypes == TypeOK /\ FiniteRows => SumsNat
  <1> SUFFICES ASSUME TypeOK, FiniteRows, NEW p, NEW l
               PROVE  LiveSum(p, l) \in Nat /\ OpenSum(p, l) \in Nat
    BY DEF SumsNat
  <1> DEFINE f == [n \in LiveIn(p, l) |-> reservations[n].amount]
             g == [i \in OpenIn(p, l) |-> debts[i].outstanding]
  <1>1. IsFiniteSet(LiveIn(p, l))
    BY FS_Subset DEF FiniteRows, LiveIn
  <1>2. f \in [LiveIn(p, l) -> Nat]
    BY AmountAssumption DEF TypeOK, Reservation, LiveIn
  <1>3. IsFiniteSet(1..Len(debts))
    <2>1. Len(debts) \in Int /\ 1 \in Int
      BY DEF TypeOK
    <2>2. QED
      BY <2>1, FS_Interval
  <1>4. IsFiniteSet(OpenIn(p, l))
    BY <1>3, FS_Subset DEF OpenIn
  <1>5. g \in [OpenIn(p, l) -> Nat]
    BY DebtRow DEF OpenIn
  <1>6. LiveSum(p, l) = SumFunction(f) /\ OpenSum(p, l) = SumFunction(g)
    BY DEF LiveSum, OpenSum
  <1> HIDE DEF f, g
  <1>7. QED
    BY <1>1, <1>2, <1>4, <1>5, <1>6, SumNat

\* ... in the next state too.
LEMMA SumTypesNext == TypeOK' /\ FiniteRows' => SumsNat'
  BY SumTypes, PTL

\* PoolMirrorsRows with the lane of the row named.
LaneMirrors ==
    \A p \in Pool : \A l : pools[p].lane = l =>
       pools[p].reserved = LiveSum(p, l) /\ pools[p].outstanding = OpenSum(p, l)

\* The two forms say the same.
LEMMA MirrorForms == PoolMirrorsRows <=> LaneMirrors
  BY DEF PoolMirrorsRows, LaneMirrors

\* ... in the next state too.
LEMMA MirrorFormsNext == PoolMirrorsRows' <=> LaneMirrors'
  BY MirrorForms, PTL

\* The row bumpKizunaPoolReserve ensures mirrors the rows of its lane, whether it
\* was there or has just been inserted.
LEMMA EnsuredMirrors ==
    ASSUME PoolInv, NEW p \in Pool, NEW l \in Lane
    PROVE  /\ EnsuredPool(p, l).lane \in Lane
           /\ EnsuredPool(p, l).reserved = LiveSum(p, EnsuredPool(p, l).lane)
           /\ EnsuredPool(p, l).outstanding = OpenSum(p, EnsuredPool(p, l).lane)
  <1>0. pools[p] \in PoolReserve
    BY DEF PoolInv, ChargeInv, TypeOK
  <1>1. CASE pools[p].lane # "none"
    BY <1>0, <1>1 DEF EnsuredPool, PoolInv, PoolMirrorsRows, PoolReserve
  <1>2. CASE pools[p].lane = "none"
    <2>1. LiveIn(p, l) = {} /\ OpenIn(p, l) = {}
      BY <1>2 DEF PoolInv, PoolsOwned, LiveIn, OpenIn
    <2>2. DOMAIN [n \in LiveIn(p, l) |-> reservations[n].amount] = {}
          /\ DOMAIN [i \in OpenIn(p, l) |-> debts[i].outstanding] = {}
      BY <2>1
    <2>3. LiveSum(p, l) = 0 /\ OpenSum(p, l) = 0
      BY <2>2, SumEmpty DEF LiveSum, OpenSum
    <2>4. QED
      BY <1>2, <2>3 DEF EnsuredPool
  <1>3. QED
    BY <1>1, <1>2

\* A step that changes the sums of one pool and lane by the deltas it gives
\* bumpKizunaPoolReserve keeps the mirror: the clamp at 0 has nothing to hide.
LEMMA BumpMirrors ==
    ASSUME PoolInv, TypeOK', FiniteRows', NEW p \in Pool, NEW l \in Lane,
           NEW dr \in Int, NEW do \in Int,
           pools' = bumpKizunaPoolReserve(p, l, dr, do),
           \A q \in Pool, k \in Lane \cup {"none"} :
              /\ LiveSum(q, k)' = LiveSum(q, k) + (IF q = p /\ k = l THEN dr ELSE 0)
              /\ OpenSum(q, k)' = OpenSum(q, k) + (IF q = p /\ k = l THEN do ELSE 0)
    PROVE  PoolMirrorsRows'
  <1> DEFINE row == EnsuredPool(p, l)
  <1>0. TypeOK /\ FiniteRows /\ LaneMirrors /\ DOMAIN pools = Pool
    BY MirrorForms DEF PoolInv, ChargeInv, TypeOK
  <1>1. /\ row.lane \in Lane
        /\ row.reserved = LiveSum(p, row.lane)
        /\ row.outstanding = OpenSum(p, row.lane)
    BY EnsuredMirrors
  <1>2. SumsNat /\ SumsNat'
    BY <1>0, SumTypes, SumTypesNext
  <1>3. ASSUME NEW q \in Pool, NEW k, pools'[q].lane = k
        PROVE  pools'[q].reserved = LiveSum(q, k)' /\ pools'[q].outstanding = OpenSum(q, k)'
    <2>1. LiveSum(q, k) \in Nat /\ OpenSum(q, k) \in Nat
          /\ LiveSum(q, k)' \in Nat /\ OpenSum(q, k)' \in Nat
      BY <1>2 DEF SumsNat
    <2>2. k \in Lane \cup {"none"}
      BY <1>3 DEF TypeOK, PoolReserve
    <2>3. /\ LiveSum(q, k)' = LiveSum(q, k) + (IF q = p /\ k = l THEN dr ELSE 0)
          /\ OpenSum(q, k)' = OpenSum(q, k) + (IF q = p /\ k = l THEN do ELSE 0)
      BY <2>2
    <2>4. CASE q # p
      <3>1. pools'[q] = pools[q]
        BY <1>0, <2>4 DEF bumpKizunaPoolReserve
      <3>2. pools[q].reserved = LiveSum(q, k) /\ pools[q].outstanding = OpenSum(q, k)
        BY <1>0, <1>3, <3>1 DEF LaneMirrors
      <3>3. QED
        BY <2>1, <2>3, <2>4, <3>1, <3>2
    <2>5. CASE q = p
      <3>1. pools'[p] = IF row.lane = l
                        THEN [lane |-> l, reserved |-> Greatest0(row.reserved + dr),
                              outstanding |-> Greatest0(row.outstanding + do)]
                        ELSE row
        BY <1>0 DEF bumpKizunaPoolReserve
      <3> HIDE DEF row
      <3>2. k = row.lane
        BY <1>3, <2>5, <3>1
      <3>3. row.reserved = LiveSum(p, k) /\ row.outstanding = OpenSum(p, k)
        BY <1>1, <3>2
      <3>4. CASE row.lane = l
        <4>1. /\ pools'[p].reserved = Greatest0(LiveSum(p, k) + dr)
              /\ pools'[p].outstanding = Greatest0(OpenSum(p, k) + do)
          BY <3>1, <3>3, <3>4
        <4>2. /\ LiveSum(p, k)' = LiveSum(p, k) + dr
              /\ OpenSum(p, k)' = OpenSum(p, k) + do
          BY <2>3, <2>5, <3>2, <3>4
        <4>3. QED
          BY <2>1, <2>5, <4>1, <4>2 DEF Greatest0
      <3>5. CASE row.lane # l
        BY <2>1, <2>3, <2>5, <3>1, <3>2, <3>3, <3>5
      <3>6. QED
        BY <3>4, <3>5
    <2>6. QED
      BY <2>4, <2>5
  <1>4. LaneMirrors'
    BY <1>3 DEF LaneMirrors
  <1>5. QED
    BY <1>4, MirrorFormsNext

\* A bump gives the pool an owner and takes none away.
LEMMA BumpOwned ==
    ASSUME TypeOK, NEW p \in Pool, NEW l \in Lane, NEW dr, NEW do,
           pools' = bumpKizunaPoolReserve(p, l, dr, do)
    PROVE  /\ pools'[p].lane # "none"
           /\ \A q \in Pool : pools[q].lane # "none" => pools'[q].lane # "none"
  <1>1. EnsuredPool(p, l).lane # "none"
    BY DEF EnsuredPool, Lane
  <1>2. DOMAIN pools = Pool
    BY DEF TypeOK
  <1>3. pools'[p] = IF EnsuredPool(p, l).lane = l
                    THEN [lane |-> l,
                          reserved |-> Greatest0(EnsuredPool(p, l).reserved + dr),
                          outstanding |-> Greatest0(EnsuredPool(p, l).outstanding + do)]
                    ELSE EnsuredPool(p, l)
    BY <1>2 DEF bumpKizunaPoolReserve
  <1>4. pools'[p].lane # "none"
    BY <1>1, <1>3
  <1>5. \A q \in Pool : q # p => pools'[q] = pools[q]
    BY <1>2 DEF bumpKizunaPoolReserve
  <1>6. QED
    BY <1>4, <1>5

\* The debt a settlement of reservation n adds: the full amount, open.
DebtFor(n, s) ==
    LET r == reservations[n]
    IN  [agent |-> r.agent, lane |-> r.lane, pool |-> r.pool, reservation |-> n,
         settlement |-> s, principal |-> r.amount, outstanding |-> r.amount,
         status |-> "open"]

\* A settlement row carries one reservation, so the ON CONFLICT of the debt insert
\* never finds a debt: a finalize that is not prefunded always adds one.
LEMMA NewDebt ==
    ASSUME ChargeInv, NEW s \in DOMAIN settlements,
           finalizeKizunaSettlement(settlements[s].nonce, s)
    PROVE  debts' = IF IsPrefundedEnterprise(reservations[settlements[s].nonce])
                    THEN debts ELSE Append(debts, DebtFor(settlements[s].nonce, s))
  <1>1. ~Consumed(settlements[s].nonce)
    BY DEF finalizeKizunaSettlement, IsReserved, Consumed
  <1>2. ASSUME NEW i \in 1..Len(debts), debts[i].settlement = s
        PROVE  FALSE
    <2>1. /\ Consumed(debts[i].reservation)
          /\ reservations[debts[i].reservation].settlement = s
      BY <1>2 DEF ChargeInv, DebtsMatch
    <2>2. debts[i].reservation \in DOMAIN reservations
      BY <2>1 DEF Consumed
    <2>3. settlements[s].nonce = debts[i].reservation
      BY <2>1, <2>2 DEF ChargeInv, ConsumedCharged
    <2>4. QED
      BY <1>1, <2>1, <2>3
  <1>3. QED
    BY <1>2 DEF finalizeKizunaSettlement, DebtsWith, DebtFor

\* The debts are finitely many.
LEMMA FiniteDebts == ASSUME TypeOK PROVE IsFiniteSet(1..Len(debts)) /\ Len(debts) \in Nat
  <1>1. Len(debts) \in Nat /\ Len(debts) \in Int /\ 1 \in Int
    BY DEF TypeOK
  <1>2. QED
    BY <1>1, FS_Interval

\* Appending a debt adds it to the open debts of its pool and lane, and to what its
\* agent has paid down.
LEMMA AppendDebt ==
    ASSUME TypeOK, NEW d \in Debt, d.status = "open", debts' = Append(debts, d)
    PROVE  /\ \A q, k : OpenSum(q, k)' = OpenSum(q, k)
                + (IF q = d.pool /\ k = d.lane THEN d.outstanding ELSE 0)
           /\ \A a : PaidDown(a)' = PaidDown(a)
                + (IF a = d.agent THEN d.principal - d.outstanding ELSE 0)
  <1> DEFINE e == Len(debts) + 1
  <1>1. e \in Nat /\ Len(debts) \in Nat
    BY DEF TypeOK
  <1>2. Len(debts') = e /\ debts'[e] = d /\ \A i \in 1..Len(debts) : debts'[i] = debts[i]
    BY DEF TypeOK
  <1>3. \A i \in 1..Len(debts') : debts'[i] \in Debt
    <2>1. ASSUME NEW i \in 1..Len(debts'), i # e PROVE debts'[i] \in Debt
      <3>1. i \in 1..Len(debts)
        BY <1>1, <1>2, <2>1
      <3>2. QED
        BY <1>2, <3>1 DEF TypeOK
    <2>2. QED
      BY <1>2, <2>1
  <1>4. IsFiniteSet(1..Len(debts)) /\ IsFiniteSet(1..Len(debts'))
    BY <1>1, <1>2, FiniteDebts, FS_Interval
  <1>5. \A i \in 1..Len(debts) : debts[i] \in Debt
    BY DEF TypeOK
  <1>6. d.outstanding \in Nat /\ d.principal \in Nat
    BY AmountAssumption DEF Debt
  <1>7. 1..Len(debts') = (1..Len(debts)) \cup {e} /\ e \notin 1..Len(debts)
    BY <1>1, <1>2
  <1> HIDE DEF e
  <1>8. ASSUME NEW q, NEW k
        PROVE  OpenSum(q, k)' = OpenSum(q, k)
                 + (IF q = d.pool /\ k = d.lane THEN d.outstanding ELSE 0)
    <2> DEFINE S == OpenIn(q, k)
               T == OpenIn(q, k)'
               f == [i \in S |-> debts[i].outstanding]
               g == [i \in T |-> debts'[i].outstanding]
    <2>1. IsFiniteSet(S) /\ IsFiniteSet(T)
      BY <1>4, FS_Subset DEF OpenIn
    <2>2. f \in [S -> Int] /\ g \in [T -> Int]
      BY <1>3, <1>5 DEF OpenIn, Debt
    <2>3. S \ {e} = T \ {e}
      BY <1>2, <1>7 DEF OpenIn
    <2>4. \A x \in S \ {e} : g[x] = f[x]
      BY <1>2, <2>3 DEF OpenIn
    <2>5. e \notin S
      BY <1>7 DEF OpenIn
    <2>6. e \in T <=> q = d.pool /\ k = d.lane
      BY <1>2, <1>7 DEF OpenIn
    <2>7. e \in T => g[e] = d.outstanding
      BY <1>2
    <2>8. OpenSum(q, k) = SumFunction(f) /\ OpenSum(q, k)' = SumFunction(g)
      BY DEF OpenSum
    <2> HIDE DEF S, T
    <2>9. Share(f, e) = 0
      BY <2>5 DEF Share
    <2>10. Share(g, e) = IF q = d.pool /\ k = d.lane THEN d.outstanding ELSE 0
      BY <2>6, <2>7 DEF Share
    <2> HIDE DEF f, g
    <2>11. SumFunction(g) = SumFunction(f) - Share(f, e) + Share(g, e)
      BY <2>1, <2>2, <2>3, <2>4, SumStep
    <2>12. SumFunction(f) \in Int
      BY <2>1, <2>2, SumInt
    <2>13. QED
      BY <1>6, <2>8, <2>9, <2>10, <2>11, <2>12
  <1>9. ASSUME NEW a
        PROVE  PaidDown(a)' = PaidDown(a)
                 + (IF a = d.agent THEN d.principal - d.outstanding ELSE 0)
    <2> DEFINE S == DebtsOf(a)
               T == DebtsOf(a)'
               f == [i \in S |-> debts[i].principal - debts[i].outstanding]
               g == [i \in T |-> debts'[i].principal - debts'[i].outstanding]
    <2>1. IsFiniteSet(S) /\ IsFiniteSet(T)
      BY <1>4, FS_Subset DEF DebtsOf
    <2>2. f \in [S -> Int] /\ g \in [T -> Int]
      <3>1. ASSUME NEW x \in Debt PROVE x.principal - x.outstanding \in Int
        <4>1. x.principal \in Nat /\ x.outstanding \in Nat
          BY AmountAssumption DEF Debt
        <4>2. QED
          BY <4>1
      <3>2. QED
        BY <1>3, <1>5, <3>1 DEF DebtsOf
    <2>3. S \ {e} = T \ {e}
      BY <1>2, <1>7 DEF DebtsOf
    <2>4. \A x \in S \ {e} : g[x] = f[x]
      BY <1>2, <2>3 DEF DebtsOf
    <2>5. e \notin S
      BY <1>7 DEF DebtsOf
    <2>6. e \in T <=> a = d.agent
      BY <1>2, <1>7 DEF DebtsOf
    <2>7. e \in T => g[e] = d.principal - d.outstanding
      BY <1>2
    <2>8. PaidDown(a) = SumFunction(f) /\ PaidDown(a)' = SumFunction(g)
      BY DEF PaidDown
    <2> HIDE DEF S, T
    <2>9. Share(f, e) = 0
      BY <2>5 DEF Share
    <2>10. Share(g, e) = IF a = d.agent THEN d.principal - d.outstanding ELSE 0
      BY <2>6, <2>7 DEF Share
    <2> HIDE DEF f, g
    <2>11. SumFunction(g) = SumFunction(f) - Share(f, e) + Share(g, e)
      BY <2>1, <2>2, <2>3, <2>4, SumStep
    <2>12. SumFunction(f) \in Int
      BY <2>1, <2>2, SumInt
    <2>13. QED
      BY <1>6, <2>8, <2>9, <2>10, <2>11, <2>12
  <1>10. QED
    BY <1>8, <1>9

\* What the payments of a repayment to a set of debts add up to: everything it
\* applies if the set holds its scope, nothing if it misses it.
LEMMA PaymentsIn ==
    ASSUME TypeOK, NEW a, NEW l, NEW p, NEW amount \in Amount, NEW S
    PROVE  S \subseteq 1..Len(debts) =>
             /\ (\A i \in 1..Len(debts) : InScope(i, a, l, p) => i \in S) =>
                  SumFunction([i \in S |-> Payment(i, a, l, p, amount)])
                    = Applied(a, l, p, amount)
             /\ (\A i \in S : ~InScope(i, a, l, p)) =>
                  SumFunction([i \in S |-> Payment(i, a, l, p, amount)]) = 0
  <1> DEFINE T == 1..Len(debts)
             f == [i \in S |-> Payment(i, a, l, p, amount)]
             g == [i \in T |-> Payment(i, a, l, p, amount)]
  <1>1. IsFiniteSet(T)
    BY FiniteDebts
  <1>2. ASSUME NEW i \in T PROVE Payment(i, a, l, p, amount) \in Int
    <2>1. Payment(i, a, l, p, amount) \in 0..debts[i].outstanding
      BY PaymentBound
    <2>2. QED
      BY <2>1
  <1>3. S \subseteq T => f \in [S -> Int]
    BY <1>2
  <1>4. g \in [T -> Int]
    BY <1>2
  <1>5. \A i : ~InScope(i, a, l, p) => Payment(i, a, l, p, amount) = 0
    BY DEF Payment
  <1>6. S \subseteq T => \A i \in S : g[i] = f[i]
    OBVIOUS
  <1>7. SumFunction(g) = Applied(a, l, p, amount)
    BY PaymentsAddUp
  <1>8. ASSUME S \subseteq T, \A i \in T : InScope(i, a, l, p) => i \in S
        PROVE  SumFunction(f) = Applied(a, l, p, amount)
    <2>1. \A i \in T \ S : g[i] = 0
      BY <1>5, <1>8
    <2> HIDE DEF f, g, T
    <2>2. SumFunction(g) = SumFunction(f)
      BY <1>1, <1>3, <1>4, <1>6, <1>8, <2>1, SumExtend
    <2>3. QED
      BY <1>7, <2>2
  <1>9. ASSUME S \subseteq T, \A i \in S : ~InScope(i, a, l, p) PROVE SumFunction(f) = 0
    <2>1. \A i \in S : f[i] = 0
      BY <1>5, <1>9
    <2> HIDE DEF f, T
    <2>2. IsFiniteSet(S)
      BY <1>1, <1>9, FS_Subset
    <2>3. QED
      BY <1>3, <1>9, <2>1, <2>2, SumZero
  <1>10. QED
    BY <1>8, <1>9

\* The debts after a repayment, row by row.
LEMMA RepaidRow ==
    ASSUME TypeOK, NEW a, NEW ref, NEW l, NEW p, NEW amount,
           applyKizunaRepayment(a, ref, l, p, amount)
    PROVE  /\ Len(debts') = Len(debts)
           /\ \A i \in 1..Len(debts) :
                debts'[i] = AfterPayment(debts[i], Payment(i, a, l, p, amount))
  <1>1. debts' = [i \in 1..Len(debts) |->
                    AfterPayment(debts[i], Payment(i, a, l, p, amount))]
    BY DEF applyKizunaRepayment
  <1>2. Len(debts) \in Nat
    BY DEF TypeOK
  <1>3. QED
    BY <1>1, <1>2

\* ... and column by column.
LEMMA RepaidColumns ==
    ASSUME TypeOK, NEW a, NEW ref, NEW l, NEW p, NEW amount,
           applyKizunaRepayment(a, ref, l, p, amount),
           NEW i \in 1..Len(debts)
    PROVE  /\ debts'[i].agent = debts[i].agent /\ debts'[i].lane = debts[i].lane
           /\ debts'[i].pool = debts[i].pool
           /\ debts'[i].principal = debts[i].principal
           /\ debts'[i].outstanding = debts[i].outstanding - Payment(i, a, l, p, amount)
           /\ debts'[i].status =
                IF debts[i].outstanding = Payment(i, a, l, p, amount)
                THEN "closed" ELSE debts[i].status
  <1>1. debts'[i] = AfterPayment(debts[i], Payment(i, a, l, p, amount))
    BY RepaidRow
  <1>2. QED
    BY <1>1 DEF AfterPayment

\* A repayment takes what it applies from the open debts of its pool and lane, and
\* adds it to what its agent has paid down.
LEMMA RepaidSums ==
    ASSUME TypeOK, TypeOK', NEW a, NEW ref, NEW l, NEW p, NEW amount \in Amount,
           applyKizunaRepayment(a, ref, l, p, amount)
    PROVE  /\ \A q, k : OpenSum(q, k)' = OpenSum(q, k)
                - (IF q = p /\ k = l THEN Applied(a, l, p, amount) ELSE 0)
           /\ \A b : PaidDown(b)' = PaidDown(b)
                + (IF b = a THEN Applied(a, l, p, amount) ELSE 0)
  <1> DEFINE D == 1..Len(debts)
             Pay(i) == Payment(i, a, l, p, amount)
  <1>0. Applied(a, l, p, amount) \in Int
    <2>1. Applied(a, l, p, amount) \in 0..amount
      BY AppliedType
    <2>2. QED
      BY <2>1, AmountAssumption
  <1>1. ASSUME NEW i \in D
        PROVE  /\ debts[i].outstanding \in Int /\ debts[i].principal \in Int
               /\ Pay(i) \in Int
               /\ Pay(i) # 0 => InScope(i, a, l, p)
               /\ debts'[i].agent = debts[i].agent /\ debts'[i].lane = debts[i].lane
               /\ debts'[i].pool = debts[i].pool
               /\ debts'[i].principal = debts[i].principal
               /\ debts'[i].outstanding = debts[i].outstanding - Pay(i)
               /\ debts'[i].status = IF debts[i].outstanding = Pay(i)
                                     THEN "closed" ELSE debts[i].status
    <2>1. debts[i].outstanding \in Nat /\ debts[i].principal \in Nat
      BY DebtRow
    <2>2. Pay(i) \in 0..debts[i].outstanding
      BY PaymentBound
    <2>3. Pay(i) # 0 => InScope(i, a, l, p)
      BY DEF Payment
    <2>4. Pay(i) \in Int
      BY <2>1, <2>2
    <2> HIDE DEF Pay
    <2>5. debts[i].outstanding \in Int /\ debts[i].principal \in Int
      BY <2>1
    <2> USE DEF Pay
    <2>6. QED
      BY <2>3, <2>4, <2>5, RepaidColumns
  <1>2. IsFiniteSet(D) /\ D' = D
    <2>1. IsFiniteSet(D)
      BY FiniteDebts
    <2>2. Len(debts') = Len(debts)
      BY RepaidRow
    <2>3. QED
      BY <2>1, <2>2
  <1>3. ASSUME NEW q, NEW k
        PROVE  OpenSum(q, k)' = OpenSum(q, k)
                 - (IF q = p /\ k = l THEN Applied(a, l, p, amount) ELSE 0)
    <2> DEFINE S == OpenIn(q, k)
               T == OpenIn(q, k)'
               f == [i \in S |-> debts[i].outstanding]
               y == [i \in S |-> Pay(i)]
               h == [i \in S |-> debts'[i].outstanding]
               g == [i \in T |-> debts'[i].outstanding]
    <2>1. S \subseteq D /\ T \subseteq S
      BY <1>1, <1>2 DEF OpenIn
    <2>2. f \in [S -> Int] /\ y \in [S -> Int] /\ h \in [S -> Int] /\ g \in [T -> Int]
      BY <1>1, <2>1
    <2>3. \A x \in S : h[x] = f[x] - y[x]
      BY <1>1, <2>1
    <2>4. \A x \in T : h[x] = g[x]
      BY <2>1
    <2>5. ASSUME NEW x \in S \ T PROVE h[x] = 0
      <3>1. x \in D /\ debts'[x].status # "open"
        BY <1>1, <1>2, <2>1, <2>5 DEF OpenIn
      <3>2. debts[x].status = "open"
        BY DEF OpenIn
      <3>3. debts[x].outstanding = Pay(x)
        BY <1>1, <3>1, <3>2
      <3>4. QED
        BY <1>1, <3>1, <3>3
    <2>6. OpenSum(q, k) = SumFunction(f) /\ OpenSum(q, k)' = SumFunction(g)
      BY DEF OpenSum
    <2>7. SumFunction(y) = IF q = p /\ k = l THEN Applied(a, l, p, amount) ELSE 0
      <3>1. CASE q = p /\ k = l
        <4>1. \A i \in D : InScope(i, a, l, p) => i \in S
          BY <3>1 DEF OpenIn, InScope
        <4>2. QED
          BY <2>1, <3>1, <4>1, PaymentsIn
      <3>2. CASE ~(q = p /\ k = l)
        <4>1. \A i \in S : ~InScope(i, a, l, p)
          BY <3>2 DEF OpenIn, InScope
        <4>2. QED
          BY <2>1, <3>2, <4>1, PaymentsIn
      <3>3. QED
        BY <3>1, <3>2
    <2>8. IsFiniteSet(S)
      BY <1>2, <2>1, FS_Subset
    <2> HIDE DEF S, T, f, g, h, y, D, Pay
    <2>9. SumFunction(h) = SumFunction(f) - SumFunction(y)
      BY <2>2, <2>3, <2>8, SumMinus
    <2>10. SumFunction(h) = SumFunction(g)
      BY <2>1, <2>2, <2>4, <2>5, <2>8, SumExtend
    <2>11. QED
      BY <2>6, <2>7, <2>9, <2>10
  <1>4. ASSUME NEW b
        PROVE  PaidDown(b)' = PaidDown(b)
                 + (IF b = a THEN Applied(a, l, p, amount) ELSE 0)
    <2> DEFINE S == DebtsOf(b)
               f == [i \in S |-> debts[i].principal - debts[i].outstanding]
               y == [i \in S |-> Pay(i)]
               g == [i \in S |-> debts'[i].principal - debts'[i].outstanding]
    <2>1. S \subseteq D /\ DebtsOf(b)' = S
      BY <1>1, <1>2 DEF DebtsOf
    <2>2. f \in [S -> Int] /\ y \in [S -> Int] /\ g \in [S -> Int]
      BY <1>1, <2>1
    <2>3. \A x \in S : f[x] = g[x] - y[x]
      BY <1>1, <2>1
    <2>4. PaidDown(b) = SumFunction(f)
      BY DEF PaidDown
    <2>5. PaidDown(b)' = SumFunction(g)
      BY <2>1 DEF PaidDown
    <2>6. SumFunction(y) = IF b = a THEN Applied(a, l, p, amount) ELSE 0
      <3>1. CASE b = a
        <4>1. \A i \in D : InScope(i, a, l, p) => i \in S
          BY <3>1 DEF DebtsOf, InScope
        <4>2. QED
          BY <2>1, <3>1, <4>1, PaymentsIn
      <3>2. CASE b # a
        <4>1. \A i \in S : ~InScope(i, a, l, p)
          BY <3>2 DEF DebtsOf, InScope
        <4>2. QED
          BY <2>1, <3>2, <4>1, PaymentsIn
      <3>3. QED
        BY <3>1, <3>2
    <2>7. IsFiniteSet(S)
      BY <1>2, <2>1, FS_Subset
    <2> HIDE DEF S, f, g, y, D, Pay
    <2>8. SumFunction(f) = SumFunction(g) - SumFunction(y)
      BY <2>2, <2>3, <2>7, SumMinus
    <2>9. SumFunction(g) \in Int /\ SumFunction(y) \in Int
      BY <2>2, <2>7, SumInt
    <2>10. QED
      BY <2>4, <2>5, <2>6, <2>8, <2>9
  <1>5. QED
    BY <1>3, <1>4

\* A step that leaves the debts alone leaves their sums alone, and one that leaves
\* the reservations alone theirs.
LEMMA OpenKept ==
    ASSUME UNCHANGED debts
    PROVE  \A q, k : OpenSum(q, k)' = OpenSum(q, k)
  BY DEF OpenSum, OpenIn

\* ... and likewise for the reservations.
LEMMA LiveKept ==
    ASSUME UNCHANGED reservations
    PROVE  \A q, k : LiveSum(q, k)' = LiveSum(q, k)
  BY DEF LiveSum, LiveIn

\* A new reservation adds its amount to its pool.
LEMMA CreatePool ==
    ASSUME PoolInv, TypeOK', FiniteRows', NEW n \in Nonce, NEW a \in Agent,
           NEW l \in Lane, NEW p \in Pool, NEW amount \in Amount,
           NEW mode \in FundingModes(l),
           createKizunaReservation(n, a, l, p, amount, mode)
    PROVE  PoolMirrorsRows' /\ PoolsOwned'
  <1>0. TypeOK /\ FiniteRows /\ PoolsOwned
    BY DEF PoolInv, ChargeInv
  <1>1. Creates(n, a, l, p, amount, mode)
    BY CreateRow
  <1>2. pools' = bumpKizunaPoolReserve(p, l, amount, 0) /\ debts' = debts
    BY DEF createKizunaReservation
  <1>3. amount \in Int /\ amount \in Nat /\ 0 \in Int
    BY AmountAssumption
  <1>4. SumsNat
    BY <1>0, SumTypes
  <1>5. ASSUME NEW q, NEW k
        PROVE  /\ LiveSum(q, k)' = LiveSum(q, k) + (IF q = p /\ k = l THEN amount ELSE 0)
               /\ OpenSum(q, k)' = OpenSum(q, k) + (IF q = p /\ k = l THEN 0 ELSE 0)
    <2>1. LiveSum(q, k)' = LiveSum(q, k) - LiveShare(q, k, n) + LiveShare(q, k, n)'
      BY <1>0, <1>1, RowStep DEF Creates
    <2>2. LiveShare(q, k, n) = 0
      BY <1>1 DEF LiveShare, LiveIn, Creates
    <2>3. LiveShare(q, k, n)' = IF q = p /\ k = l THEN amount ELSE 0
      BY <1>1 DEF LiveShare, LiveIn, Creates
    <2>4. LiveSum(q, k) \in Nat /\ OpenSum(q, k) \in Nat
      BY <1>4 DEF SumsNat
    <2>5. OpenSum(q, k)' = OpenSum(q, k)
      BY <1>2, OpenKept
    <2>6. QED
      BY <1>3, <2>1, <2>2, <2>3, <2>4, <2>5
  <1>6. PoolMirrorsRows'
    BY <1>2, <1>3, <1>5, BumpMirrors
  <1>7. /\ pools'[p].lane # "none"
        /\ \A q \in Pool : pools[q].lane # "none" => pools'[q].lane # "none"
    BY <1>0, <1>2, BumpOwned
  <1>8. /\ \A m \in DOMAIN reservations : reservations[m].pool \in Pool
        /\ \A i \in 1..Len(debts) : debts[i].pool \in Pool
    BY <1>0, DebtRow DEF TypeOK, Reservation
  <1>9. PoolsOwned'
    BY <1>0, <1>1, <1>2, <1>7, <1>8 DEF PoolsOwned, Creates
  <1>10. QED
    BY <1>6, <1>9

\* What moving a reserved row to another status takes from the sums.
LEMMA MovedSums ==
    ASSUME TypeOK, TypeOK', FiniteRows, FiniteRows', NEW n, NEW st, st # "reserved",
           Moves(n, st), NEW q, NEW k
    PROVE  /\ LiveSum(q, k)' = LiveSum(q, k)
                + (IF q = reservations[n].pool /\ k = reservations[n].lane
                   THEN - reservations[n].amount ELSE 0)
           /\ reservations[n].amount \in Nat /\ reservations[n].pool \in Pool
           /\ reservations[n].lane \in Lane
  <1> DEFINE r == reservations[n]
  <1>1. r \in Reservation
    BY DEF TypeOK, Moves
  <1>2. r.amount \in Nat /\ r.pool \in Pool /\ r.lane \in Lane
    BY <1>1, AmountAssumption DEF Reservation
  <1>3. LiveSum(q, k)' = LiveSum(q, k) - LiveShare(q, k, n) + LiveShare(q, k, n)'
    BY RowStep DEF Moves
  <1>4. LiveShare(q, k, n) = IF q = r.pool /\ k = r.lane THEN r.amount ELSE 0
    BY DEF LiveShare, LiveIn, Moves
  <1>5. LiveShare(q, k, n)' = 0
    BY DEF LiveShare, LiveIn, Moves
  <1>6. LiveSum(q, k) \in Nat
    BY SumTypes DEF SumsNat
  <1> HIDE DEF r
  <1>7. LiveSum(q, k)' = LiveSum(q, k) + (IF q = r.pool /\ k = r.lane THEN - r.amount ELSE 0)
    BY <1>2, <1>3, <1>4, <1>5, <1>6
  <1>8. QED
    BY <1>2, <1>7 DEF r

\* A release takes its amount out of its pool.
LEMMA ReleasePool ==
    ASSUME PoolInv, TypeOK', FiniteRows', NEW n \in Nonce,
           NEW st \in {"released", "expired"}, releaseKizunaReservation(n, st)
    PROVE  PoolMirrorsRows' /\ PoolsOwned'
  <1> DEFINE p == reservations[n].pool
             l == reservations[n].lane
             amount == reservations[n].amount
  <1>0. TypeOK /\ FiniteRows /\ PoolsOwned
    BY DEF PoolInv, ChargeInv
  <1>1. Moves(n, st)
    BY ReleaseRow
  <1>2. pools' = bumpKizunaPoolReserve(p, l, -amount, 0) /\ debts' = debts
    BY DEF releaseKizunaReservation
  <1>3. \A q, k : LiveSum(q, k)' = LiveSum(q, k) + (IF q = p /\ k = l THEN -amount ELSE 0)
    BY <1>0, <1>1, MovedSums
  <1>4. amount \in Nat /\ p \in Pool /\ l \in Lane
    BY <1>0, <1>1, MovedSums
  <1>5. \A m \in DOMAIN reservations : reservations'[m].pool = reservations[m].pool
    BY <1>1 DEF Moves
  <1>6. DOMAIN reservations' = DOMAIN reservations
    BY <1>1 DEF Moves
  <1> HIDE DEF p, l, amount
  <1>7. -amount \in Int /\ 0 \in Int
    BY <1>4
  <1>8. SumsNat
    BY <1>0, SumTypes
  <1>9. \A q, k : OpenSum(q, k)' = OpenSum(q, k) + (IF q = p /\ k = l THEN 0 ELSE 0)
    BY <1>2, <1>8, OpenKept DEF SumsNat
  <1>10. PoolMirrorsRows'
    BY <1>2, <1>3, <1>4, <1>7, <1>9, BumpMirrors
  <1>11. \A q \in Pool : pools[q].lane # "none" => pools'[q].lane # "none"
    BY <1>0, <1>2, <1>4, BumpOwned
  <1>12. /\ \A m \in DOMAIN reservations : reservations[m].pool \in Pool
         /\ \A i \in 1..Len(debts) : debts[i].pool \in Pool
    BY <1>0, DebtRow DEF TypeOK, Reservation
  <1>13. PoolsOwned'
    BY <1>0, <1>2, <1>5, <1>6, <1>11, <1>12 DEF PoolsOwned
  <1>14. QED
    BY <1>10, <1>13

\* A settlement moves its amount from reserved to outstanding, or drops it when
\* prefund paid.
LEMMA FinalizePool ==
    ASSUME PoolInv, TypeOK', FiniteRows', NEW s \in DOMAIN settlements,
           finalizeKizunaSettlement(settlements[s].nonce, s)
    PROVE  PoolMirrorsRows' /\ PoolsOwned'
  <1> DEFINE n == settlements[s].nonce
             p == reservations[n].pool
             l == reservations[n].lane
             amount == reservations[n].amount
             prefunded == IsPrefundedEnterprise(reservations[n])
             owed == IF prefunded THEN 0 ELSE amount
             d == DebtFor(n, s)
  <1>0. TypeOK /\ FiniteRows /\ PoolsOwned /\ ChargeInv
    BY DEF PoolInv, ChargeInv
  <1>1. Moves(n, "consumed")
    BY FinalizeRow
  <1>2. pools' = bumpKizunaPoolReserve(p, l, -amount, owed)
    BY DEF finalizeKizunaSettlement
  <1>3. \A q, k : LiveSum(q, k)' = LiveSum(q, k) + (IF q = p /\ k = l THEN -amount ELSE 0)
    BY <1>0, <1>1, MovedSums
  <1>4. amount \in Nat /\ p \in Pool /\ l \in Lane
    BY <1>0, <1>1, MovedSums
  <1>5. \A m \in DOMAIN reservations : reservations'[m].pool = reservations[m].pool
    BY <1>1 DEF Moves
  <1>6. DOMAIN reservations' = DOMAIN reservations /\ pools[p].lane # "none"
    BY <1>0, <1>1 DEF Moves, PoolsOwned
  <1>7. debts' = IF prefunded THEN debts ELSE Append(debts, d)
    BY <1>0, NewDebt
  <1>8. /\ d.pool = p /\ d.lane = l /\ d.outstanding = amount /\ d.status = "open"
        /\ d \in Debt
    <2>1. d.pool = p /\ d.lane = l /\ d.outstanding = amount /\ d.status = "open"
      BY DEF DebtFor
    <2>2. reservations[n] \in Reservation /\ n \in Nonce /\ s \in Settlement
      BY <1>0, <1>1 DEF Moves, TypeOK
    <2> HIDE DEF n
    <2>3. d \in Debt
      BY <2>2, AmountAssumption DEF DebtFor, Debt, Reservation
    <2>4. QED
      BY <2>1, <2>3
  <1> HIDE DEF n, p, l, amount, prefunded, d
  <1>9. -amount \in Int /\ owed \in Int
    BY <1>4
  <1>10. SumsNat
    BY <1>0, SumTypes
  <1>11. \A q, k : OpenSum(q, k)' = OpenSum(q, k) + (IF q = p /\ k = l THEN owed ELSE 0)
    <2>1. CASE prefunded
      BY <1>7, <1>10, <2>1, OpenKept DEF SumsNat
    <2>2. CASE ~prefunded
      <3>1. debts' = Append(debts, d)
        BY <1>7, <2>2
      <3>2. \A q, k : OpenSum(q, k)' = OpenSum(q, k)
                + (IF q = d.pool /\ k = d.lane THEN d.outstanding ELSE 0)
        BY <1>0, <1>8, <3>1, AppendDebt
      <3>3. QED
        BY <1>8, <2>2, <3>2
    <2>3. QED
      BY <2>1, <2>2
  <1> HIDE DEF owed
  <1>12. PoolMirrorsRows'
    BY <1>2, <1>3, <1>4, <1>9, <1>11, BumpMirrors
  <1>13. \A q \in Pool : pools[q].lane # "none" => pools'[q].lane # "none"
    BY <1>0, <1>2, <1>4, BumpOwned
  <1>14. /\ \A m \in DOMAIN reservations : reservations[m].pool \in Pool
         /\ \A i \in 1..Len(debts) : debts[i].pool \in Pool
    BY <1>0, DebtRow DEF TypeOK, Reservation
  <1>15. ASSUME NEW i \in 1..Len(debts') PROVE pools'[debts'[i].pool].lane # "none"
    <2>1. debts \in Seq(Debt)
      BY <1>0 DEF TypeOK
    <2>2. CASE i \in 1..Len(debts)
      <3>1. debts'[i] = debts[i]
        BY <1>7, <2>1, <2>2
      <3>2. QED
        BY <1>0, <1>13, <1>14, <2>2, <3>1 DEF PoolsOwned
    <2>3. CASE i \notin 1..Len(debts)
      <3>1. debts'[i] = d
        BY <1>7, <2>1, <2>3
      <3>2. QED
        BY <1>4, <1>6, <1>8, <1>13, <3>1
    <2>4. QED
      BY <2>2, <2>3
  <1>16. PoolsOwned'
    BY <1>0, <1>5, <1>6, <1>13, <1>14, <1>15 DEF PoolsOwned
  <1>17. QED
    BY <1>12, <1>16

\* A repayment takes what it applied out of its pool.
LEMMA RepaymentPool ==
    ASSUME PoolInv, TypeOK', FiniteRows', NEW a \in Agent, NEW ref \in Ref,
           NEW l \in Lane, NEW p \in Pool, NEW amount \in Amount,
           applyKizunaRepayment(a, ref, l, p, amount)
    PROVE  PoolMirrorsRows' /\ PoolsOwned'
  <1> DEFINE applied == Applied(a, l, p, amount)
  <1>0. TypeOK /\ FiniteRows /\ PoolsOwned /\ LaneMirrors
    BY MirrorForms DEF PoolInv, ChargeInv
  <1>1. pools' = IF applied > 0 THEN bumpKizunaPoolReserve(p, l, 0, -applied) ELSE pools
    BY DEF applyKizunaRepayment
  <1>2. reservations' = reservations
    BY DEF applyKizunaRepayment
  <1>3. applied \in Nat
    <2>1. applied \in 0..amount
      BY AppliedType
    <2>2. QED
      BY <2>1, AmountAssumption
  <1>4. \A q, k : OpenSum(q, k)' = OpenSum(q, k) - (IF q = p /\ k = l THEN applied ELSE 0)
    BY <1>0, RepaidSums
  <1>5. Len(debts') = Len(debts) /\ \A i \in 1..Len(debts) : debts'[i].pool = debts[i].pool
    BY <1>0, RepaidRow, RepaidColumns
  <1>6. SumsNat
    BY <1>0, SumTypes
  <1> HIDE DEF applied
  <1>7. \A q, k : OpenSum(q, k)' = OpenSum(q, k) + (IF q = p /\ k = l THEN -applied ELSE 0)
    BY <1>3, <1>4, <1>6 DEF SumsNat
  <1>8. \A q, k : LiveSum(q, k)' = LiveSum(q, k) + (IF q = p /\ k = l THEN 0 ELSE 0)
    BY <1>2, <1>6, LiveKept DEF SumsNat
  <1>9. /\ \A m \in DOMAIN reservations : reservations[m].pool \in Pool
        /\ \A i \in 1..Len(debts) : debts[i].pool \in Pool
    BY <1>0, DebtRow DEF TypeOK, Reservation
  <1>10. CASE applied > 0
    <2>1. pools' = bumpKizunaPoolReserve(p, l, 0, -applied)
      BY <1>1, <1>10
    <2>2. -applied \in Int /\ 0 \in Int
      BY <1>3
    <2>3. PoolMirrorsRows'
      BY <1>7, <1>8, <2>1, <2>2, BumpMirrors
    <2>4. \A q \in Pool : pools[q].lane # "none" => pools'[q].lane # "none"
      BY <1>0, <2>1, BumpOwned
    <2>5. PoolsOwned'
      BY <1>0, <1>2, <1>5, <1>9, <2>4 DEF PoolsOwned
    <2>6. QED
      BY <2>3, <2>5
  <1>11. CASE ~(applied > 0)
    <2>1. pools' = pools /\ applied = 0
      BY <1>1, <1>3, <1>11
    <2>2. \A q, k : OpenSum(q, k)' = OpenSum(q, k) /\ LiveSum(q, k)' = LiveSum(q, k)
      BY <1>6, <1>7, <1>8, <2>1 DEF SumsNat
    <2>3. LaneMirrors'
      BY <1>0, <2>1, <2>2 DEF LaneMirrors
    <2>4. PoolsOwned'
      BY <1>0, <1>2, <1>5, <2>1 DEF PoolsOwned
    <2>5. QED
      BY <2>3, <2>4, MirrorFormsNext
  <1>12. QED
    BY <1>10, <1>11

\* A step that leaves the reservations, the debts and the pools alone.
LEMMA PoolKept ==
    ASSUME PoolInv, UNCHANGED <<reservations, debts, pools>>
    PROVE  PoolMirrorsRows' /\ PoolsOwned'
  <1>1. LaneMirrors
    BY MirrorForms DEF PoolInv
  <1>2. \A q, k : OpenSum(q, k)' = OpenSum(q, k) /\ LiveSum(q, k)' = LiveSum(q, k)
    BY OpenKept, LiveKept
  <1>3. LaneMirrors'
    BY <1>1, <1>2 DEF LaneMirrors
  <1>4. PoolsOwned'
    BY DEF PoolInv, PoolsOwned
  <1>5. QED
    BY <1>3, <1>4, MirrorFormsNext

\* Nothing is reserved or owed at first.
LEMMA InitPool == Init => PoolInv
  <1> SUFFICES ASSUME Init PROVE PoolInv
    OBVIOUS
  <1>1. ChargeInv /\ FiniteRows
    BY InitCharge, InitRows
  <1>2. DOMAIN reservations = {} /\ 1..Len(debts) = {}
    BY DEF Init
  <1>3. PoolsOwned
    BY <1>2 DEF PoolsOwned
  <1>4. ASSUME NEW p, NEW l PROVE LiveSum(p, l) = 0 /\ OpenSum(p, l) = 0
    <2>1. LiveIn(p, l) = {} /\ OpenIn(p, l) = {}
      BY <1>2 DEF LiveIn, OpenIn
    <2>2. DOMAIN [n \in LiveIn(p, l) |-> reservations[n].amount] = {}
          /\ DOMAIN [i \in OpenIn(p, l) |-> debts[i].outstanding] = {}
      BY <2>1
    <2>3. QED
      BY <2>2, SumEmpty DEF LiveSum, OpenSum
  <1>5. \A p \in Pool : pools[p].reserved = 0 /\ pools[p].outstanding = 0
    BY DEF Init
  <1>6. QED
    BY <1>1, <1>3, <1>4, <1>5 DEF PoolInv, PoolMirrorsRows

\* Every transaction keeps the mirror.
LEMMA NextPool ==
    ASSUME PoolInv, FiniteRows', [Next]_vars
    PROVE  PoolInv'
  <1>1. ChargeInv' /\ TypeOK'
    BY NextCharge DEF PoolInv, ChargeInv
  <1>2. ASSUME NEW n \in Nonce, Lapse(n) PROVE PoolMirrorsRows' /\ PoolsOwned'
    BY <1>2, PoolKept DEF Lapse
  <1>3. ASSUME NEW s, NEW n, NEW st, insertSettlement(s, n, st)
        PROVE  PoolMirrorsRows' /\ PoolsOwned'
    BY <1>3, PoolKept DEF insertSettlement
  <1>4. ASSUME NEW s, NEW st, updateSettlementStatus(s, st)
        PROVE  PoolMirrorsRows' /\ PoolsOwned'
    <2>1. UNCHANGED <<reservations, debts, pools>>
      BY <1>4 DEF updateSettlementStatus
    <2>2. QED
      BY <2>1, PoolKept
  <1>5. ASSUME NEW a, NEW p, NEW ref, NEW type, NEW amount,
               FundingRequest(a, p, ref, type, amount)
        PROVE  PoolMirrorsRows' /\ PoolsOwned'
    BY <1>5, PoolKept DEF FundingRequest, applyKizunaFundingEvent
  <1>6. ASSUME UNCHANGED vars PROVE PoolMirrorsRows' /\ PoolsOwned'
    BY <1>6, PoolKept DEF vars
  <1>7. PoolMirrorsRows' /\ PoolsOwned'
    BY <1>1, <1>2, <1>3, <1>4, <1>5, <1>6, CreatePool, ReleasePool, FinalizePool,
       RepaymentPool DEF Next
  <1>8. QED
    BY <1>1, <1>7 DEF PoolInv

\* A pool row counts exactly the live reservations and the open debts of its own
\* lane after any interleaving of the transactions: the GREATEST(0, ...) of
\* bumpKizunaPoolReserve never hides a drift.
THEOREM PoolsMirrored == Spec => []PoolMirrorsRows
  <1>1. Init => PoolInv /\ PrefundInv
    BY InitPool, InitPrefund
  <1>2. PoolInv /\ PrefundInv /\ [Next]_vars => PoolInv' /\ PrefundInv'
    <2>1. ASSUME PoolInv, PrefundInv, [Next]_vars PROVE PoolInv' /\ PrefundInv'
      <3>1. PrefundInv'
        BY <2>1, NextPrefund
      <3>2. FiniteRows'
        BY <3>1 DEF PrefundInv
      <3>3. QED
        BY <2>1, <3>1, <3>2, NextPool
    <2>2. QED
      BY <2>1
  <1>3. PoolInv => PoolMirrorsRows
    BY DEF PoolInv
  <1>4. QED
    BY <1>1, <1>2, <1>3, PTL DEF Spec

-----------------------------------------------------------------------------
(* Repayments *)

\* The inductive invariant behind RepaymentsPayDebts.
PaidInv == ChargeInv /\ FiniteRows /\ RepaymentsPayDebts

\* What repayment x contributes to the repayments of agent a.
AppliedShare(a, x) == IF x \in RepaymentsOf(a) THEN repayments[x].applied ELSE 0

\* A step that leaves the debts and the repayments alone.
LEMMA RepaymentsKept ==
    ASSUME RepaymentsPayDebts, UNCHANGED <<debts, repayments>>
    PROVE  RepaymentsPayDebts'
  BY DEF RepaymentsPayDebts, PaidDown, AppliedSum, DebtsOf, RepaymentsOf

\* A settlement adds a debt nothing has been paid on.
LEMMA FinalizeRepaid ==
    ASSUME PaidInv, NEW s \in DOMAIN settlements,
           finalizeKizunaSettlement(settlements[s].nonce, s)
    PROVE  RepaymentsPayDebts'
  <1> DEFINE n == settlements[s].nonce
             d == DebtFor(n, s)
  <1>0. TypeOK /\ ChargeInv /\ RepaymentsPayDebts
    BY DEF PaidInv, ChargeInv
  <1>1. repayments' = repayments
    BY DEF finalizeKizunaSettlement
  <1>2. debts' = debts \/ debts' = Append(debts, d)
    BY <1>0, NewDebt
  <1>3. CASE debts' = debts
    BY <1>0, <1>1, <1>3, RepaymentsKept
  <1>4. CASE debts' = Append(debts, d)
    <2>1. Moves(n, "consumed")
      BY FinalizeRow
    <2>2. reservations[n] \in Reservation /\ n \in Nonce /\ s \in Settlement
      BY <1>0, <2>1 DEF Moves, TypeOK
    <2>3. d.principal = d.outstanding /\ d.status = "open"
      BY DEF DebtFor
    <2> HIDE DEF n
    <2>4. d \in Debt
      BY <2>2, AmountAssumption DEF DebtFor, Debt, Reservation
    <2>5. d.principal \in Nat
      BY <2>4, AmountAssumption DEF Debt
    <2> HIDE DEF d
    <2>6. \A a : PaidDown(a)' = PaidDown(a)
                + (IF a = d.agent THEN d.principal - d.outstanding ELSE 0)
      BY <1>0, <1>4, <2>3, <2>4, AppendDebt
    <2>7. ASSUME NEW a PROVE PaidDown(a) \in Int
      <3> DEFINE f == [i \in DebtsOf(a) |-> debts[i].principal - debts[i].outstanding]
      <3>1. IsFiniteSet(DebtsOf(a))
        BY <1>0, FiniteDebts, FS_Subset DEF DebtsOf
      <3>2. f \in [DebtsOf(a) -> Int]
        BY <1>0, DebtRow DEF DebtsOf
      <3>3. PaidDown(a) = SumFunction(f)
        BY DEF PaidDown
      <3> HIDE DEF f
      <3>4. QED
        BY <3>1, <3>2, <3>3, SumInt
    <2>8. \A a : PaidDown(a)' = PaidDown(a)
      BY <2>3, <2>5, <2>6, <2>7
    <2>9. \A a : AppliedSum(a)' = AppliedSum(a)
      BY <1>1 DEF AppliedSum, RepaymentsOf
    <2>10. QED
      BY <1>0, <1>1, <2>8, <2>9 DEF RepaymentsPayDebts
  <1>5. QED
    BY <1>2, <1>3, <1>4

\* A repayment records as applied exactly what it takes off the debts.
LEMMA RepaymentRepaid ==
    ASSUME PaidInv, TypeOK', FiniteRows', NEW a \in Agent, NEW ref \in Ref,
           NEW l \in Lane, NEW p \in Pool, NEW amount \in Amount,
           applyKizunaRepayment(a, ref, l, p, amount)
    PROVE  RepaymentsPayDebts'
  <1> DEFINE applied == Applied(a, l, p, amount)
             x == <<a, ref>>
             row == [amount |-> amount, applied |-> applied]
  <1>0. TypeOK /\ FiniteRows /\ RepaymentsPayDebts
    BY DEF PaidInv, ChargeInv
  <1>1. applied \in Nat /\ applied <= amount /\ amount \in Nat
    <2>1. applied \in 0..amount
      BY AppliedType
    <2>2. QED
      BY <2>1, AmountAssumption
  <1>2. x \notin DOMAIN repayments /\ repayments' = WithRow(repayments, x, row)
    BY DEF applyKizunaRepayment, IsNewRepayment
  <1>3. \A b : PaidDown(b)' = PaidDown(b) + (IF b = a THEN applied ELSE 0)
    BY <1>0, RepaidSums
  <1>4. x[1] = a /\ row.applied = applied /\ row.amount = amount
    OBVIOUS
  <1> HIDE DEF applied, x, row
  <1>5. /\ DOMAIN repayments' = DOMAIN repayments \cup {x}
        /\ repayments'[x] = row
        /\ \A k \in DOMAIN repayments : repayments'[k] = repayments[k]
    BY <1>2 DEF WithRow
  <1>6. /\ \A k \in DOMAIN repayments : repayments[k].applied \in Nat
        /\ \A k \in DOMAIN repayments' : repayments'[k].applied \in Nat
    BY <1>0 DEF TypeOK
  <1>7. ASSUME NEW b
        PROVE  AppliedSum(b)' = AppliedSum(b) + (IF b = a THEN applied ELSE 0)
    <2> DEFINE S == RepaymentsOf(b)
               T == RepaymentsOf(b)'
               f == [k \in S |-> repayments[k].applied]
               g == [k \in T |-> repayments'[k].applied]
    <2>1. IsFiniteSet(S) /\ IsFiniteSet(T)
      BY <1>0, FS_Subset DEF FiniteRows, RepaymentsOf
    <2>2. f \in [S -> Int] /\ g \in [T -> Int]
      BY <1>6 DEF RepaymentsOf
    <2>3. S \ {x} = T \ {x}
      BY <1>5 DEF RepaymentsOf
    <2>4. \A k \in S \ {x} : g[k] = f[k]
      BY <1>5, <2>3 DEF RepaymentsOf
    <2>5. x \notin S
      BY <1>2 DEF RepaymentsOf
    <2>6. x \in T <=> b = a
      BY <1>4, <1>5 DEF RepaymentsOf
    <2>7. x \in T => g[x] = applied
      BY <1>4, <1>5
    <2>8. AppliedSum(b) = SumFunction(f) /\ AppliedSum(b)' = SumFunction(g)
      BY DEF AppliedSum
    <2> HIDE DEF S, T
    <2>9. Share(f, x) = 0
      BY <2>5 DEF Share
    <2>10. Share(g, x) = IF b = a THEN applied ELSE 0
      BY <2>6, <2>7 DEF Share
    <2> HIDE DEF f, g
    <2>11. SumFunction(g) = SumFunction(f) - Share(f, x) + Share(g, x)
      BY <2>1, <2>2, <2>3, <2>4, SumStep
    <2>12. SumFunction(f) \in Int
      BY <2>1, <2>2, SumInt
    <2>13. QED
      BY <1>1, <2>8, <2>9, <2>10, <2>11, <2>12
  <1>8. \A k \in DOMAIN repayments' : repayments'[k].applied <= repayments'[k].amount
    BY <1>0, <1>1, <1>4, <1>5 DEF RepaymentsPayDebts
  <1>9. QED
    BY <1>0, <1>3, <1>7, <1>8 DEF RepaymentsPayDebts

\* Nothing is owed or repaid at first.
LEMMA InitRepaid == Init => PaidInv
  <1> SUFFICES ASSUME Init PROVE PaidInv
    OBVIOUS
  <1>1. ChargeInv /\ FiniteRows
    BY InitCharge, InitRows
  <1>2. DOMAIN repayments = {} /\ 1..Len(debts) = {}
    BY DEF Init
  <1>3. ASSUME NEW a PROVE PaidDown(a) = 0 /\ AppliedSum(a) = 0
    <2>1. DebtsOf(a) = {} /\ RepaymentsOf(a) = {}
      BY <1>2 DEF DebtsOf, RepaymentsOf
    <2>2. DOMAIN [i \in DebtsOf(a) |-> debts[i].principal - debts[i].outstanding] = {}
          /\ DOMAIN [k \in RepaymentsOf(a) |-> repayments[k].applied] = {}
      BY <2>1
    <2>3. QED
      BY <2>2, SumEmpty DEF PaidDown, AppliedSum
  <1>4. QED
    BY <1>1, <1>2, <1>3 DEF PaidInv, RepaymentsPayDebts

\* Every transaction keeps the repayments exact.
LEMMA NextRepaid ==
    ASSUME PaidInv, FiniteRows', [Next]_vars
    PROVE  PaidInv'
  <1>0. RepaymentsPayDebts
    BY DEF PaidInv
  <1>1. ChargeInv' /\ TypeOK'
    BY NextCharge DEF PaidInv, ChargeInv
  <1>2. ASSUME NEW n \in Nonce, Lapse(n) PROVE RepaymentsPayDebts'
    BY <1>0, <1>2, RepaymentsKept DEF Lapse
  <1>3. ASSUME NEW s, NEW n, NEW st, insertSettlement(s, n, st)
        PROVE  RepaymentsPayDebts'
    BY <1>0, <1>3, RepaymentsKept DEF insertSettlement
  <1>4. ASSUME NEW s, NEW st, updateSettlementStatus(s, st) PROVE RepaymentsPayDebts'
    <2>1. UNCHANGED <<debts, repayments>>
      BY <1>4 DEF updateSettlementStatus
    <2>2. QED
      BY <1>0, <2>1, RepaymentsKept
  <1>5. ASSUME NEW a, NEW p, NEW ref, NEW type, NEW amount,
               FundingRequest(a, p, ref, type, amount)
        PROVE  RepaymentsPayDebts'
    BY <1>0, <1>5, RepaymentsKept DEF FundingRequest, applyKizunaFundingEvent
  <1>6. ASSUME NEW n, NEW a, NEW l, NEW p, NEW amount, NEW mode,
               createKizunaReservation(n, a, l, p, amount, mode)
        PROVE  RepaymentsPayDebts'
    BY <1>0, <1>6, RepaymentsKept DEF createKizunaReservation
  <1>7. ASSUME NEW n, NEW st, releaseKizunaReservation(n, st)
        PROVE  RepaymentsPayDebts'
    BY <1>0, <1>7, RepaymentsKept DEF releaseKizunaReservation
  <1>8. ASSUME UNCHANGED vars PROVE RepaymentsPayDebts'
    BY <1>0, <1>8, RepaymentsKept DEF vars
  <1>9. RepaymentsPayDebts'
    BY <1>1, <1>2, <1>3, <1>4, <1>5, <1>6, <1>7, <1>8, FinalizeRepaid,
       RepaymentRepaid DEF Next
  <1>10. QED
    BY <1>1, <1>9 DEF PaidInv

\* What an agent's debts have been paid down by is exactly what its repayments
\* record as applied: the loop of applyKizunaRepayment, oldest debt first, loses and
\* invents nothing, however many debts it walks over.
THEOREM RepaymentsExact == Spec => []RepaymentsPayDebts
  <1>1. Init => PaidInv /\ PrefundInv
    BY InitRepaid, InitPrefund
  <1>2. PaidInv /\ PrefundInv /\ [Next]_vars => PaidInv' /\ PrefundInv'
    <2>1. ASSUME PaidInv, PrefundInv, [Next]_vars PROVE PaidInv' /\ PrefundInv'
      <3>1. PrefundInv'
        BY <2>1, NextPrefund
      <3>2. FiniteRows'
        BY <3>1 DEF PrefundInv
      <3>3. QED
        BY <2>1, <3>1, <3>2, NextRepaid
    <2>2. QED
      BY <2>1
  <1>3. PaidInv => RepaymentsPayDebts
    BY DEF PaidInv
  <1>4. QED
    BY <1>1, <1>2, <1>3, PTL DEF Spec

=============================================================================
