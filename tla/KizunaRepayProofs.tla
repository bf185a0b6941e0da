--------------------------- MODULE KizunaRepayProofs ---------------------------
(***************************************************************************)
(* No debt is paid down without money, the answers of the repay route are  *)
(* true, and the route's transactions are those of the ledger, however     *)
(* requests interleave, repeat each other and fail.                        *)
(***************************************************************************)
EXTENDS KizunaRepay, KizunaLedgerProofs

-----------------------------------------------------------------------------
(* The inductive invariant *)

\* Reference ref of agent a is debited with x.
IsDebited(a, ref, x) ==
    ref \in DOMAIN debits /\ debits[ref] = [wallet |-> RepayWallet[a], amount |-> x]

\* ... and on the ledger.
IsRecorded(a, ref, x) ==
    <<a, ref>> \in DOMAIN repayments /\ repayments[<<a, ref>>].amount = x

\* What a request has achieved, wherever it stands.
RepaySound(c) ==
    LET h == repay[c]
    IN  /\ h.pc = "debit" => h.debit \in Amount
        /\ h.pc \in {"apply", "ingest"} \/ h.reply = "ok" => IsDebited(h.agent, h.ref, h.debit)
        /\ h.pc = "ingest" \/ h.reply = "ok" => IsRecorded(h.agent, h.ref, h.debit)

RepayInv ==
    /\ RepayTypeOK
    /\ RepaymentIsDebited
    /\ \A c \in DOMAIN repay : RepaySound(c)

-----------------------------------------------------------------------------
(* What a step leaves alone *)

\* Debits and repayments are never changed once they are on file.
RowsKept ==
    /\ \A r \in DOMAIN debits : r \in DOMAIN debits' /\ debits'[r] = debits[r]
    /\ \A k \in DOMAIN repayments :
          k \in DOMAIN repayments' /\ repayments'[k] = repayments[k]

\* A request that does not move stays sound.
LEMMA RepayStays ==
    ASSUME NEW c \in DOMAIN repay, RepaySound(c), repay'[c] = repay[c], RowsKept
    PROVE  RepaySound(c)'
  BY DEF RepaySound, IsDebited, IsRecorded, RowsKept

\* The fields of a handler after RepayBecome.
RepayMoved(c, pc, debit, reply) ==
    /\ DOMAIN repay' = DOMAIN repay
    /\ repay' \in [DOMAIN repay' -> RepayHandler]
    /\ \A o \in DOMAIN repay : o # c => repay'[o] = repay[o]
    /\ repay'[c].pc = pc /\ repay'[c].debit = debit /\ repay'[c].reply = reply
    /\ repay'[c].agent = repay[c].agent /\ repay'[c].ref = repay[c].ref

\* RepayBecome moves one request.
LEMMA RepayMoves ==
    ASSUME RepayTypeOK, NEW c \in DOMAIN repay,
           NEW pc \in {"read", "debit", "apply", "ingest", "done", "crashed"},
           NEW debit \in Nat, NEW reply \in {"none", "ok", "nothingOwed", "failed"},
           RepayBecome(c, pc, debit, reply)
    PROVE  RepayMoved(c, pc, debit, reply)
  <1> DEFINE row == [pc |-> pc, agent |-> repay[c].agent, ref |-> repay[c].ref,
                     scope |-> repay[c].scope, requested |-> repay[c].requested,
                     again |-> repay[c].again, debit |-> debit, reply |-> reply]
  <1>1. repay[c] \in RepayHandler
    BY DEF RepayTypeOK
  <1>2. row \in RepayHandler
    BY <1>1 DEF RepayHandler
  <1>3. /\ row.pc = pc /\ row.debit = debit /\ row.reply = reply
        /\ row.agent = repay[c].agent /\ row.ref = repay[c].ref
    OBVIOUS
  <1>4. repay' = [repay EXCEPT ![c] = row] /\ repay \in [DOMAIN repay -> RepayHandler]
    BY DEF RepayBecome, RepayTypeOK
  <1> HIDE DEF row
  <1>5. QED
    BY <1>2, <1>3, <1>4 DEF RepayMoved

\* What every action relies on.
LEMMA RepayFacts ==
    ASSUME RepayInv
    PROVE  /\ RepayTypeOK /\ RepaymentIsDebited
           /\ \A c \in DOMAIN repay :
                 /\ RepaySound(c) /\ c \in RepayRequest
                 /\ repay[c].agent \in Agent /\ repay[c].ref \in Ref
                 /\ repay[c].scope \in Scope /\ repay[c].requested \in Amount
                 /\ repay[c].debit \in Nat
  BY DEF RepayInv, RepayTypeOK, RepayHandler

CreditsTypeOK ==
    /\ credits \in [Wallet -> CreditRow]
    /\ usage \in [Wallet -> [api: Nat, repay: Nat]]
    /\ deposits \subseteq Deposit
    /\ DOMAIN debits \subseteq Ref
    /\ debits \in [DOMAIN debits -> DebitRow]

\* The invariant after a step in which only c moves, to where its facts hold.
LEMMA RepayMoveSafe ==
    ASSUME RepayInv, NEW c \in DOMAIN repay,
           NEW pc, NEW debit, NEW reply, RepayMoved(c, pc, debit, reply),
           CreditsTypeOK', RowsKept, RepaymentIsDebited', RepaySound(c)'
    PROVE  RepayInv'
  <1>1. RepayTypeOK'
    BY DEF RepayInv, RepayTypeOK, CreditsTypeOK, RepayMoved
  <1>2. \A o \in DOMAIN repay' : RepaySound(o)'
    BY RepayStays DEF RepayInv, RepayMoved
  <1>3. QED
    BY <1>1, <1>2 DEF RepayInv

\* Steps that touch neither the ledger's repayments nor the credits.
LEMMA RepayQuiet ==
    ASSUME RepayInv, NEW c \in DOMAIN repay,
           NEW pc, NEW debit, NEW reply, RepayMoved(c, pc, debit, reply),
           UNCHANGED <<creditVars, repayments>>, RepaySound(c)'
    PROVE  RepayInv'
  <1>1. UNCHANGED <<credits, usage, deposits, debits, repayments>>
    BY DEF creditVars
  <1>2. CreditsTypeOK' /\ RowsKept /\ RepaymentIsDebited'
    BY <1>1 DEF CreditsTypeOK, RepayInv, RepayTypeOK, RowsKept, RepaymentIsDebited
  <1>3. QED
    BY <1>2, RepayMoveSafe

\* A request that is over without a success has nothing to show for it.
LEMMA OverSound ==
    ASSUME NEW c, NEW pc \in {"done", "crashed"}, NEW debit,
           NEW reply \in {"none", "nothingOwed", "failed"}, RepayMoved(c, pc, debit, reply)
    PROVE  RepaySound(c)'
  BY DEF RepaySound, RepayMoved

-----------------------------------------------------------------------------
(* One lemma per action of the handler *)

\* SubmitRepay: a new request has achieved nothing.
LEMMA SubmitRepaySafe ==
    ASSUME RepayInv, NEW c \in RepayRequest, NEW a \in Agent, NEW ref \in Ref,
           NEW scope \in Scope, NEW x \in Amount, SubmitRepay(c, a, ref, scope, x)
    PROVE  RepayInv'
  <1> DEFINE row == [pc |-> "read", agent |-> a, ref |-> ref, scope |-> scope,
                     requested |-> x, again |-> ref \in DOMAIN debits,
                     debit |-> 0, reply |-> "none"]
  <1>1. /\ c \notin DOMAIN repay /\ repay' = WithRow(repay, c, row)
        /\ UNCHANGED <<credits, usage, deposits, debits, repayments>>
    BY DEF SubmitRepay, creditVars, vars
  <1>2. row \in RepayHandler /\ row.pc = "read" /\ row.reply = "none"
    BY DEF RepayHandler
  <1> HIDE DEF row
  <1>3. /\ DOMAIN repay' = DOMAIN repay \cup {c} /\ repay'[c] = row
        /\ \A o \in DOMAIN repay : repay'[o] = repay[o]
        /\ repay' \in [DOMAIN repay' -> RepayHandler]
    BY <1>1, <1>2 DEF WithRow, RepayInv, RepayTypeOK
  <1>4. RepayTypeOK'
    BY <1>1, <1>3 DEF RepayInv, RepayTypeOK
  <1>5. RowsKept /\ RepaymentIsDebited'
    BY <1>1 DEF RowsKept, RepayInv, RepaymentIsDebited
  <1>6. \A o \in DOMAIN repay' : RepaySound(o)'
    <2>1. RepaySound(c)'
      BY <1>2, <1>3 DEF RepaySound
    <2>2. QED
      BY <1>3, <1>5, <2>1, RepayStays DEF RepayInv
  <1>7. QED
    BY <1>4, <1>5, <1>6 DEF RepayInv

\* ReadOutstanding: what is to be debited is an amount.
LEMMA ReadOutstandingSafe ==
    ASSUME RepayInv, NEW c, ReadOutstanding(c)
    PROVE  RepayInv'
  <1>1. /\ c \in DOMAIN repay /\ repay[c].pc = "read"
        /\ UNCHANGED <<creditVars, repayments>>
    BY DEF ReadOutstanding, AtRepay, vars
  <1>2. RepayTypeOK /\ repay[c].requested \in Amount /\ repay[c].debit \in Nat
    BY <1>1, RepayFacts
  <1>3. CASE RepayAnswer(c, "nothingOwed")
    <2>1. RepayMoved(c, "done", repay[c].debit, "nothingOwed")
      BY <1>1, <1>2, <1>3, RepayMoves DEF RepayAnswer
    <2>2. QED
      BY <1>1, <2>1, OverSound, RepayQuiet
  <1>4. ASSUME NEW x \in Amount, RepayBecome(c, "debit", x, "none")
        PROVE  RepayInv'
    <2>1. RepayMoved(c, "debit", x, "none")
      BY <1>1, <1>2, <1>4, RepayMoves, AmountAssumption
    <2>2. RepaySound(c)'
      BY <1>4, <2>1 DEF RepaySound, RepayMoved
    <2>3. QED
      BY <1>1, <2>1, <2>2, RepayQuiet
  <1>5. CASE RepayAnswer(c, "failed")
    <2>1. RepayMoved(c, "done", repay[c].debit, "failed")
      BY <1>1, <1>2, <1>5, RepayMoves DEF RepayAnswer
    <2>2. QED
      BY <1>1, <2>1, OverSound, RepayQuiet
  <1>6. (IF Outstanding(c) \in 1..repay[c].requested THEN Outstanding(c)
         ELSE repay[c].requested) \in Amount
    BY <1>2, AmountIsInterval
  <1>7. QED
    BY <1>3, <1>4, <1>5, <1>6 DEF ReadOutstanding

\* Spend keeps the types of a wallet that has the balance.
LEMMA SpendType ==
    ASSUME RepayTypeOK, NEW w \in Wallet, NEW x \in Nat, NEW y \in Nat, NEW z \in Nat,
           credits[w].balance >= x, Spend(w, x, y, z)
    PROVE  /\ credits' \in [Wallet -> CreditRow]
           /\ usage' \in [Wallet -> [api: Nat, repay: Nat]]
  <1>1. credits[w] \in CreditRow /\ usage[w] \in [api: Nat, repay: Nat]
    BY DEF RepayTypeOK
  <1>2. [balance |-> credits[w].balance - x, deposited |-> credits[w].deposited,
         spent |-> credits[w].spent + x] \in CreditRow
    BY <1>1 DEF CreditRow
  <1>3. [api |-> usage[w].api + y, repay |-> usage[w].repay + z] \in [api: Nat, repay: Nat]
    BY <1>1
  <1>4. QED
    BY <1>2, <1>3 DEF Spend, RepayTypeOK

\* debitCreditsInternal: the reference is on file with this wallet and amount, now or
\* since an earlier request; no other row changes.
LEMMA DebitFacts ==
    ASSUME RepayInv, NEW a \in Agent, NEW ref \in Ref, NEW x \in Amount,
           debitCreditsInternal(RepayWallet[a], ref, x), UNCHANGED <<deposits, repayments>>
    PROVE  CreditsTypeOK' /\ RowsKept /\ IsDebited(a, ref, x)' /\ RepaymentIsDebited'
  <1> DEFINE w == RepayWallet[a]
             row == [wallet |-> w, amount |-> x]
  <1>1. RepayTypeOK /\ w \in Wallet /\ x \in Nat /\ RepaymentIsDebited
    BY RepayFacts, RepayWalletAssumption, AmountAssumption
  <1>2. row \in DebitRow
    BY <1>1 DEF DebitRow
  <1> HIDE DEF row
  <1>3. CASE CanDebit(w, ref, x) /\ Spend(w, x, 0, x) /\ debits' = WithRow(debits, ref, row)
    <2>1. /\ credits' \in [Wallet -> CreditRow]
          /\ usage' \in [Wallet -> [api: Nat, repay: Nat]]
      BY <1>1, <1>3, SpendType DEF CanDebit
    <2>2. /\ ref \notin DOMAIN debits
          /\ DOMAIN debits' = DOMAIN debits \cup {ref} /\ debits'[ref] = row
          /\ \A r \in DOMAIN debits : debits'[r] = debits[r]
          /\ debits' \in [DOMAIN debits' -> DebitRow]
      BY <1>1, <1>2, <1>3 DEF CanDebit, WithRow, RepayTypeOK
    <2>3. CreditsTypeOK'
      BY <1>1, <2>1, <2>2 DEF CreditsTypeOK, RepayTypeOK
    <2>4. RowsKept
      BY <2>2 DEF RowsKept
    <2>5. RepaymentIsDebited'
      BY <1>1, <2>2 DEF RepaymentIsDebited
    <2>6. QED
      BY <2>2, <2>3, <2>4, <2>5 DEF IsDebited, row
  <1>4. CASE IsSameDebit(w, ref, x) /\ UNCHANGED <<credits, usage, debits>>
    <2>1. CreditsTypeOK' /\ RowsKept /\ RepaymentIsDebited'
      BY <1>1, <1>4 DEF CreditsTypeOK, RepayTypeOK, RowsKept, RepaymentIsDebited
    <2>2. IsDebited(a, ref, x)'
      BY <1>4 DEF IsSameDebit, IsDebited
    <2>3. QED
      BY <2>1, <2>2
  <1>5. QED
    BY <1>3, <1>4 DEF debitCreditsInternal, row

\* DebitCredits: the request that goes on has its reference debited.
LEMMA DebitCreditsSafe ==
    ASSUME RepayInv, NEW c, DebitCredits(c)
    PROVE  RepayInv'
  <1> DEFINE a == repay[c].agent
             ref == repay[c].ref
             x == repay[c].debit
  <1>1. /\ c \in DOMAIN repay /\ repay[c].pc = "debit" /\ UNCHANGED <<deposits, repayments>>
    BY DEF DebitCredits, AtRepay, vars
  <1>2. RepayTypeOK /\ a \in Agent /\ ref \in Ref /\ x \in Nat /\ x \in Amount
    BY <1>1, RepayFacts DEF RepaySound
  <1>3. CASE debitCreditsInternal(RepayWallet[a], ref, x)
    <2>1. CreditsTypeOK' /\ RowsKept /\ RepaymentIsDebited'
      BY <1>1, <1>2, <1>3, DebitFacts
    <2>2. ref \in DOMAIN debits' /\ debits'[ref] = [wallet |-> RepayWallet[a], amount |-> x]
      <3>1. ASSUME NEW b \in Agent, NEW r \in Ref, NEW y \in Amount,
                   debitCreditsInternal(RepayWallet[b], r, y)
            PROVE  r \in DOMAIN debits' /\ debits'[r] = [wallet |-> RepayWallet[b], amount |-> y]
        BY <1>1, <3>1, DebitFacts DEF IsDebited
      <3>2. QED
        BY <1>2, <1>3, <3>1
    <2>3. CASE RepayBecome(c, "apply", x, "none")
      <3>1. RepayMoved(c, "apply", x, "none")
        BY <1>1, <1>2, <2>3, RepayMoves
      <3>2. RepaySound(c)'
        BY <2>2, <3>1 DEF RepaySound, RepayMoved, IsDebited
      <3>3. QED
        BY <1>1, <2>1, <3>1, <3>2, RepayMoveSafe
    <2>4. CASE RepayAnswer(c, "failed")
      <3>1. RepayMoved(c, "done", x, "failed")
        BY <1>1, <1>2, <2>4, RepayMoves DEF RepayAnswer
      <3>2. QED
        BY <1>1, <2>1, <3>1, OverSound, RepayMoveSafe
    <2>5. QED
      BY <2>3, <2>4 DEF DebitCredits
  <1>4. CASE RepayAnswer(c, "failed") /\ UNCHANGED <<credits, usage, debits>>
    <2>1. RepayMoved(c, "done", x, "failed")
      BY <1>1, <1>2, <1>4, RepayMoves DEF RepayAnswer
    <2>2. QED
      BY <1>1, <1>4, <2>1, OverSound, RepayQuiet DEF creditVars
  <1>5. QED
    BY <1>3, <1>4 DEF DebitCredits

\* ApplyRepayment: the row records what this reference was debited.
LEMMA ApplyRepaymentSafe ==
    ASSUME RepayInv, NEW c, ApplyRepayment(c)
    PROVE  RepayInv'
  <1> DEFINE a == repay[c].agent
             ref == repay[c].ref
             k == <<a, ref>>
             x == repay[c].debit
  <1>1. /\ c \in DOMAIN repay /\ repay[c].pc = "apply"
        /\ UNCHANGED <<credits, usage, deposits, debits>>
    BY DEF ApplyRepayment, AtRepay, creditVars
  <1>2. RepayTypeOK /\ RepaymentIsDebited /\ RepaySound(c) /\ x \in Nat
    BY <1>1, RepayFacts
  <1>3. ref \in DOMAIN debits /\ debits[ref] = [wallet |-> RepayWallet[a], amount |-> x]
    BY <1>1, <1>2 DEF RepaySound, IsDebited
  <1>4. CreditsTypeOK'
    BY <1>1, <1>2 DEF CreditsTypeOK, RepayTypeOK
  <1>5. ASSUME RowsKept, RepaymentIsDebited', RepayBecome(c, "ingest", x, "none"),
               k \in DOMAIN repayments', repayments'[k].amount = x
        PROVE  RepayInv'
    <2>1. RepayMoved(c, "ingest", x, "none")
      BY <1>1, <1>2, <1>5, RepayMoves
    <2>2. RepaySound(c)'
      BY <1>1, <1>3, <1>5, <2>1 DEF RepaySound, RepayMoved, IsDebited, IsRecorded
    <2>3. QED
      BY <1>1, <1>4, <1>5, <2>1, <2>2, RepayMoveSafe
  <1>6. CASE /\ IsNewRepayment(a, ref)
             /\ \E applied : repayments' = WithRow(repayments, k,
                                             [amount |-> x, applied |-> applied])
             /\ RepayBecome(c, "ingest", x, "none")
    <2>1. PICK applied : repayments' = WithRow(repayments, k,
                                         [amount |-> x, applied |-> applied])
      BY <1>6
    <2>2. /\ k \notin DOMAIN repayments
          /\ DOMAIN repayments' = DOMAIN repayments \cup {k}
          /\ repayments'[k].amount = x
          /\ \A o \in DOMAIN repayments : repayments'[o] = repayments[o]
      BY <1>6, <2>1 DEF IsNewRepayment, WithRow
    <2>3. RowsKept
      BY <1>1, <2>2 DEF RowsKept
    <2>4. k[1] = a /\ k[2] = ref
      OBVIOUS
    <2>5. RepaymentIsDebited'
      BY <1>1, <1>2, <1>3, <2>2, <2>4 DEF RepaymentIsDebited
    <2>6. QED
      BY <1>5, <1>6, <2>2, <2>3, <2>5
  <1>7. CASE UNCHANGED repayments /\ ~IsNewRepayment(a, ref) /\ RepayBecome(c, "ingest", x, "none")
    <2>1. RowsKept /\ RepaymentIsDebited'
      BY <1>1, <1>2, <1>7 DEF RowsKept, RepaymentIsDebited
    <2>2. k \in DOMAIN repayments /\ k[1] = a /\ k[2] = ref
      BY <1>7 DEF IsNewRepayment
    <2>3. debits[ref].amount = repayments[k].amount
      <3>1. debits[k[2]] = [wallet |-> RepayWallet[k[1]], amount |-> repayments[k].amount]
        BY <1>2, <2>2 DEF RepaymentIsDebited
      <3>2. QED
        BY <2>2, <3>1
    <2>4. QED
      BY <1>3, <1>5, <1>7, <2>1, <2>2, <2>3
  <1>8. CASE UNCHANGED repayments /\ RepayAnswer(c, "failed")
    <2>1. RepayMoved(c, "done", x, "failed")
      BY <1>1, <1>2, <1>8, RepayMoves DEF RepayAnswer
    <2>2. QED
      BY <1>1, <1>8, <2>1, OverSound, RepayQuiet DEF creditVars
  <1>9. QED
    <2>1. CASE applyKizunaRepayment(a, ref, repay[c].scope[1], repay[c].scope[2], x)
               /\ RepayBecome(c, "ingest", x, "none")
      BY <1>6, <2>1 DEF applyKizunaRepayment
    <2>2. CASE UNCHANGED vars
      <3>1. UNCHANGED repayments
        BY <2>2 DEF vars
      <3>2. QED
        BY <1>7, <1>8, <2>1, <3>1 DEF ApplyRepayment
    <2>3. QED
      BY <2>1, <2>2 DEF ApplyRepayment

\* IngestRepayment answers with what it recorded.
LEMMA IngestRepaymentSafe ==
    ASSUME RepayInv, NEW c, IngestRepayment(c)
    PROVE  RepayInv'
  <1>1. /\ c \in DOMAIN repay /\ repay[c].pc = "ingest"
        /\ UNCHANGED <<creditVars, repayments>> /\ UNCHANGED debits
        /\ RepayBecome(c, "done", repay[c].debit, "ok")
    BY DEF IngestRepayment, AtRepay, RepayAnswer, vars, creditVars
  <1>2. RepayTypeOK /\ RepaySound(c) /\ repay[c].debit \in Nat
    BY <1>1, RepayFacts
  <1>3. RepayMoved(c, "done", repay[c].debit, "ok")
    BY <1>1, <1>2, RepayMoves
  <1>4. RepaySound(c)'
    BY <1>1, <1>2, <1>3 DEF RepaySound, RepayMoved, IsDebited, IsRecorded
  <1>5. QED
    BY <1>1, <1>3, <1>4, RepayQuiet

\* RepayCrash: a debit made behind the handler's back is a debit like any other.
LEMMA RepayCrashSafe ==
    ASSUME RepayInv, NEW c, RepayCrash(c)
    PROVE  RepayInv'
  <1>1. /\ c \in DOMAIN repay /\ UNCHANGED <<deposits, repayments>>
        /\ RepayBecome(c, "crashed", repay[c].debit, "none")
    BY DEF RepayCrash, vars
  <1>2. /\ RepayTypeOK /\ RepaySound(c) /\ repay[c].debit \in Nat
        /\ repay[c].agent \in Agent /\ repay[c].ref \in Ref
    BY <1>1, RepayFacts
  <1>3. RepayMoved(c, "crashed", repay[c].debit, "none")
    BY <1>1, <1>2, RepayMoves
  <1>4. CASE UNCHANGED <<credits, usage, debits>>
    BY <1>1, <1>3, <1>4, OverSound, RepayQuiet DEF creditVars
  <1>5. CASE /\ AtRepay(c, "debit")
             /\ debitCreditsInternal(RepayWallet[repay[c].agent], repay[c].ref, repay[c].debit)
    <2>1. repay[c].debit \in Amount
      BY <1>2, <1>5 DEF RepaySound, AtRepay
    <2>2. CreditsTypeOK' /\ RowsKept /\ RepaymentIsDebited'
      BY <1>1, <1>2, <1>5, <2>1, DebitFacts
    <2>3. QED
      BY <1>1, <1>3, <2>2, OverSound, RepayMoveSafe
  <1>6. QED
    BY <1>4, <1>5 DEF RepayCrash

-----------------------------------------------------------------------------
(* The other actions *)

\* Steps that move no request and change no debit or repayment.
LEMMA RepayElsewhere ==
    ASSUME RepayInv, CreditsTypeOK', UNCHANGED <<debits, repayments, repay>>
    PROVE  RepayInv'
  <1>1. RowsKept /\ RepaymentIsDebited'
    BY DEF RowsKept, RepayInv, RepaymentIsDebited
  <1>2. \A c \in DOMAIN repay : RepaySound(c)'
    BY <1>1, RepayStays DEF RepayInv
  <1>3. QED
    BY <1>1, <1>2 DEF RepayInv, RepayTypeOK, CreditsTypeOK

\* depositCredits and deductCredits keep the credits table well typed.
LEMMA CreditsSafe ==
    ASSUME RepayInv, NEW w \in Wallet,
           \/ \E d \in Deposit : depositCredits(w, d)
           \/ \E x \in Amount : deductCredits(w, x)
    PROVE  RepayInv'
  <1>1. RepayTypeOK /\ credits[w] \in CreditRow
    BY DEF RepayInv, RepayTypeOK
  <1>2. UNCHANGED <<debits, repayments, repay>>
    BY DEF depositCredits, deductCredits, vars
  <1>3. ASSUME NEW d \in Deposit, depositCredits(w, d)
        PROVE  CreditsTypeOK'
    <2>1. [balance |-> credits[w].balance + DepositAmount[d],
           deposited |-> credits[w].deposited + DepositAmount[d],
           spent |-> credits[w].spent] \in CreditRow
      BY <1>1, DepositAssumption DEF CreditRow
    <2>2. QED
      BY <1>1, <1>3, <2>1 DEF depositCredits, CreditsTypeOK, RepayTypeOK
  <1>4. ASSUME NEW x \in Amount, deductCredits(w, x)
        PROVE  CreditsTypeOK'
    <2>1. x \in Nat /\ 0 \in Nat
      BY AmountAssumption
    <2>2. credits' \in [Wallet -> CreditRow] /\ usage' \in [Wallet -> [api: Nat, repay: Nat]]
      BY <1>1, <1>4, <2>1, SpendType DEF deductCredits
    <2>3. QED
      BY <1>1, <1>4, <2>2 DEF deductCredits, CreditsTypeOK, RepayTypeOK
  <1>5. QED
    BY <1>2, <1>3, <1>4, RepayElsewhere

\* The other transactions of the ledger record no repayment.
LEMMA LedgerStepSafe ==
    ASSUME RepayInv, LedgerStep
    PROVE  RepayInv'
  <1>1. UNCHANGED <<credits, usage, deposits, debits, repayments, repay>>
    <2>1. UNCHANGED <<credits, usage, deposits, debits, repay>>
      BY DEF LedgerStep, creditVars
    <2>2. ASSUME NEW n, NEW a, NEW l, NEW p, NEW amount, NEW mode,
                 createKizunaReservation(n, a, l, p, amount, mode)
          PROVE  UNCHANGED repayments
      BY <2>2 DEF createKizunaReservation
    <2>3. ASSUME NEW s, NEW n, insertSettlement(s, n, "pending")
          PROVE  UNCHANGED repayments
      BY <2>3 DEF insertSettlement
    <2>4. ASSUME NEW s, NEW n, finalizeKizunaSettlement(n, s)
          PROVE  UNCHANGED repayments
      BY <2>4 DEF finalizeKizunaSettlement
    <2>5. QED
      BY <2>1, <2>2, <2>3, <2>4 DEF LedgerStep
  <1>2. CreditsTypeOK'
    BY <1>1 DEF RepayInv, RepayTypeOK, CreditsTypeOK
  <1>3. QED
    BY <1>1, <1>2, RepayElsewhere

\* The tables start empty.
LEMMA RepayInitInv == RepayInit => RepayInv
  <1> SUFFICES ASSUME RepayInit
               PROVE  RepayInv
    OBVIOUS
  <1>1. DOMAIN debits = {} /\ DOMAIN repay = {} /\ DOMAIN repayments = {}
    BY DEF RepayInit, Init
  <1>2. RepayTypeOK
    BY <1>1 DEF RepayInit, RepayTypeOK, CreditRow
  <1>3. QED
    BY <1>1, <1>2 DEF RepayInv, RepaymentIsDebited

\* Every step keeps the invariant.
LEMMA RepayStepSafe ==
    ASSUME RepayInv, [RepayNext]_repayVars
    PROVE  RepayInv'
  <1>1. CASE UNCHANGED repayVars
    <2>1. UNCHANGED <<credits, usage, deposits, debits, repayments, repay>>
      BY <1>1 DEF repayVars, creditVars, vars
    <2>2. CreditsTypeOK'
      BY <2>1 DEF RepayInv, RepayTypeOK, CreditsTypeOK
    <2>3. QED
      BY <2>1, <2>2, RepayElsewhere
  <1>2. QED
    BY <1>1, SubmitRepaySafe, ReadOutstandingSafe, DebitCreditsSafe, ApplyRepaymentSafe,
       IngestRepaymentSafe, RepayCrashSafe, CreditsSafe, LedgerStepSafe
       DEF RepayNext, RepayStep

\* The invariant holds throughout.
LEMMA RepayInvariant == RepaySpec => []RepayInv
  <1>1. RepayInv /\ [RepayNext]_repayVars => RepayInv'
    BY RepayStepSafe
  <1>2. QED
    BY <1>1, RepayInitInv, PTL DEF RepaySpec

-----------------------------------------------------------------------------
(* What it implies *)

\* The credits tables and the repay requests keep their types; no balance goes
\* negative.
THEOREM RepayTypeCorrect == RepaySpec => []RepayTypeOK
  <1>1. RepayInv => RepayTypeOK
    BY DEF RepayInv
  <1>2. QED
    BY <1>1, RepayInvariant, PTL

\* No debt is paid down without money: every repayment on the ledger was debited from
\* its agent's wallet, with the same amount.
THEOREM RepaymentSafety == RepaySpec => []RepaymentIsDebited
  <1>1. RepayInv => RepaymentIsDebited
    BY DEF RepayInv
  <1>2. QED
    BY <1>1, RepayInvariant, PTL

\* A repayment the route reports is debited and recorded with the amount reported.
THEOREM RepliesSafety == RepaySpec => []RepayRepliesAreTrue
  <1>1. RepayInv => RepayRepliesAreTrue
    <2> SUFFICES ASSUME RepayInv, NEW c \in DOMAIN repay, repay[c].reply = "ok"
                 PROVE  LET k == <<repay[c].agent, repay[c].ref>>
                        IN  /\ k \in DOMAIN repayments
                            /\ k[2] \in DOMAIN debits
                            /\ debits[k[2]].amount = repay[c].debit
                            /\ repayments[k].amount = repay[c].debit
      BY DEF RepayRepliesAreTrue
    <2>1. RepaySound(c)
      BY DEF RepayInv
    <2>2. QED
      BY <2>1 DEF RepaySound, IsDebited, IsRecorded
  <1>2. QED
    BY <1>1, RepayInvariant, PTL

\* ApplyRepayment is a repayment of the ledger, or leaves it alone.
LEMMA ApplyIsLedgerStep ==
    ASSUME RepayInv, NEW c, ApplyRepayment(c)
    PROVE  [Next]_vars
  <1>1. c \in DOMAIN repay /\ repay[c].pc = "apply"
    BY DEF ApplyRepayment, AtRepay
  <1>2. /\ RepayTypeOK /\ RepaySound(c) /\ repay[c].agent \in Agent /\ repay[c].ref \in Ref
        /\ repay[c].scope \in Scope
    BY <1>1, RepayFacts
  <1>3. repay[c].debit \in Amount
    BY <1>1, <1>2 DEF RepaySound, IsDebited, RepayTypeOK, DebitRow
  <1>4. repay[c].scope[1] \in Lane /\ repay[c].scope[2] \in Pool
    BY <1>2, ScopeAssumption
  <1>5. QED
    BY <1>2, <1>3, <1>4 DEF ApplyRepayment, Next

\* What the repay route does to the ledger is a behaviour of the ledger, so all that
\* holds of the ledger holds of it too.
THEOREM RepayRefinesLedger == RepaySpec => RepayImplementsLedger
  <1>1. RepayInit => Init
    BY DEF RepayInit
  <1>2. RepayInv /\ [RepayNext]_repayVars => [Next]_vars
    <2> SUFFICES ASSUME RepayInv, [RepayNext]_repayVars
                 PROVE  [Next]_vars
      OBVIOUS
    <2>1. CASE LedgerStep
      BY <2>1 DEF LedgerStep, Next
    <2>2. CASE \E c \in RepayRequest : ApplyRepayment(c)
      BY <2>2, ApplyIsLedgerStep
    <2>3. CASE UNCHANGED vars
      BY <2>3
    <2>4. QED
      BY <2>1, <2>2, <2>3
         DEF RepayNext, RepayStep, SubmitRepay, ReadOutstanding, DebitCredits,
             IngestRepayment, RepayCrash, depositCredits, deductCredits, repayVars
  <1>3. QED
    BY <1>1, <1>2, RepayInvariant, PTL DEF RepaySpec, RepayImplementsLedger, Spec

\* The ledger's guarantees survive concurrent and repeated repayments: reservations are
\* charged exactly once and every trust event is queued.
THEOREM RepayKeepsLedger == RepaySpec => [](ChargedExactlyOnce /\ OutboxMatchesLedger)
  <1>1. RepaySpec => Spec
    BY RepayRefinesLedger DEF RepayImplementsLedger
  <1>2. QED
    BY <1>1, ChargeSafe, OutboxSafe, PTL

-----------------------------------------------------------------------------
(* The credits add up *)

\* The inductive invariant behind CreditsAddUp.
CreditInv == RepayInv /\ IsFiniteSet(DOMAIN debits) /\ CreditsAddUp

\* The columns of the credits tables.
LEMMA CreditFacts ==
    ASSUME RepayTypeOK, NEW w \in Wallet
    PROVE  /\ credits[w].balance \in Nat /\ credits[w].deposited \in Nat
           /\ credits[w].spent \in Nat /\ usage[w].api \in Nat /\ usage[w].repay \in Nat
           /\ DOMAIN credits = Wallet /\ DOMAIN usage = Wallet
  <1>1. credits[w] \in CreditRow /\ usage[w] \in [api: Nat, repay: Nat]
    BY DEF RepayTypeOK
  <1>2. QED
    BY <1>1 DEF CreditRow, RepayTypeOK

\* The amount of a debit.
LEMMA DebitAmount == \A d \in DebitRow : d.amount \in Nat
  BY AmountAssumption DEF DebitRow

\* Debits that stay as they are add up to what they did.
LEMMA DebitsKept ==
    ASSUME UNCHANGED debits
    PROVE  \A w : DebitSum(w)' = DebitSum(w)
  BY DEF DebitSum, DebitsOf

\* A new debit adds its amount to its wallet's debits.
LEMMA DebitAdds ==
    ASSUME RepayTypeOK, RepayTypeOK', IsFiniteSet(DOMAIN debits), NEW v, NEW ref,
           NEW x \in Nat, ref \notin DOMAIN debits,
           debits' = WithRow(debits, ref, [wallet |-> v, amount |-> x])
    PROVE  /\ IsFiniteSet(DOMAIN debits')
           /\ \A w : DebitSum(w)' = DebitSum(w) + (IF w = v THEN x ELSE 0)
  <1> DEFINE row == [wallet |-> v, amount |-> x]
  <1>1. row.wallet = v /\ row.amount = x
    OBVIOUS
  <1> HIDE DEF row
  <1>2. /\ DOMAIN debits' = DOMAIN debits \cup {ref} /\ debits'[ref] = row
        /\ \A r \in DOMAIN debits : debits'[r] = debits[r]
    BY DEF WithRow, row
  <1>3. IsFiniteSet(DOMAIN debits')
    BY <1>2, FS_AddElement
  <1>4. /\ \A r \in DOMAIN debits : debits[r].amount \in Int
        /\ \A r \in DOMAIN debits' : debits'[r].amount \in Int
    <2>1. \A d \in DebitRow : d.amount \in Nat
      BY DebitAmount
    <2>2. /\ \A r \in DOMAIN debits : debits[r] \in DebitRow
          /\ \A r \in DOMAIN debits' : debits'[r] \in DebitRow
      BY DEF RepayTypeOK
    <2>3. QED
      BY <2>1, <2>2
  <1>5. ASSUME NEW w PROVE DebitSum(w)' = DebitSum(w) + (IF w = v THEN x ELSE 0)
    <2> DEFINE S == DebitsOf(w)
               T == DebitsOf(w)'
               f == [r \in S |-> debits[r].amount]
               g == [r \in T |-> debits'[r].amount]
    <2>1. IsFiniteSet(S) /\ IsFiniteSet(T)
      BY <1>3, FS_Subset DEF DebitsOf
    <2>2. f \in [S -> Int] /\ g \in [T -> Int]
      BY <1>4 DEF DebitsOf
    <2>3. S \ {ref} = T \ {ref}
      BY <1>2 DEF DebitsOf
    <2>4. \A r \in S \ {ref} : g[r] = f[r]
      BY <1>2, <2>3 DEF DebitsOf
    <2>5. ref \notin S
      BY DEF DebitsOf
    <2>6. ref \in T <=> w = v
      BY <1>1, <1>2 DEF DebitsOf
    <2>7. ref \in T => g[ref] = x
      BY <1>1, <1>2
    <2>8. DebitSum(w) = SumFunction(f) /\ DebitSum(w)' = SumFunction(g)
      BY DEF DebitSum
    <2> HIDE DEF S, T
    <2>9. Share(f, ref) = 0
      BY <2>5 DEF Share
    <2>10. Share(g, ref) = IF w = v THEN x ELSE 0
      BY <2>6, <2>7 DEF Share
    <2> HIDE DEF f, g
    <2>11. SumFunction(g) = SumFunction(f) - Share(f, ref) + Share(g, ref)
      BY <2>1, <2>2, <2>3, <2>4, SumStep
    <2>12. SumFunction(f) \in Int
      BY <2>1, <2>2, SumInt
    <2>13. QED
      BY <2>8, <2>9, <2>10, <2>11, <2>12
  <1>6. QED
    BY <1>3, <1>5

\* The rows of a wallet after a Spend.
LEMMA SpendRows ==
    ASSUME RepayTypeOK, NEW v \in Wallet, NEW x \in Nat, NEW y \in Nat, NEW z \in Nat,
           Spend(v, x, y, z), NEW w \in Wallet
    PROVE  /\ credits'[w].deposited = credits[w].deposited
           /\ credits'[w].balance = credits[w].balance - (IF w = v THEN x ELSE 0)
           /\ credits'[w].spent = credits[w].spent + (IF w = v THEN x ELSE 0)
           /\ usage'[w].api = usage[w].api + (IF w = v THEN y ELSE 0)
           /\ usage'[w].repay = usage[w].repay + (IF w = v THEN z ELSE 0)
  <1>1. /\ credits[w].balance \in Nat /\ credits[w].deposited \in Nat
        /\ credits[w].spent \in Nat /\ usage[w].api \in Nat /\ usage[w].repay \in Nat
        /\ DOMAIN credits = Wallet /\ DOMAIN usage = Wallet
    BY CreditFacts
  <1>2. CASE w = v
    <2>1. /\ credits'[w] = [balance |-> credits[w].balance - x,
                            deposited |-> credits[w].deposited,
                            spent |-> credits[w].spent + x]
          /\ usage'[w] = [api |-> usage[w].api + y, repay |-> usage[w].repay + z]
      BY <1>1, <1>2 DEF Spend
    <2>2. QED
      BY <1>2, <2>1
  <1>3. CASE w # v
    <2>1. credits'[w] = credits[w] /\ usage'[w] = usage[w]
      BY <1>1, <1>3 DEF Spend
    <2>2. QED
      BY <1>1, <1>3, <2>1
  <1>4. QED
    BY <1>2, <1>3

\* debitCreditsInternal takes the amount from the balance once per reference.
LEMMA DebitAddsUp ==
    ASSUME CreditInv, RepayTypeOK', NEW v \in Wallet, NEW ref, NEW x \in Amount,
           debitCreditsInternal(v, ref, x)
    PROVE  IsFiniteSet(DOMAIN debits') /\ CreditsAddUp'
  <1>0. RepayTypeOK /\ IsFiniteSet(DOMAIN debits) /\ CreditsAddUp /\ x \in Nat /\ 0 \in Nat
    BY AmountAssumption DEF CreditInv, RepayInv
  <1>1. CASE UNCHANGED <<credits, usage, debits>>
    BY <1>0, <1>1, DebitsKept DEF CreditsAddUp
  <1>2. CASE /\ CanDebit(v, ref, x) /\ Spend(v, x, 0, x)
             /\ debits' = WithRow(debits, ref, [wallet |-> v, amount |-> x])
    <2>1. ref \notin DOMAIN debits
      BY <1>2 DEF CanDebit
    <2>2. /\ IsFiniteSet(DOMAIN debits')
          /\ \A w : DebitSum(w)' = DebitSum(w) + (IF w = v THEN x ELSE 0)
      BY <1>0, <1>2, <2>1, DebitAdds
    <2>3. ASSUME NEW w \in Wallet
          PROVE  /\ credits'[w].balance + credits'[w].spent = credits'[w].deposited
                 /\ credits'[w].spent = usage'[w].api + usage'[w].repay
                 /\ usage'[w].repay = DebitSum(w)'
      <3>1. /\ credits'[w].deposited = credits[w].deposited
            /\ credits'[w].balance = credits[w].balance - (IF w = v THEN x ELSE 0)
            /\ credits'[w].spent = credits[w].spent + (IF w = v THEN x ELSE 0)
            /\ usage'[w].api = usage[w].api + (IF w = v THEN 0 ELSE 0)
            /\ usage'[w].repay = usage[w].repay + (IF w = v THEN x ELSE 0)
        BY <1>0, <1>2, SpendRows
      <3>2. /\ credits[w].balance + credits[w].spent = credits[w].deposited
            /\ credits[w].spent = usage[w].api + usage[w].repay
            /\ usage[w].repay = DebitSum(w)
        BY <1>0 DEF CreditsAddUp
      <3>3. /\ credits[w].balance \in Nat /\ credits[w].deposited \in Nat
            /\ credits[w].spent \in Nat /\ usage[w].api \in Nat /\ usage[w].repay \in Nat
        BY <1>0, CreditFacts
      <3>4. DebitSum(w)' = DebitSum(w) + (IF w = v THEN x ELSE 0)
        BY <2>2
      <3>5. QED
        BY <1>0, <3>1, <3>2, <3>3, <3>4
    <2>4. QED
      BY <2>2, <2>3 DEF CreditsAddUp
  <1>3. QED
    BY <1>1, <1>2 DEF debitCreditsInternal

\* A deposit raises balance and deposits together.
LEMMA DepositAddsUp ==
    ASSUME CreditInv, NEW v \in Wallet, NEW d \in Deposit, depositCredits(v, d)
    PROVE  IsFiniteSet(DOMAIN debits') /\ CreditsAddUp'
  <1>0. RepayTypeOK /\ IsFiniteSet(DOMAIN debits) /\ CreditsAddUp /\ DepositAmount[d] \in Nat
    BY DepositAssumption DEF CreditInv, RepayInv
  <1>1. usage' = usage /\ debits' = debits
    BY DEF depositCredits
  <1>2. ASSUME NEW w \in Wallet
        PROVE  /\ credits'[w].balance + credits'[w].spent = credits'[w].deposited
               /\ credits'[w].spent = credits[w].spent
    <2>1. /\ credits[w].balance \in Nat /\ credits[w].deposited \in Nat
          /\ credits[w].spent \in Nat /\ DOMAIN credits = Wallet
      BY <1>0, CreditFacts
    <2>2. credits[w].balance + credits[w].spent = credits[w].deposited
      BY <1>0 DEF CreditsAddUp
    <2>3. CASE w = v
      <3>1. credits'[w] = [balance |-> credits[w].balance + DepositAmount[d],
                           deposited |-> credits[w].deposited + DepositAmount[d],
                           spent |-> credits[w].spent]
        BY <2>1, <2>3 DEF depositCredits
      <3>2. QED
        BY <1>0, <2>1, <2>2, <3>1
    <2>4. CASE w # v
      <3>1. credits'[w] = credits[w]
        BY <2>1, <2>4 DEF depositCredits
      <3>2. QED
        BY <2>2, <3>1
    <2>5. QED
      BY <2>3, <2>4
  <1>3. QED
    BY <1>0, <1>1, <1>2, DebitsKept DEF CreditsAddUp

\* The API's own endpoints spend with a usage row.
LEMMA DeductAddsUp ==
    ASSUME CreditInv, NEW v \in Wallet, NEW x \in Amount, deductCredits(v, x)
    PROVE  IsFiniteSet(DOMAIN debits') /\ CreditsAddUp'
  <1>0. RepayTypeOK /\ IsFiniteSet(DOMAIN debits) /\ CreditsAddUp /\ x \in Nat /\ 0 \in Nat
    BY AmountAssumption DEF CreditInv, RepayInv
  <1>1. Spend(v, x, x, 0) /\ debits' = debits
    BY DEF deductCredits
  <1>2. \A w : DebitSum(w)' = DebitSum(w)
    BY <1>1, DebitsKept
  <1>3. ASSUME NEW w \in Wallet
        PROVE  /\ credits'[w].balance + credits'[w].spent = credits'[w].deposited
               /\ credits'[w].spent = usage'[w].api + usage'[w].repay
               /\ usage'[w].repay = DebitSum(w)'
    <2>1. /\ credits'[w].deposited = credits[w].deposited
          /\ credits'[w].balance = credits[w].balance - (IF w = v THEN x ELSE 0)
          /\ credits'[w].spent = credits[w].spent + (IF w = v THEN x ELSE 0)
          /\ usage'[w].api = usage[w].api + (IF w = v THEN x ELSE 0)
          /\ usage'[w].repay = usage[w].repay + (IF w = v THEN 0 ELSE 0)
      BY <1>0, <1>1, SpendRows
    <2>2. /\ credits[w].balance + credits[w].spent = credits[w].deposited
          /\ credits[w].spent = usage[w].api + usage[w].repay
          /\ usage[w].repay = DebitSum(w)
      BY <1>0 DEF CreditsAddUp
    <2>3. /\ credits[w].balance \in Nat /\ credits[w].deposited \in Nat
          /\ credits[w].spent \in Nat /\ usage[w].api \in Nat /\ usage[w].repay \in Nat
      BY <1>0, CreditFacts
    <2>4. QED
      BY <1>0, <1>2, <2>1, <2>2, <2>3
  <1>4. QED
    BY <1>0, <1>1, <1>3 DEF CreditsAddUp

\* A step of another table.
LEMMA CreditsElsewhere ==
    ASSUME CreditInv, UNCHANGED <<credits, usage, debits>>
    PROVE  IsFiniteSet(DOMAIN debits') /\ CreditsAddUp'
  BY DebitsKept DEF CreditInv, CreditsAddUp

\* Whoever sends the debit, its answer lost or not.
LEMMA RequestAddsUp ==
    ASSUME CreditInv, RepayTypeOK', NEW c, DebitCredits(c) \/ RepayCrash(c)
    PROVE  IsFiniteSet(DOMAIN debits') /\ CreditsAddUp'
  <1> DEFINE v == RepayWallet[repay[c].agent]
             ref == repay[c].ref
             x == repay[c].debit
  <1>1. UNCHANGED <<credits, usage, debits>> \/
        (debitCreditsInternal(v, ref, x) /\ AtRepay(c, "debit"))
    BY DEF DebitCredits, RepayCrash
  <1>2. ASSUME AtRepay(c, "debit") PROVE v \in Wallet /\ x \in Amount
    <2>1. c \in DOMAIN repay /\ repay[c].pc = "debit" /\ RepayInv
      BY <1>2 DEF AtRepay, CreditInv
    <2>2. RepaySound(c) /\ repay[c].agent \in Agent
      BY <2>1, RepayFacts
    <2>3. QED
      BY <2>1, <2>2, RepayWalletAssumption DEF RepaySound
  <1> HIDE DEF v, ref, x
  <1>3. QED
    BY <1>1, <1>2, CreditsElsewhere, DebitAddsUp

\* Every step keeps the credits adding up.
LEMMA CreditStepSafe ==
    ASSUME CreditInv, [RepayNext]_repayVars
    PROVE  CreditInv'
  <1>1. RepayInv' /\ RepayTypeOK'
    BY RepayStepSafe DEF CreditInv, RepayInv
  <1>2. ASSUME NEW c, NEW a, NEW ref, NEW scope, NEW x, SubmitRepay(c, a, ref, scope, x)
        PROVE  UNCHANGED <<credits, usage, debits>>
    BY <1>2 DEF SubmitRepay, creditVars
  <1>3. ASSUME NEW c, ReadOutstanding(c) PROVE UNCHANGED <<credits, usage, debits>>
    BY <1>3 DEF ReadOutstanding, creditVars
  <1>4. ASSUME NEW c, ApplyRepayment(c) PROVE UNCHANGED <<credits, usage, debits>>
    BY <1>4 DEF ApplyRepayment, creditVars
  <1>5. ASSUME NEW c, IngestRepayment(c) PROVE UNCHANGED <<credits, usage, debits>>
    BY <1>5 DEF IngestRepayment, creditVars
  <1>6. ASSUME LedgerStep PROVE UNCHANGED <<credits, usage, debits>>
    BY <1>6 DEF LedgerStep, creditVars
  <1>7. ASSUME UNCHANGED repayVars PROVE UNCHANGED <<credits, usage, debits>>
    BY <1>7 DEF repayVars, creditVars
  <1>8. IsFiniteSet(DOMAIN debits') /\ CreditsAddUp'
    BY <1>1, <1>2, <1>3, <1>4, <1>5, <1>6, <1>7, CreditsElsewhere, RequestAddsUp,
       DepositAddsUp, DeductAddsUp DEF RepayNext, RepayStep
  <1>9. QED
    BY <1>1, <1>8 DEF CreditInv

\* Nothing is deposited or debited at first.
LEMMA CreditInit == RepayInit => CreditInv
  <1> SUFFICES ASSUME RepayInit PROVE CreditInv
    OBVIOUS
  <1>1. RepayInv
    BY RepayInitInv
  <1>2. DOMAIN debits = {}
    BY DEF RepayInit
  <1>3. IsFiniteSet(DOMAIN debits)
    BY <1>2, FS_EmptySet
  <1>4. ASSUME NEW w PROVE DebitSum(w) = 0
    <2>1. DebitsOf(w) = {}
      BY <1>2 DEF DebitsOf
    <2>2. DOMAIN [r \in DebitsOf(w) |-> debits[r].amount] = {}
      BY <2>1
    <2>3. QED
      BY <2>2, SumEmpty DEF DebitSum
  <1>5. \A w \in Wallet : /\ credits[w].balance = 0 /\ credits[w].spent = 0
                          /\ credits[w].deposited = 0
                          /\ usage[w].api = 0 /\ usage[w].repay = 0
    BY DEF RepayInit
  <1>6. QED
    BY <1>1, <1>3, <1>4, <1>5 DEF CreditInv, CreditsAddUp

\* The invariant holds throughout.
LEMMA CreditInvariant == RepaySpec => []CreditInv
  <1>1. CreditInv /\ [RepayNext]_repayVars => CreditInv'
    BY CreditStepSafe
  <1>2. QED
    BY <1>1, CreditInit, PTL DEF RepaySpec

\* Credits are neither minted nor lost, and no reference is debited twice, whatever
\* fails or is sent again.
THEOREM CreditsSafety == RepaySpec => []CreditsAddUp
  <1>1. CreditInv => CreditsAddUp
    BY DEF CreditInv
  <1>2. QED
    BY <1>1, CreditInvariant, PTL

\* The ledger's rows, seen from the route: finitely many, typed, and paid exactly.
LEMMA LedgerFacts == RepaySpec => [](PrefundInv /\ RepaymentsPayDebts)
  <1>1. RepaySpec => Spec
    BY RepayRefinesLedger DEF RepayImplementsLedger
  <1>2. Spec => []PrefundInv
    BY InitPrefund, NextPrefund, PTL DEF Spec
  <1>3. QED
    BY <1>1, <1>2, RepaymentsExact, PTL

\* Each of an agent's repayments has its own debit, at least as large as what it
\* applied, on the agent's wallet.
LEMMA CoverFromRows ==
    ASSUME TypeOK, FiniteRows, CreditInv, RepaymentsPayDebts
    PROVE  DebitsCoverPayments
  <1> SUFFICES ASSUME NEW a \in Agent
               PROVE  PaidDown(a) <= DebitSum(RepayWallet[a])
    BY DEF DebitsCoverPayments
  <1> DEFINE w == RepayWallet[a]
             S == RepaymentsOf(a)
             T == DebitsOf(w)
             f == [k \in S |-> repayments[k].applied]
             g == [r \in T |-> debits[r].amount]
             h == [k \in S |-> k[2]]
  <1>1. IsFiniteSet(S) /\ IsFiniteSet(T)
    BY FS_Subset DEF FiniteRows, CreditInv, RepaymentsOf, DebitsOf
  <1>2. \A k \in S : /\ k \in DOMAIN repayments /\ k[1] = a /\ k \in Agent \X Ref
                     /\ repayments[k].applied \in Nat /\ repayments[k].amount \in Nat
                     /\ repayments[k].applied <= repayments[k].amount
    BY AmountAssumption DEF TypeOK, RepaymentsOf, RepaymentsPayDebts
  <1>3. \A k \in S : /\ k[2] \in DOMAIN debits
                     /\ debits[k[2]].wallet = w
                     /\ debits[k[2]].amount = repayments[k].amount
    <2>1. RepaymentIsDebited
      BY DEF CreditInv, RepayInv
    <2>2. ASSUME NEW k \in S
          PROVE  /\ k[2] \in DOMAIN debits
                 /\ debits[k[2]].wallet = w
                 /\ debits[k[2]].amount = repayments[k].amount
      <3>1. k[1] = a /\ k \in DOMAIN repayments
        BY <1>2
      <3>2. k[2] \in DOMAIN debits
            /\ debits[k[2]] = [wallet |-> RepayWallet[k[1]], amount |-> repayments[k].amount]
        BY <2>1, <3>1 DEF RepaymentIsDebited
      <3>3. QED
        BY <3>1, <3>2
    <2>3. QED
      BY <2>2
  <1>4. \A r \in T : debits[r].amount \in Nat
    <2>1. \A r \in T : debits[r] \in DebitRow
      BY DEF CreditInv, RepayInv, RepayTypeOK, DebitsOf
    <2>2. QED
      BY <2>1, AmountAssumption DEF DebitRow
  <1>5. f \in [S -> Int] /\ g \in [T -> Nat] /\ h \in [S -> T]
    BY <1>2, <1>3, <1>4 DEF DebitsOf
  <1>6. \A x, y \in S : h[x] = h[y] => x = y
    <2>1. \A x \in S : x = <<a, x[2]>>
      BY <1>2
    <2>2. QED
      BY <2>1
  <1>7. \A x \in S : f[x] <= g[h[x]]
    BY <1>2, <1>3, <1>5
  <1>8. PaidDown(a) = SumFunction(f)
    BY DEF RepaymentsPayDebts, AppliedSum
  <1>9. DebitSum(w) = SumFunction(g)
    BY DEF DebitSum
  <1> HIDE DEF S, T, f, g, h
  <1>10. SumFunction(f) <= SumFunction(g)
    BY <1>1, <1>5, <1>6, <1>7, SumInjects
  <1>11. QED
    BY <1>8, <1>9, <1>10

\* What an agent's debts were paid down by is covered by what was debited from its
\* wallet, whatever fails between the debit and the ledger write.
THEOREM DebitsCover == RepaySpec => []DebitsCoverPayments
  <1>1. PrefundInv /\ RepaymentsPayDebts /\ CreditInv => DebitsCoverPayments
    BY CoverFromRows DEF PrefundInv
  <1>2. QED
    BY <1>1, LedgerFacts, CreditInvariant, PTL

=============================================================================
