----------------------------- MODULE KizunaRepay -----------------------------
(***************************************************************************)
(* POST /kizuna/accounts/:agentId/repay (services/x402-facilitator,        *)
(* src/routes/kizuna.ts): a repayment is two writes in two services.  It   *)
(* debits the agent's credits (services/api, src/db.ts, over HTTP), then   *)
(* applies what was debited to the ledger's debts.  Requests run           *)
(* concurrently and are sent again with the same reference; the answer of  *)
(* a debit may be lost, a statement may fail and the process may die.      *)
(***************************************************************************)
EXTENDS KizunaLedger

CONSTANTS
    RepayRequest,  \* requests, retries included
    Wallet,        \* repay wallets
    RepayWallet,   \* kizuna_accounts.repay_wallet of each agent, not re-registered
    Scope,         \* the (lane, pool) pairs requests name
    Deposit,       \* credit deposits: signatures of token transfers
    DepositAmount, \* what each of them is worth
    Fault          \* which of the Faults below may happen

Faults ==
    {"lostAnswer",  \* the credits service debits and its answer is lost
     "outage",      \* ... or it is not reached at all
     "db",          \* a statement of the facilitator fails
     "crash"}       \* the facilitator dies

ASSUME RepayWalletAssumption == RepayWallet \in [Agent -> Wallet]
ASSUME ScopeAssumption == Scope \subseteq Lane \X Pool
ASSUME DepositAssumption == DepositAmount \in [Deposit -> Nat]
ASSUME FaultAssumption == Fault \subseteq Faults
\* A request asks for whole micro units: all smaller amounts are amounts too.
ASSUME AmountIsInterval == \A x \in Amount : \A y \in 1..x : y \in Amount

VARIABLES
    credits,   \* services/api: the credits table
    usage,     \* credit_usage: the total per wallet and kind of endpoint
    deposits,  \* credit_deposits
    debits,    \* credit_internal_debits, keyed by reference
    repay      \* the handler of each repay request

creditVars == <<credits, usage, deposits, debits>>
repayVars == <<vars, creditVars, repay>>

-----------------------------------------------------------------------------
CreditRow == [balance: Nat, deposited: Nat, spent: Nat]

DebitRow == [wallet: Wallet, amount: Amount]

\* again: the reference was already debited when the request was sent, which
\* makes it a retry (kept for the properties).
RepayHandler ==
    [pc: {"read", "debit", "apply", "ingest", "done", "crashed"},
     agent: Agent, ref: Ref, scope: Scope, requested: Amount, again: BOOLEAN,
     debit: Nat, reply: {"none", "ok", "nothingOwed", "failed"}]

\* The type of the credits tables and of the repay requests.
RepayTypeOK ==
    /\ credits \in [Wallet -> CreditRow]
    /\ usage \in [Wallet -> [api: Nat, repay: Nat]]
    /\ deposits \subseteq Deposit
    /\ DOMAIN debits \subseteq Ref
    /\ debits \in [DOMAIN debits -> DebitRow]
    /\ DOMAIN repay \subseteq RepayRequest
    /\ repay \in [DOMAIN repay -> RepayHandler]

RepayInit ==
    /\ Init
    /\ credits = [w \in Wallet |-> [balance |-> 0, deposited |-> 0, spent |-> 0]]
    /\ usage = [w \in Wallet |-> [api |-> 0, repay |-> 0]]
    /\ deposits = {}
    /\ debits = [r \in {} |-> NoSettlement]
    /\ repay = [c \in {} |-> NoSettlement]

May(f) == f \in Fault

-----------------------------------------------------------------------------
(* The credits service *)

\* depositCredits: a deposit already processed is refused.
depositCredits(w, d) ==
    /\ d \notin deposits
    /\ deposits' = deposits \cup {d}
    /\ credits' = [credits EXCEPT ![w] =
         [balance |-> credits[w].balance + DepositAmount[d],
          deposited |-> credits[w].deposited + DepositAmount[d],
          spent |-> credits[w].spent]]
    /\ UNCHANGED <<vars, usage, debits, repay>>

Spend_NoUsage(w, x, api, kizuna) ==
    /\ credits' = [credits EXCEPT ![w] =
         [balance |-> credits[w].balance - x, deposited |-> credits[w].deposited,
          spent |-> credits[w].spent + x]]
    /\ UNCHANGED usage

\* x leaves a balance for an endpoint of the API or for kizuna-repay, with its
\* credit_usage row.
Spend(w, x, api, kizuna) ==
    /\ credits' = [credits EXCEPT ![w] =
         [balance |-> credits[w].balance - x, deposited |-> credits[w].deposited,
          spent |-> credits[w].spent + x]]
    /\ usage' = [usage EXCEPT ![w] =
         [api |-> usage[w].api + api, repay |-> usage[w].repay + kizuna]]

\* The API's own endpoints spend the same balance.
deductCredits(w, x) ==
    /\ credits[w].balance >= x
    /\ Spend(w, x, x, 0)
    /\ UNCHANGED <<vars, deposits, debits, repay>>

IsSameDebit_AnyAmount(w, ref, x) ==
    ref \in DOMAIN debits /\ debits[ref].wallet = w

IsSameDebit(w, ref, x) ==
    ref \in DOMAIN debits /\ debits[ref] = [wallet |-> w, amount |-> x]

CanDebit_Overdraft(w, ref, x) == ref \notin DOMAIN debits

CanDebit(w, ref, x) == ref \notin DOMAIN debits /\ credits[w].balance >= x

\* debitCreditsInternal, one SQLite transaction: a reference on file for the same
\* wallet and amount is answered from its row, for another it is a conflict.
debitCreditsInternal(w, ref, x) ==
    \/ /\ CanDebit(w, ref, x)
       /\ Spend(w, x, 0, x)
       /\ debits' = WithRow(debits, ref, [wallet |-> w, amount |-> x])
    \/ IsSameDebit(w, ref, x) /\ UNCHANGED <<credits, usage, debits>>

-----------------------------------------------------------------------------
(* The handler *)

AtRepay(c, pc) == c \in DOMAIN repay /\ repay[c].pc = pc

RepayBecome(c, pc, debit, reply) ==
    repay' = [repay EXCEPT ![c] =
                [pc |-> pc, agent |-> repay[c].agent, ref |-> repay[c].ref,
                 scope |-> repay[c].scope, requested |-> repay[c].requested,
                 again |-> repay[c].again, debit |-> debit, reply |-> reply]]

RepayOver(c) == AtRepay(c, "done") \/ AtRepay(c, "crashed")

RepayAnswer(c, reply) == RepayBecome(c, "done", repay[c].debit, reply)

SubmitRepay(c, a, ref, scope, x) ==
    /\ c \notin DOMAIN repay
    /\ repay' = WithRow(repay, c,
                  [pc |-> "read", agent |-> a, ref |-> ref, scope |-> scope,
                   requested |-> x, again |-> ref \in DOMAIN debits,
                   debit |-> 0, reply |-> "none"])
    /\ UNCHANGED <<vars, creditVars>>

Outstanding(c) ==
    OwedBefore(Len(debts) + 1, repay[c].agent, repay[c].scope[1], repay[c].scope[2])

\* getKizunaOutstandingMicro; with nothing owed the request is answered at once,
\* without a look at what its reference has already debited.  A failing read is
\* answered by errorHandler.
ReadOutstanding(c) ==
    LET owed == Outstanding(c)
    IN  /\ AtRepay(c, "read")
        /\ \/ owed <= 0 /\ RepayAnswer(c, "nothingOwed")
           \/ /\ owed > 0
              /\ RepayBecome(c, "debit",
                             IF owed \in 1..repay[c].requested THEN owed
                             ELSE repay[c].requested,
                             "none")
           \/ May("db") /\ RepayAnswer(c, "failed")
        /\ UNCHANGED <<vars, creditVars>>

\* debitKizunaCredits: a refusal (insufficient credits, conflicting reference)
\* and an answer that does not arrive are thrown alike.
DebitCredits(c) ==
    LET w == RepayWallet[repay[c].agent]
        ref == repay[c].ref
        x == repay[c].debit
    IN  /\ AtRepay(c, "debit")
        /\ \/ /\ debitCreditsInternal(w, ref, x)
              /\ RepayBecome(c, "apply", x, "none")
           \/ /\ May("lostAnswer")
              /\ debitCreditsInternal(w, ref, x)
              /\ RepayAnswer(c, "failed")
           \/ /\ May("outage") \/ ~(CanDebit(w, ref, x) \/ IsSameDebit(w, ref, x))
              /\ RepayAnswer(c, "failed")
              /\ UNCHANGED <<credits, usage, debits>>
        /\ UNCHANGED <<vars, deposits>>

ApplyRepayment_Requested(c) ==
    /\ AtRepay(c, "apply")
    /\ applyKizunaRepayment(repay[c].agent, repay[c].ref, repay[c].scope[1],
                            repay[c].scope[2], repay[c].requested)
    /\ RepayBecome(c, "ingest", repay[c].debit, "none")
    /\ UNCHANGED creditVars

ApplyRepayment_SwallowsFailure(c) ==
    /\ AtRepay(c, "apply")
    /\ RepayBecome(c, "ingest", repay[c].debit, "none")
    /\ UNCHANGED <<vars, creditVars>>

ApplyRepayment_RowOnly(c) ==
    /\ AtRepay(c, "apply")
    /\ repayments' = WithRow(repayments, <<repay[c].agent, repay[c].ref>>,
                             [amount |-> repay[c].debit, applied |-> repay[c].debit])
    /\ RepayBecome(c, "ingest", repay[c].debit, "none")
    /\ UNCHANGED <<reservations, lapsed, balances, pools, debts, settlements, fees,
                   billable, fundingEvents, outbox, creditVars>>

\* applyKizunaRepayment with what was debited.  A reference on file is answered
\* from its row, or, when its row came in between, refused by the unique key.
ApplyRepayment(c) ==
    LET a == repay[c].agent
        ref == repay[c].ref
    IN  /\ AtRepay(c, "apply")
        /\ \/ /\ applyKizunaRepayment(a, ref, repay[c].scope[1],
                                      repay[c].scope[2], repay[c].debit)
              /\ RepayBecome(c, "ingest", repay[c].debit, "none")
           \/ /\ ~IsNewRepayment(a, ref)
              /\ \/ RepayBecome(c, "ingest", repay[c].debit, "none")
                 \/ RepayAnswer(c, "failed")
              /\ UNCHANGED vars
           \/ May("db") /\ RepayAnswer(c, "failed") /\ UNCHANGED vars
        /\ UNCHANGED creditVars

\* ingestKizunaKernelRepayment: its failure only shows in the answer.
IngestRepayment(c) ==
    /\ AtRepay(c, "ingest")
    /\ RepayAnswer(c, "ok")
    /\ UNCHANGED <<vars, creditVars>>

\* The process dies; a debit it was waiting for may be made all the same, as
\* when its answer is lost.
RepayCrash(c) ==
    /\ May("crash")
    /\ c \in DOMAIN repay /\ ~RepayOver(c)
    /\ RepayBecome(c, "crashed", repay[c].debit, "none")
    /\ \/ UNCHANGED <<credits, usage, debits>>
       \/ /\ AtRepay(c, "debit")
          /\ debitCreditsInternal(RepayWallet[repay[c].agent], repay[c].ref, repay[c].debit)
    /\ UNCHANGED <<vars, deposits>>

-----------------------------------------------------------------------------
(* How debts come about: the rest of the ledger *)

LedgerStep ==
    /\ \/ \E n \in Nonce, a \in Agent, l \in Lane, p \in Pool, amount \in Amount :
             \E mode \in FundingModes(l) :
                createKizunaReservation(n, a, l, p, amount, mode)
       \/ \E s \in Settlement, n \in DOMAIN reservations :
             insertSettlement(s, n, "pending")
       \/ \E s \in DOMAIN settlements :
             finalizeKizunaSettlement(settlements[s].nonce, s)
    /\ UNCHANGED <<creditVars, repay>>

RepayStep(c) ==
    \/ ReadOutstanding(c)
    \/ DebitCredits(c)
    \/ ApplyRepayment(c)
    \/ IngestRepayment(c)

RepayNext ==
    \/ \E c \in RepayRequest, a \in Agent, ref \in Ref, scope \in Scope, x \in Amount :
          SubmitRepay(c, a, ref, scope, x)
    \/ \E c \in RepayRequest : RepayStep(c)
    \/ \E c \in RepayRequest : RepayCrash(c)
    \/ \E w \in Wallet, d \in Deposit : depositCredits(w, d)
    \/ \E w \in Wallet, x \in Amount : deductCredits(w, x)
    \/ LedgerStep

RepaySpec == RepayInit /\ [][RepayNext]_repayVars

-----------------------------------------------------------------------------
(* Properties *)

\* The repay handlers' transactions are a behaviour of the ledger.
RepayImplementsLedger == Spec

\* No debt is paid down without money: every kizuna_repayments row has a debit
\* of the same reference and amount from its agent's wallet, whatever failed or
\* was sent again in between.
RepaymentIsDebited ==
    \A k \in DOMAIN repayments :
       /\ k[2] \in DOMAIN debits
       /\ debits[k[2]] = [wallet |-> RepayWallet[k[1]], amount |-> repayments[k].amount]

DebitsOf(w) == {r \in DOMAIN debits : debits[r].wallet = w}

DebitSum(w) == SumFunction([r \in DebitsOf(w) |-> debits[r].amount])

\* Credits are neither minted nor lost, and no reference is debited twice: what
\* a wallet spent on repayments is exactly its recorded debits, and balance and
\* usage add up to its deposits.
CreditsAddUp ==
    \A w \in Wallet :
       /\ credits[w].balance + credits[w].spent = credits[w].deposited
       /\ credits[w].spent = usage[w].api + usage[w].repay
       /\ usage[w].repay = DebitSum(w)

\* What an agent's debts were paid down by is covered by what was debited from
\* its wallet.  (Agents that share a wallet share its debits: a reference is
\* debited once per wallet and amount, and recorded once per agent.)
DebitsCoverPayments ==
    \A a \in Agent : PaidDown(a) <= DebitSum(RepayWallet[a])

\* A request that reports a repayment tells the truth: its reference is debited
\* and on the ledger with the amount reported.
RepayRepliesAreTrue ==
    \A c \in DOMAIN repay :
       repay[c].reply = "ok" =>
          LET k == <<repay[c].agent, repay[c].ref>>
          IN  /\ k \in DOMAIN repayments
              /\ k[2] \in DOMAIN debits
              /\ debits[k[2]].amount = repay[c].debit
              /\ repayments[k].amount = repay[c].debit

\* "If the debit succeeded but facilitator write failed, retry the same request
\* until records reconcile" (README.md, repayment runbook): a retry answered ok,
\* with no other request for its reference under way, leaves the debit recorded
\* on the ledger.
RetryReconciles ==
    \A c \in DOMAIN repay :
       /\ repay[c].again
       /\ repay[c].reply \in {"ok", "nothingOwed"}
       /\ \A o \in DOMAIN repay : repay[o].ref = repay[c].ref => RepayOver(o)
       => <<repay[c].agent, repay[c].ref>> \in DOMAIN repayments

=============================================================================
