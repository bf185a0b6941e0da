----------------------------- MODULE KizunaSettle -----------------------------
(***************************************************************************)
(* POST /settle for a Kizuna reservation (services/x402-facilitator,       *)
(* src/routes/settle.ts): any number of requests run concurrently, each    *)
(* one a sequence of awaits over the ledger's transactions, the on-chain   *)
(* transfer and the credit kernel.  Between two awaits every other request *)
(* may run, the clock may pass expires_at, an internal caller may release  *)
(* the reservation and the process may die.                                *)
(*                                                                         *)
(* A request is identified with the settlements row it inserts and with    *)
(* the transaction it sends.  The checks that do not depend on the ledger  *)
(* (signature, wallets, envelope) only refuse and are left out.            *)
(***************************************************************************)
EXTENDS KizunaLedger

CONSTANTS
    Disturbance,   \* which of the Disturbances below may happen
    FailClosed     \* KIZUNA_KERNEL_FAIL_CLOSED and not KIZUNA_SHADOW_MODE

Disturbances ==
    {"concurrent",   \* two requests for one nonce overlap
     "lapse",        \* a reservation outlives its TTL
     "release",      \* POST /internal/jobs/reservations/release
     "unconfirmed",  \* the transfer is sent but its confirmation is not seen
     "kernel",       \* the kernel does not answer a commit
     "db",           \* a statement fails
     "crash"}        \* the process dies

ASSUME DisturbanceAssumption == Disturbance \subseteq Disturbances
ASSUME FailClosedAssumption == FailClosed \in BOOLEAN

Request == Settlement
NoTx == NoSettlement

VARIABLES
    req,      \* the handler of each request submitted so far
    pending,  \* transfers sent whose outcome the facilitator did not see
    landed,   \* transfers executed on chain
    kernel    \* nonces whose decision the kernel has committed

handlerVars == <<req, pending, landed, kernel>>
settleVars == <<vars, handlerVars>>

-----------------------------------------------------------------------------
PC == {"read", "replay", "expire", "insert", "pay", "finalize", "billable",
       "commit", "catch", "catchPaid", "release", "done", "crashed"}

Reply == {"none", "ok", "retry", "refused", "failed"}

Handler ==
    [pc: PC, nonce: Nonce, amount: Amount, tx: Settlement \cup {NoTx}, reply: Reply]

\* The type of the handlers' state.
SettleTypeOK ==
    /\ DOMAIN req \subseteq Request
    /\ req \in [DOMAIN req -> Handler]
    /\ pending \subseteq Request
    /\ landed \subseteq Request
    /\ kernel \subseteq Nonce

SettleInit ==
    /\ Init
    /\ req = [q \in {} |-> NoTx]
    /\ pending = {}
    /\ landed = {}
    /\ kernel = {}

-----------------------------------------------------------------------------
(* Helpers *)

At(q, pc) == q \in DOMAIN req /\ req[q].pc = pc

Finished(q) == At(q, "done") \/ At(q, "crashed")

Become(q, pc, tx, reply) ==
    req' = [req EXCEPT ![q] = [pc |-> pc, nonce |-> req[q].nonce,
                               amount |-> req[q].amount, tx |-> tx, reply |-> reply]]

\* The request goes on to its next await ...
Goto(q, pc) == Become(q, pc, NoTx, "none")

\* ... or is answered.
Answer(q, reply, tx) == Become(q, "done", tx, reply)

May(d) == d \in Disturbance

-----------------------------------------------------------------------------
(* The handler, up to the on-chain transfer *)

Submit_Unparsed(q, n, amount) ==
    /\ q \notin DOMAIN req
    /\ req' = WithRow(req, q, [pc |-> "read", nonce |-> n, amount |-> 0,
                               tx |-> NoTx, reply |-> "none"])
    /\ UNCHANGED <<vars, pending, landed, kernel>>

Submit(q, n, amount) ==
    /\ q \notin DOMAIN req
    /\ May("concurrent") \/ \A o \in DOMAIN req : req[o].nonce = n => Finished(o)
    /\ req' = WithRow(req, q, [pc |-> "read", nonce |-> n, amount |-> amount,
                               tx |-> NoTx, reply |-> "none"])
    /\ UNCHANGED <<vars, pending, landed, kernel>>

\* A consumed reservation is answered again from its row if it carries a tx hash
\* and, unless prefund paid for it, its debt is there.
IsReplayable(n) ==
    /\ n \in DOMAIN reservations
    /\ reservations[n].status = "consumed"
    /\ \/ \E i \in 1..Len(debts) : debts[i].reservation = n
       \/ IsPrefundedEnterprise(reservations[n])

IsLive_IgnoringExpiry(q) == IsReserved(req[q].nonce)

\* getKizunaReservationByNonce and the checks on the row it returns: the
\* request may go on only with a reserved row that has not expired.
IsLive(q) == IsReserved(req[q].nonce) /\ req[q].nonce \notin lapsed

\* A shortfall is refused; the wallet, network and envelope checks only refuse.
CoversAmount(q) == req[q].amount <= reservations[req[q].nonce].amount

ReadReservation(q) ==
    LET n == req[q].nonce
    IN  /\ At(q, "read")
        /\ \/ IsReplayable(n) /\ Goto(q, "replay")
           \/ IsReserved(n) /\ ~IsLive(q) /\ Goto(q, "expire")
           \/ IsLive(q) /\ CoversAmount(q) /\ Goto(q, "insert")
           \/ IsLive(q) /\ ~CoversAmount(q) /\ Answer(q, "refused", NoTx)
           \/ ~IsReplayable(n) /\ ~IsReserved(n) /\ Answer(q, "refused", NoTx)
           \/ May("db") /\ Answer(q, "failed", NoTx)
        /\ UNCHANGED <<vars, pending, landed, kernel>>

\* A transaction of the ledger, or nothing when it throws and the handler
\* swallows the error (.catch(() => {})).
Attempt(transaction, possible) ==
    \/ transaction
    \/ ~possible /\ UNCHANGED vars
    \/ May("db") /\ UNCHANGED vars

ExpireReservation(q) ==
    /\ At(q, "expire")
    /\ Attempt(releaseKizunaReservation(req[q].nonce, "expired"),
               IsReserved(req[q].nonce))
    /\ Answer(q, "refused", NoTx)
    /\ UNCHANGED <<pending, landed, kernel>>

InsertPending(q) ==
    /\ At(q, "insert")
    /\ \/ insertSettlement(q, req[q].nonce, "pending") /\ Goto(q, "pay")
       \/ May("db") /\ UNCHANGED vars /\ Goto(q, "catch")
    /\ UNCHANGED <<pending, landed, kernel>>

PayMerchant_FireAndForget(q) ==
    /\ At(q, "pay")
    /\ Goto(q, "finalize")
    /\ pending' = pending \cup {q}
    /\ UNCHANGED <<vars, landed, kernel>>

PayMerchant_FeeTransferThrows(q) ==
    /\ At(q, "pay")
    /\ \/ Goto(q, "finalize")
       \/ Goto(q, "catch")
    /\ landed' = landed \cup {q}
    /\ UNCHANGED <<vars, pending, kernel>>

\* settlePayment and settlePaymentBase pay the merchant from the facilitator's
\* own funds.  They throw before sending (balance insufficient, RPC error), or
\* after sending when the confirmation is not seen in time.
PayMerchant(q) ==
    /\ At(q, "pay")
    /\ \/ /\ Goto(q, "finalize")
          /\ landed' = landed \cup {q}
          /\ UNCHANGED pending
       \/ Goto(q, "catch") /\ UNCHANGED <<pending, landed>>
       \/ /\ May("unconfirmed")
          /\ Goto(q, "catch")
          /\ pending' = pending \cup {q}
          /\ UNCHANGED landed
    /\ UNCHANGED <<vars, kernel>>

\* The chain executes a transfer the facilitator gave up on, or drops it.
ResolveTransfer(q) ==
    /\ q \in pending
    /\ pending' = pending \ {q}
    /\ landed' \in {landed, landed \cup {q}}
    /\ UNCHANGED <<vars, req, kernel>>

-----------------------------------------------------------------------------
(* The handler, after the on-chain transfer *)

Finalize_NotCaught(q) ==
    /\ At(q, "finalize")
    /\ finalizeKizunaSettlement(req[q].nonce, q)
    /\ Goto(q, "billable")
    /\ UNCHANGED <<pending, landed, kernel>>

\* The two ways to fail end alike: the transaction throws, or (as ReadBillable
\* failing does) it commits and the handler does not learn of it.
Finalize(q) ==
    LET n == req[q].nonce
    IN  /\ At(q, "finalize")
        /\ \/ finalizeKizunaSettlement(n, q) /\ Goto(q, "billable")
           \/ ~IsLive(q) /\ UNCHANGED vars /\ Goto(q, "catchPaid")
           \/ May("db") /\ UNCHANGED vars /\ Goto(q, "catchPaid")
        /\ UNCHANGED <<pending, landed, kernel>>

\* getKizunaBillableSettlementEvent, still inside the try block.
ReadBillable(q) ==
    /\ At(q, "billable")
    /\ \/ Goto(q, "commit")
       \/ May("db") /\ Goto(q, "catchPaid")
    /\ UNCHANGED <<vars, pending, landed, kernel>>

KernelOutage_AnswersOk == "ok"

\* What a request answers when the kernel does not confirm the commit.
KernelOutage == IF FailClosed THEN "retry" ELSE "ok"

\* commitKizunaKernelDecision: the kernel commits and answers, or the call fails
\* with or without having been processed.
CommitDecision(q, tx) ==
    LET n == req[q].nonce
    IN  /\ \/ kernel' = kernel \cup {n} /\ Answer(q, "ok", tx)
           \/ /\ May("kernel")
              /\ kernel' \in {kernel, kernel \cup {n}}
              /\ Answer(q, KernelOutage, tx)
        /\ UNCHANGED <<vars, pending, landed>>

CommitSettled(q) == At(q, "commit") /\ CommitDecision(q, q)

\* A read before or after the commit may fail too.
ReplaySettled(q) ==
    /\ At(q, "replay")
    /\ \/ CommitDecision(q, reservations[req[q].nonce].settlement)
       \/ /\ May("db")
          /\ kernel' \in {kernel, kernel \cup {req[q].nonce}}
          /\ Answer(q, "failed", NoTx)
          /\ UNCHANGED <<vars, pending, landed>>

CatchFailed_NoRelease(q) ==
    /\ At(q, "catch") \/ At(q, "catchPaid")
    /\ Attempt(updateSettlementStatus(q, "failed"), q \in DOMAIN settlements)
    /\ Answer(q, "failed", NoTx)
    /\ UNCHANGED <<pending, landed, kernel>>

\* The catch block (catchPaid: settlePayment had returned, onchain is set): mark
\* the settlement failed if it was inserted ...
CatchFailed(q) ==
    /\ \/ At(q, "catch") /\ Goto(q, "release")
       \/ At(q, "catchPaid") /\ Answer(q, "failed", NoTx)
    /\ Attempt(updateSettlementStatus(q, "failed"), q \in DOMAIN settlements)
    /\ UNCHANGED <<pending, landed, kernel>>

CatchRelease_RowOnly(q) ==
    LET n == req[q].nonce
    IN  /\ At(q, "release")
        /\ IsReserved(n)
        /\ reservations' = [reservations EXCEPT
                              ![n] = WithStatus(reservations[n], "released", NoTx)]
        /\ Answer(q, "failed", NoTx)
        /\ UNCHANGED <<lapsed, balances, pools, debts, settlements, fees, billable,
                       repayments, fundingEvents, outbox, pending, landed, kernel>>

\* ... and give the reservation back unless settlePayment returned.
CatchRelease(q) ==
    /\ At(q, "release")
    /\ Attempt(releaseKizunaReservation(req[q].nonce, "released"),
               IsReserved(req[q].nonce))
    /\ Answer(q, "failed", NoTx)
    /\ UNCHANGED <<pending, landed, kernel>>

\* The process dies; a transfer it was waiting for may be on its way.
Crash(q) ==
    /\ May("crash")
    /\ q \in DOMAIN req /\ ~Finished(q)
    /\ Goto(q, "crashed")
    /\ \/ UNCHANGED pending
       \/ At(q, "pay") /\ pending' = pending \cup {q}
    /\ UNCHANGED <<vars, landed, kernel>>

-----------------------------------------------------------------------------
(* The other writers of the ledger *)

Reserve(n) ==
    /\ \E a \in Agent, l \in Lane, p \in Pool, amount \in Amount :
          \E mode \in FundingModes(l) :
             createKizunaReservation(n, a, l, p, amount, mode)
    /\ UNCHANGED handlerVars

Clock(n) == May("lapse") /\ Lapse(n) /\ UNCHANGED handlerVars

InternalRelease(n) ==
    /\ May("release")
    /\ \E status \in {"released", "expired"} : releaseKizunaReservation(n, status)
    /\ UNCHANGED handlerVars

Repay ==
    /\ \E a \in Agent, ref \in Ref, l \in Lane, p \in Pool, amount \in Amount :
          applyKizunaRepayment(a, ref, l, p, amount)
    /\ UNCHANGED handlerVars

Fund ==
    /\ \E a \in Agent, p \in Pool, ref \in Ref, amount \in Amount,
          type \in {"deposit", "withdraw"} : FundingRequest(a, p, ref, type, amount)
    /\ UNCHANGED handlerVars

-----------------------------------------------------------------------------
HandlerStep(q) ==
    \/ ReadReservation(q)
    \/ ExpireReservation(q)
    \/ InsertPending(q)
    \/ PayMerchant(q)
    \/ Finalize(q)
    \/ ReadBillable(q)
    \/ CommitSettled(q)
    \/ ReplaySettled(q)
    \/ CatchFailed(q)
    \/ CatchRelease(q)

SettleNext ==
    \/ \E q \in Request, n \in Nonce, amount \in Amount : Submit(q, n, amount)
    \/ \E q \in Request : HandlerStep(q)
    \/ \E q \in Request : ResolveTransfer(q)
    \/ \E q \in Request : Crash(q)
    \/ \E n \in Nonce : Reserve(n) \/ Clock(n) \/ InternalRelease(n)
    \/ Repay
    \/ Fund

SettleSpec == SettleInit /\ [][SettleNext]_settleVars

\* Node runs every pending continuation, and each awaited call returns or
\* throws: the kernel and Base calls have timeouts, a Solana confirmation ends
\* when its blockhash expires.
Fairness == \A q \in Request : WF_settleVars(HandlerStep(q))

FairSettleSpec == SettleSpec /\ Fairness

-----------------------------------------------------------------------------
(* Properties *)

\* The transactions of concurrent handlers, whatever fails or crashes between
\* them, are a behaviour of the ledger: all that is proved of KizunaLedger holds
\* here.
ImplementsLedger == Spec

\* Every reply that tells a client its payment went through is true: the
\* reservation is consumed by the transaction named, that transfer executed and
\* is billed, and with a fail-closed kernel a success was committed there.  A
\* "retry settle to finalize" reply leaves exactly the state a retry replays.
RepliesAreTrue ==
    \A q \in DOMAIN req :
       LET n == req[q].nonce
       IN  req[q].reply \in {"ok", "retry"} =>
             /\ n \in DOMAIN reservations
             /\ reservations[n].status = "consumed"
             /\ reservations[n].settlement = req[q].tx
             /\ req[q].tx \in landed
             /\ <<n, req[q].tx>> \in billable
             /\ FailClosed /\ req[q].reply = "ok" => n \in kernel

\* Credit is never consumed for a payment that was not made: the reservation a
\* request consumed is for a transfer that executed, of at most what was
\* reserved, and a settlement row reads confirmed only if it consumed one.
ConsumedIsPaid ==
    /\ \A n \in DOMAIN reservations :
          reservations[n].status = "consumed" =>
             LET s == reservations[n].settlement
             IN  /\ s \in landed
                 /\ req[s].nonce = n
                 /\ req[s].amount <= reservations[n].amount
    /\ \A s \in DOMAIN settlements :
          settlements[s].status = "confirmed" =>
             /\ reservations[settlements[s].nonce].status = "consumed"
             /\ reservations[settlements[s].nonce].settlement = s

\* "no unsecured payout path" (ARCHITECTURE.md): once a request is over, the
\* transfer it made has consumed the reservation it was made for.
NoUnsecuredPayout ==
    \A q \in landed :
       Finished(q) =>
          /\ reservations[req[q].nonce].status = "consumed"
          /\ reservations[req[q].nonce].settlement = q

\* A request answered "settlement_failed" left no trace: nothing was paid, its
\* settlement row is not confirmed, and the credit it held is free again.
FailureIsClean ==
    \A q \in DOMAIN req :
       req[q].reply = "failed" =>
          /\ q \notin landed
          /\ q \in DOMAIN settlements => settlements[q].status = "failed"
          /\ ~IsReserved(req[q].nonce)

\* Every request is answered, whatever the ledger, the chain or the kernel do.
EveryRequestAnswered ==
    \A q \in Request : (q \in DOMAIN req) ~> At(q, "done")

\* Nothing sweeps expired reservations; a settle attempt after the expiry does:
\* the credit it finds locked is given back.
RetryFreesExpired ==
    \A q \in Request, n \in Nonce :
       (At(q, "read") /\ req[q].nonce = n /\ IsReserved(n) /\ n \in lapsed)
          ~> (n \in DOMAIN reservations /\ ~IsReserved(n))
=============================================================================
