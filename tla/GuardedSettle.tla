---------------------------- MODULE GuardedSettle ----------------------------
(***************************************************************************)
(* POST /settle for a signed payment and for a session payment (services/  *)
(* x402-facilitator, src/routes/settle.ts): concurrent requests, each a    *)
(* sequence of awaits over the payment_nonce_guard, payment_sessions and   *)
(* settlements tables and the transfer on chain.                           *)
(*                                                                         *)
(* A request is identified with the settlements row it inserts and the     *)
(* transfer it sends.  Three schemes share the code: "session" draws on    *)
(* the payer's delegated allowance, "plain" is paid by the facilitator for *)
(* a signed payment, "authorized" is plain on Base with a transfer the     *)
(* payer authorized (EIP-3009).  A nonce stands for (payer, nonce).        *)
(***************************************************************************)
EXTENDS PaymentSessions

CONSTANTS
    Request,   \* requests, their settlement rows and their transfers
    Nonce,     \* (payer_wallet, nonce) of payment_nonce_guard
    HexNonce,  \* those that are 32 bytes in hexadecimal
    Amount,    \* micro-USDC amounts
    NoTx,      \* SQL NULL in the tx_hash and settlement_id of a guard
    NoToken,   \* of a request that carries no session
    NoBudget   \* of a payment under no challenge

ASSUME AmountAssumption == Amount \subseteq Nat \ {0}
ASSUME HexNonceAssumption == HexNonce \subseteq Nonce
ASSUME NullAssumption ==
    NoTx \notin Request /\ NoToken \notin Token /\ NoBudget \notin Challenge

VARIABLES
    guards,       \* payment_nonce_guard
    settlements,  \* status of the settlements rows
    fees,         \* requests with a fee_ledger row
    req,          \* the handler of each request submitted so far
    pending,      \* transfers sent that may still execute
    landed,       \* transfers executed on chain
    lost          \* transfers whose handler did not see the outcome

settleVars == <<guards, settlements, fees, req, pending, landed, lost>>
guardedVars == <<sessionVars, settleVars>>

-----------------------------------------------------------------------------
Scheme == {"session", "plain", "authorized"}

PC == {"read", "guard", "existing", "budget", "refund", "insert", "link", "pay",
       "confirm", "fee", "setTx", "setTxAgain", "innerCatch", "catch", "release",
       "unguard", "done", "crashed"}

Reply == {"none", "ok", "replayed", "refused", "failed", "error"}

\* by: the request that inserted the row, NoTx if another route did.
Guard == [by: Request \cup {NoTx}, tx: Request \cup {NoTx},
          settlement: Request \cup {NoTx}]

\* holds: the request has claimed its nonce and, in a session, its budget.
Handler == [pc: PC, scheme: Scheme, nonce: Nonce, token: Token \cup {NoToken},
            amount: Amount, holds: BOOLEAN, tx: Request \cup {NoTx}, reply: Reply]

\* The type of the handlers' state.
GuardedTypeOK ==
    /\ SessionsTypeOK
    /\ DOMAIN guards \subseteq Nonce
    /\ guards \in [DOMAIN guards -> Guard]
    /\ DOMAIN settlements \subseteq Request
    /\ settlements \in [DOMAIN settlements -> {"pending", "confirmed", "failed"}]
    /\ fees \subseteq Request
    /\ DOMAIN req \subseteq Request
    /\ req \in [DOMAIN req -> Handler]
    /\ pending \subseteq Request
    /\ landed \subseteq Request
    /\ lost \subseteq Request

GuardedInit ==
    /\ SessionsInit
    /\ guards = [n \in {} |-> NoTx]
    /\ settlements = [q \in {} |-> NoTx]
    /\ fees = {}
    /\ req = [q \in {} |-> NoTx]
    /\ pending = {}
    /\ landed = {}
    /\ lost = {}

-----------------------------------------------------------------------------
(* Helpers *)

At(q, pc) == q \in DOMAIN req /\ req[q].pc = pc

Finished(q) == At(q, "done") \/ At(q, "crashed")

InSession(q) == req[q].scheme = "session"

\* The handler moves on; holds, tx and reply are what it keeps.
Become(q, pc, holds, tx, reply) ==
    req' = [req EXCEPT ![q] =
              [pc |-> pc, scheme |-> req[q].scheme, nonce |-> req[q].nonce,
               token |-> req[q].token, amount |-> req[q].amount,
               holds |-> holds, tx |-> tx, reply |-> reply]]

Goto(q, pc) == Become(q, pc, req[q].holds, NoTx, "none")

Answer(q, reply, tx) == Become(q, "done", req[q].holds, tx, reply)

\* A statement outside every try block throws: Express passes the rejected promise
\* of the handler to errorHandler, which answers; what was claimed stays claimed.
Throws(q) == May("db") /\ Answer(q, "error", NoTx)

-----------------------------------------------------------------------------
(* Claiming the nonce and the budget *)

Submit_ZeroAmount(q, scheme, n, t, amount) ==
    /\ q \notin DOMAIN req
    /\ req' = WithRow(req, q,
                [pc |-> "guard", scheme |-> scheme, nonce |-> n, token |-> t,
                 amount |-> 0, holds |-> FALSE, tx |-> NoTx, reply |-> "none"])
    /\ UNCHANGED <<sessionVars, guards, settlements, fees, pending, landed, lost>>

Submit(q, scheme, n, t, amount) ==
    /\ q \notin DOMAIN req
    /\ (scheme = "session") = (t # NoToken)
    /\ req' = WithRow(req, q,
                [pc |-> IF scheme = "session" THEN "read" ELSE "guard",
                 scheme |-> scheme, nonce |-> n, token |-> t, amount |-> amount,
                 holds |-> FALSE, tx |-> NoTx, reply |-> "none"])
    /\ UNCHANGED <<sessionVars, guards, settlements, fees, pending, landed, lost>>

\* getPaymentSessionByTokenHash and the checks on the row it returns.
SessionAllows(t, amount) ==
    /\ t \in DOMAIN sessions
    /\ MayDraw(t, amount)
    /\ amount <= MaxSingle[sessions[t].challenge]

ReadSession(q) ==
    /\ At(q, "read")
    /\ \/ SessionAllows(req[q].token, req[q].amount) /\ Goto(q, "guard")
       \/ ~SessionAllows(req[q].token, req[q].amount) /\ Answer(q, "refused", NoTx)
       \/ Throws(q)
    /\ UNCHANGED <<sessionVars, guards, settlements, fees, pending, landed, lost>>

ReserveNonce_Upsert(q) ==
    /\ At(q, "guard")
    /\ guards' = WithRow(guards, req[q].nonce,
                         [by |-> q, tx |-> NoTx, settlement |-> NoTx])
    /\ Become(q, IF InSession(q) THEN "budget" ELSE "insert", ~InSession(q), NoTx, "none")
    /\ UNCHANGED <<sessionVars, settlements, fees, pending, landed, lost>>

\* reservePaymentNonce: INSERT ... ON CONFLICT DO NOTHING.  A failing insert is
\* answered in the session scheme only.
ReserveNonce(q) ==
    LET n == req[q].nonce
    IN  /\ At(q, "guard")
        /\ \/ /\ n \notin DOMAIN guards
              /\ guards' = WithRow(guards, n,
                                   [by |-> q, tx |-> NoTx, settlement |-> NoTx])
              /\ Become(q, IF InSession(q) THEN "budget" ELSE "insert",
                        ~InSession(q), NoTx, "none")
           \/ n \in DOMAIN guards /\ Goto(q, "existing") /\ UNCHANGED guards
           \/ InSession(q) /\ May("db") /\ Answer(q, "refused", NoTx) /\ UNCHANGED guards
           \/ ~InSession(q) /\ Throws(q) /\ UNCHANGED guards
        /\ UNCHANGED <<sessionVars, settlements, fees, pending, landed, lost>>

IsSettled(n) == n \in DOMAIN guards /\ guards[n].tx # NoTx

\* getPaymentNonceGuard(...).catch(() => null): a settled nonce is answered from
\* its row, any other is a replay (409).
AnswerExisting(q) ==
    LET n == req[q].nonce
    IN  /\ At(q, "existing")
        /\ \/ IsSettled(n) /\ Answer(q, "ok", guards[n].tx)
           \/ ~IsSettled(n) /\ Answer(q, "replayed", NoTx)
           \/ May("db") /\ Answer(q, "replayed", NoTx)
        /\ UNCHANGED <<sessionVars, guards, settlements, fees, pending, landed, lost>>

\* A failing reservePaymentSessionSpend is answered with the nonce taken.
ReserveBudget(q) ==
    LET t == req[q].token
    IN  /\ At(q, "budget")
        /\ \/ /\ MayDraw(t, req[q].amount)
              /\ reservePaymentSessionSpend(t, req[q].amount)
              /\ Become(q, "insert", TRUE, NoTx, "none")
           \/ ~MayDraw(t, req[q].amount) /\ Goto(q, "refund") /\ UNCHANGED sessions
           \/ Throws(q) /\ UNCHANGED sessions
        /\ UNCHANGED <<challenges, authorizing, guards, settlements, fees, pending,
                       landed, lost>>

\* WHERE payer_wallet = $1 AND nonce = $2 AND tx_hash IS NULL
GuardsWithout(n) ==
    [m \in DOMAIN guards \ (IF IsSettled(n) THEN {} ELSE {n}) |-> guards[m]]

\* deletePaymentNonceGuard(...).catch(() => {})
DeleteGuard(n) ==
    \/ guards' = GuardsWithout(n)
    \/ May("db") /\ UNCHANGED guards

\* The budget was refused: the nonce is given back.
RefuseBudget(q) ==
    /\ At(q, "refund")
    /\ DeleteGuard(req[q].nonce)
    /\ Answer(q, "refused", NoTx)
    /\ UNCHANGED <<sessionVars, settlements, fees, pending, landed, lost>>

-----------------------------------------------------------------------------
(* Paying *)

\* insertSettlement runs inside the try block of the session scheme, before the
\* one of the others.
InsertPending(q) ==
    /\ At(q, "insert")
    /\ \/ /\ settlements' = WithRow(settlements, q, "pending")
          /\ Goto(q, "link")
       \/ InSession(q) /\ May("db") /\ Goto(q, "catch") /\ UNCHANGED settlements
       \/ ~InSession(q) /\ Throws(q) /\ UNCHANGED settlements
    /\ UNCHANGED <<sessionVars, guards, fees, pending, landed, lost>>

\* setPaymentNonceSettlementId(...).catch(() => {}), then the reads that set the
\* fee, which may throw.
LinkSettlement(q) ==
    /\ At(q, "link")
    /\ \/ guards' = [guards EXCEPT ![req[q].nonce].settlement = q]
       \/ May("db") /\ UNCHANGED guards
    /\ \/ Goto(q, "pay")
       \/ May("db") /\ Goto(q, "catch")
    /\ UNCHANGED <<sessionVars, settlements, fees, pending, landed, lost>>

\* The token contract executes an authorization once.  It must carry the nonce of
\* the payment if that is one an authorization can have; else a retry may come with
\* a new one.
Executable(q) ==
    req[q].scheme = "authorized" /\ req[q].nonce \in HexNonce =>
       ~\E o \in landed : /\ req[o].scheme = "authorized"
                          /\ req[o].nonce = req[q].nonce

\* Where a payment that throws is caught: an authorized one has a try block of its
\* own inside that of the handler.
CatchOf(q) == IF req[q].scheme = "authorized" THEN "innerCatch" ELSE "catch"

Pay_FeeTransferThrows(q) ==
    /\ At(q, "pay")
    /\ Executable(q)
    /\ landed' = landed \cup {q}
    /\ Goto(q, "confirm") \/ Goto(q, CatchOf(q))
    /\ UNCHANGED <<sessionVars, guards, settlements, fees, pending, lost>>

\* settleDelegatedUsdcTransfer, settleDelegatedPaymentBase, settlePayment,
\* settlePaymentBase, settleAuthorizedPaymentBase: they return with the transfer
\* confirmed, throw before sending it, or throw after sending it without having
\* seen it confirmed.  (The fee transfer on Base never throws.)
Pay(q) ==
    /\ At(q, "pay")
    /\ \/ /\ Executable(q)
          /\ landed' = landed \cup {q}
          /\ Goto(q, "confirm")
          /\ UNCHANGED <<pending, lost>>
       \/ Goto(q, CatchOf(q)) /\ UNCHANGED <<pending, landed, lost>>
       \/ /\ May("unconfirmed")
          /\ pending' = pending \cup {q}
          /\ lost' = lost \cup {q}
          /\ Goto(q, CatchOf(q))
          /\ UNCHANGED landed
    /\ UNCHANGED <<sessionVars, guards, settlements, fees>>

\* The chain executes a transfer nobody waits for any more, or drops it.
ResolveTransfer(q) ==
    /\ q \in pending
    /\ pending' = pending \ {q}
    /\ \/ Executable(q) /\ landed' = landed \cup {q}
       \/ UNCHANGED landed
    /\ UNCHANGED <<sessionVars, guards, settlements, fees, req, lost>>

-----------------------------------------------------------------------------
(* Recording the payment *)

updateSettlementConfirmed(q) ==
    /\ At(q, "confirm")
    /\ \/ /\ settlements' = [settlements EXCEPT ![q] = "confirmed"]
          /\ Goto(q, "fee")
       \/ May("db") /\ Goto(q, "setTxAgain") /\ UNCHANGED settlements
    /\ UNCHANGED <<sessionVars, guards, fees, pending, landed, lost>>

insertFeeLedger(q) ==
    /\ At(q, "fee")
    /\ \/ fees' = fees \cup {q} /\ Goto(q, "setTx")
       \/ May("db") /\ Goto(q, "setTxAgain") /\ UNCHANGED fees
    /\ UNCHANGED <<sessionVars, guards, settlements, pending, landed, lost>>

\* setPaymentNonceTxHash, and once more if recording failed; the client is told
\* of its payment either way.
SetTxHash(q) ==
    /\ \/ /\ At(q, "setTx") \/ At(q, "setTxAgain")
          /\ guards' = [guards EXCEPT ![req[q].nonce].tx = q]
          /\ Answer(q, "ok", q)
       \/ /\ At(q, "setTx") /\ May("db")
          /\ Goto(q, "setTxAgain")
          /\ UNCHANGED guards
       \/ /\ At(q, "setTxAgain") /\ May("db")
          /\ Answer(q, "ok", q)
          /\ UNCHANGED guards
    /\ UNCHANGED <<sessionVars, settlements, fees, pending, landed, lost>>

-----------------------------------------------------------------------------
(* The catch blocks *)

\* A failed authorized payment gives its nonce back; if the update throws, the
\* handler's own catch block takes over.
InnerCatchFailed(q) ==
    /\ At(q, "innerCatch")
    /\ \/ /\ settlements' = [settlements EXCEPT ![q] = "failed"]
          /\ Goto(q, "unguard")
       \/ May("db") /\ Goto(q, "catch") /\ UNCHANGED settlements
    /\ UNCHANGED <<sessionVars, guards, fees, pending, landed, lost>>

AfterCatch_NoRelease(q) == IF InSession(q) THEN "unguard" ELSE "done"

AfterCatch_DropsGuard(q) == IF InSession(q) THEN "release" ELSE "unguard"

\* What else the handler's catch block undoes: the budget and the nonce of a
\* session payment, nothing of another one.
AfterCatch(q) == IF InSession(q) THEN "release" ELSE "done"

\* updateSettlementStatus(id, 'failed') is not caught: the row stays pending and
\* nothing is undone.
CatchFailed(q) ==
    /\ At(q, "catch")
    /\ \/ /\ settlements' = IF q \in DOMAIN settlements
                            THEN [settlements EXCEPT ![q] = "failed"]
                            ELSE settlements
          /\ Become(q, AfterCatch(q), req[q].holds, NoTx,
                    IF AfterCatch(q) = "done" THEN "failed" ELSE "none")
       \/ q \in DOMAIN settlements /\ Throws(q) /\ UNCHANGED settlements
    /\ UNCHANGED <<sessionVars, guards, fees, pending, landed, lost>>

ReleaseBudget(q) ==
    /\ At(q, "release")
    /\ \/ /\ releasePaymentSessionSpend(req[q].token, req[q].amount)
          /\ Become(q, "unguard", FALSE, NoTx, "none")
       \/ Throws(q) /\ UNCHANGED sessions
    /\ UNCHANGED <<challenges, authorizing, guards, settlements, fees, pending,
                   landed, lost>>

DropGuard(q) ==
    /\ At(q, "unguard")
    /\ \/ /\ guards' = GuardsWithout(req[q].nonce)
          /\ Become(q, "done", FALSE, NoTx, "failed")
       \/ May("db") /\ Answer(q, "failed", NoTx) /\ UNCHANGED guards
    /\ UNCHANGED <<sessionVars, settlements, fees, pending, landed, lost>>

\* The process dies; a transfer it was waiting for may be on its way.
Crash(q) ==
    /\ May("crash")
    /\ q \in DOMAIN req /\ ~Finished(q)
    /\ Goto(q, "crashed")
    /\ \/ UNCHANGED pending
       \/ At(q, "pay") /\ pending' = pending \cup {q}
    /\ UNCHANGED <<sessionVars, guards, settlements, fees, landed, lost>>

\* POST /escrow/create and /privacy/settle take nonces from the same table and
\* never give them back.
TakeNonceElsewhere(n) ==
    /\ n \notin DOMAIN guards
    /\ guards' = WithRow(guards, n, [by |-> NoTx, tx |-> NoTx, settlement |-> NoTx])
    /\ UNCHANGED <<sessionVars, settlements, fees, req, pending, landed, lost>>

-----------------------------------------------------------------------------
HandlerStep(q) ==
    \/ ReadSession(q)
    \/ ReserveNonce(q)
    \/ AnswerExisting(q)
    \/ ReserveBudget(q)
    \/ RefuseBudget(q)
    \/ InsertPending(q)
    \/ LinkSettlement(q)
    \/ Pay(q)
    \/ updateSettlementConfirmed(q)
    \/ insertFeeLedger(q)
    \/ SetTxHash(q)
    \/ InnerCatchFailed(q)
    \/ CatchFailed(q)
    \/ ReleaseBudget(q)
    \/ DropGuard(q)

GuardedNext ==
    \/ SessionStep /\ UNCHANGED settleVars
    \/ \E q \in Request, scheme \in Scheme, n \in Nonce,
          t \in Token \cup {NoToken}, amount \in Amount :
          Submit(q, scheme, n, t, amount)
    \/ \E q \in Request : HandlerStep(q)
    \/ \E q \in Request : ResolveTransfer(q)
    \/ \E q \in Request : Crash(q)
    \/ \E n \in Nonce : TakeNonceElsewhere(n)

GuardedSpec == GuardedInit /\ [][GuardedNext]_guardedVars

-----------------------------------------------------------------------------
(* The promise, and how the tables keep it *)

TokensOf(c) == {t \in DOMAIN sessions : sessions[t].challenge = c}

TokenOf(c) == CHOOSE t \in TokensOf(c) : TRUE

BudgetStatus(c) ==
    LET s == sessions[TokenOf(c)]
    IN  IF TokensOf(c) = {} THEN "unsigned"
        ELSE IF s.revoked \/ s.expired THEN "closed" ELSE "open"

BudgetSpent(c) == IF TokensOf(c) = {} THEN 0 ELSE sessions[TokenOf(c)].spent

Holders == {q \in DOMAIN req : req[q].holds}

BudgetOf(q) == IF InSession(q) THEN sessions[req[q].token].challenge ELSE NoBudget

ClaimOf(q) == [nonce |-> req[q].nonce, account |-> BudgetOf(q), amount |-> req[q].amount]

statusBar == [c \in Challenge |-> BudgetStatus(c)]
spentBar == [c \in Challenge |-> BudgetSpent(c)]
claimsBar == [q \in Holders |-> ClaimOf(q)]

Budget == INSTANCE PaymentBudget WITH
    Payment <- Request,
    Account <- Challenge,
    NoAccount <- NoBudget,
    Limit <- MaxTotal,
    status <- statusBar,
    spent <- spentBar,
    claims <- claimsBar,
    made <- landed

-----------------------------------------------------------------------------
(* Properties *)

\* The handlers implement the payment budget: every transfer was claimed, with
\* its nonce free and its amount within what the payer signed, while the session
\* was neither revoked nor expired, and a claim is undone only for a transfer
\* that was not made or whose outcome was lost.
ImplementsBudget == Budget!Spec

HoldersOf(t) == {q \in Holders : req[q].token = t}

\* A session's spent_micro is exactly what the requests that hold a part of it
\* hold: no failure path returns a part twice, loses one, or is saved by the
\* clamp at 0 of releasePaymentSessionSpend.
SpentMatchesHolders ==
    \A t \in DOMAIN sessions :
       sessions[t].spent = SumFunction([q \in HoldersOf(t) |-> req[q].amount])

PaidUnder(c) == {q \in landed \ lost : InSession(q) /\ BudgetOf(q) = c}

\* What leaves a payer's wallet under one signed challenge never exceeds its
\* maxTotalMicro, however many authorize and settle requests race, as long as
\* the handler saw what became of its transfers.
WithinSignedCap ==
    \A c \in Challenge :
       SumFunction([q \in PaidUnder(c) |-> req[q].amount]) <= MaxTotal[c]

\* A signed challenge opens at most one session (two authorize requests read it
\* before either marks it used).
OneSessionPerChallenge ==
    \A t, u \in DOMAIN sessions :
       sessions[t].challenge = sessions[u].challenge => t = u

\* Every answered success names a transfer that executed for this nonce, and two
\* of them for one nonce name the same: retries are idempotent, also after a
\* payment whose outcome was lost.
RepliesAgree ==
    \A q \in DOMAIN req :
       req[q].reply = "ok" =>
          /\ req[q].tx \in landed
          /\ req[req[q].tx].nonce = req[q].nonce
          /\ \A o \in DOMAIN req :
                req[o].reply = "ok" /\ req[o].nonce = req[q].nonce =>
                   req[o].tx = req[q].tx

\* "Append .<nonce> to the token for idempotency" (src/routes/session.ts): at
\* most one session transfer executes for a nonce.
SessionNoncePaysOnce ==
    \A q, o \in {x \in landed : InSession(x)} :
       req[q].nonce = req[o].nonce => q = o

\* Only a transfer whose outcome was lost, under a scheme that then gives the
\* nonce back, can be paid again.
SecondPaymentHasCause ==
    \A q, o \in landed :
       q # o /\ req[q].nonce = req[o].nonce =>
          \E x \in {q, o} : x \in lost /\ req[x].scheme # "plain"

\* A request answered anything but success has paid nothing it knows of and its
\* settlement row is not confirmed; it was marked failed, and a session's budget
\* given back, unless the catch block itself threw.  What such a request still
\* holds, it holds under its own unsettled guard row, so that no retry of the nonce
\* claims or pays beside it.
RefusalIsClean ==
    \A q \in DOMAIN req :
       At(q, "done") /\ req[q].reply # "ok" =>
          /\ q \notin landed \ lost
          /\ q \in DOMAIN settlements =>
                \/ settlements[q] = "failed"
                \/ settlements[q] = "pending" /\ req[q].reply = "error"
          /\ InSession(q) /\ req[q].holds => req[q].reply = "error"
          /\ req[q].holds =>
                /\ req[q].nonce \in DOMAIN guards
                /\ guards[req[q].nonce].by = q
                /\ guards[req[q].nonce].tx = NoTx

=============================================================================
