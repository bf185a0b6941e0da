------------------------- MODULE GuardedBudgetProofs -------------------------
(***************************************************************************)
(* The settle and session handlers implement the payment budget: every     *)
(* step of theirs is a step of PaymentBudget under the refinement mapping  *)
(* of GuardedSettle, or a stuttering step.  The counters of the sessions   *)
(* add up: to what the requests hold, and to no less than what was paid.   *)
(***************************************************************************)
EXTENDS GuardedSettleProofs, SumTheorems

-----------------------------------------------------------------------------
(* The refinement mapping *)

RowStatus(t) ==
    IF sessions[t].revoked \/ sessions[t].expired THEN "closed" ELSE "open"

\* The account of a challenge is the row of its only session.
BarsAt ==
    /\ \A t \in DOMAIN sessions :
          LET c == sessions[t].challenge
          IN  c \in Challenge /\ statusBar[c] = RowStatus(t) /\ spentBar[c] = sessions[t].spent
    /\ \A c \in Challenge :
          (\A t \in DOMAIN sessions : sessions[t].challenge # c) =>
             statusBar[c] = "unsigned" /\ spentBar[c] = 0

\* OneSessionPerChallenge makes the choice of TokenOf the only one.
LEMMA BarsHold ==
    ASSUME SessionsInv
    PROVE  BarsAt
  <1>1. ASSUME NEW t \in DOMAIN sessions
        PROVE  LET c == sessions[t].challenge
               IN  /\ c \in Challenge
                   /\ statusBar[c] = RowStatus(t)
                   /\ spentBar[c] = sessions[t].spent
    <2> DEFINE c == sessions[t].challenge
    <2>1. c \in Challenge
      BY DEF SessionsInv, SessionsTypeOK, SessionRow
    <2>2. TokensOf(c) = {t}
      BY DEF TokensOf, SessionsInv, OneSessionPerChallenge
    <2>3. TokenOf(c) = t
      BY <2>2 DEF TokenOf
    <2>4. QED
      BY <2>1, <2>2, <2>3 DEF statusBar, spentBar, BudgetStatus, BudgetSpent, RowStatus
  <1>2. ASSUME NEW c \in Challenge, \A t \in DOMAIN sessions : sessions[t].challenge # c
        PROVE  statusBar[c] = "unsigned" /\ spentBar[c] = 0
    <2>1. TokensOf(c) = {}
      BY <1>2 DEF TokensOf
    <2>2. QED
      BY <2>1 DEF statusBar, spentBar, BudgetStatus, BudgetSpent
  <1>3. QED
    BY <1>1, <1>2 DEF BarsAt

\* The same after a step.
LEMMA BarsHoldNext ==
    ASSUME SessionsInv'
    PROVE  BarsAt'
  <1>1. ASSUME NEW t \in DOMAIN sessions'
        PROVE  LET c == sessions'[t].challenge
               IN  /\ c \in Challenge
                   /\ statusBar'[c] = RowStatus(t)'
                   /\ spentBar'[c] = sessions'[t].spent
    <2>1. PICK c \in Challenge : c = sessions'[t].challenge
      BY DEF SessionsInv, SessionsTypeOK, SessionRow
    <2>2. TokensOf(c)' = {t}
      BY <2>1 DEF TokensOf, SessionsInv, OneSessionPerChallenge
    <2>3. TokenOf(c)' = t
      BY <2>2 DEF TokenOf
    <2>4. QED
      BY <2>1, <2>2, <2>3 DEF statusBar, spentBar, BudgetStatus, BudgetSpent, RowStatus
  <1>2. ASSUME NEW c \in Challenge, \A t \in DOMAIN sessions' : sessions'[t].challenge # c
        PROVE  statusBar'[c] = "unsigned" /\ spentBar'[c] = 0
    <2>1. TokensOf(c)' = {}
      BY <1>2 DEF TokensOf
    <2>2. QED
      BY <2>1 DEF statusBar, spentBar, BudgetStatus, BudgetSpent
  <1>3. QED
    BY <1>1, <1>2 DEF BarsAt

\* The accounts are functions on the challenges.
LEMMA BarDomains ==
    /\ statusBar = [c \in Challenge |-> statusBar[c]]
    /\ spentBar = [c \in Challenge |-> spentBar[c]]
    /\ statusBar' = [c \in Challenge |-> statusBar'[c]]
    /\ spentBar' = [c \in Challenge |-> spentBar'[c]]
  BY DEF statusBar, spentBar

\* Steps that leave the session rows alone leave the accounts alone.
LEMMA BarsUnchanged ==
    ASSUME UNCHANGED sessions
    PROVE  UNCHANGED <<statusBar, spentBar>>
  BY DEF statusBar, spentBar, BudgetStatus, BudgetSpent, TokensOf, TokenOf

-----------------------------------------------------------------------------
(* Claims *)

\* A claim depends on the request and on the challenge of its session only.
LEMMA ClaimStable ==
    ASSUME GuardedInv, SessionsKept, NEW o \in DOMAIN req, req[o].holds,
           req'[o].scheme = req[o].scheme, req'[o].nonce = req[o].nonce,
           req'[o].token = req[o].token, req'[o].amount = req[o].amount
    PROVE  ClaimOf(o)' = ClaimOf(o)
  <1>1. InSession(o) => req[o].token \in DOMAIN sessions
    BY InvFacts DEF ClaimSound
  <1>2. BudgetOf(o)' = BudgetOf(o)
    BY <1>1 DEF BudgetOf, InSession, SessionsKept
  <1>3. QED
    BY <1>2 DEF ClaimOf

\* What a move of one request does to the claims.
LEMMA ClaimsMove ==
    ASSUME GuardedInv, SessionsKept, NEW q \in DOMAIN req,
           NEW pc, NEW holds \in BOOLEAN, NEW tx, NEW reply, Moved(q, pc, holds, tx, reply)
    PROVE  /\ Holders' = IF holds THEN Holders \cup {q} ELSE Holders \ {q}
           /\ \A o \in Holders : ClaimOf(o)' = ClaimOf(o)
           /\ holds = req[q].holds => claimsBar' = claimsBar
  <1>1. Holders' = IF holds THEN Holders \cup {q} ELSE Holders \ {q}
    BY DEF Holders, Moved
  <1>2. \A o \in Holders : ClaimOf(o)' = ClaimOf(o)
    BY ClaimStable DEF Holders, Moved
  <1>3. holds = req[q].holds => Holders' = Holders
    BY <1>1 DEF Holders
  <1>4. QED
    BY <1>1, <1>2, <1>3 DEF claimsBar

\* Steps that move no handler keep the claims.
LEMMA ClaimsKept ==
    ASSUME GuardedInv, SessionsKept, UNCHANGED req
    PROVE  claimsBar' = claimsBar
  <1>1. Holders' = Holders
    BY DEF Holders
  <1>2. \A o \in Holders : ClaimOf(o)' = ClaimOf(o)
    BY ClaimStable DEF Holders
  <1>3. QED
    BY <1>1, <1>2 DEF claimsBar

-----------------------------------------------------------------------------
(* Steps that are no step of the budget *)

BudgetStep == Budget!Next \/ UNCHANGED Budget!budgetVars

\* A step that keeps the rows, the claims and the transfers stutters.
LEMMA Stutters ==
    ASSUME UNCHANGED <<sessions, landed, lost>>, claimsBar' = claimsBar
    PROVE  BudgetStep
  BY BarsUnchanged DEF BudgetStep, Budget!budgetVars

\* So does a handler's step that neither claims nor gives back nor pays.
LEMMA QuietStutters ==
    ASSUME GuardedInv, NEW q \in DOMAIN req, NEW pc, NEW tx, NEW reply,
           Moved(q, pc, req[q].holds, tx, reply),
           UNCHANGED <<sessions, landed, lost>>
    PROVE  BudgetStep
  <1>1. SessionsKept /\ req[q].holds \in BOOLEAN
    BY InvFacts DEF SessionsKept
  <1>2. claimsBar' = claimsBar
    BY <1>1, ClaimsMove
  <1>3. QED
    BY <1>2, Stutters

\* Taking a claim adds the payment to those that hold one, so it is a step.
LEMMA TakeIsStep ==
    ASSUME NEW q \in Request, NEW n \in Nonce, NEW a \in Challenge \cup {NoBudget},
           NEW x \in Amount, Budget!Take(q, n, a, x)
    PROVE  BudgetStep
  <1>1. q \notin DOMAIN claimsBar /\ DOMAIN claimsBar' = DOMAIN claimsBar \cup {q}
    BY DEF Budget!Take
  <1>2. q \in Budget!Taken
    BY <1>1 DEF Budget!Taken
  <1>3. QED
    BY <1>2 DEF BudgetStep, Budget!Next

\* Giving one back removes it.
LEMMA GiveBackIsStep ==
    ASSUME NEW q \in Request, Budget!GiveBack(q)
    PROVE  BudgetStep
  <1>1. q \in DOMAIN claimsBar /\ DOMAIN claimsBar' = DOMAIN claimsBar \ {q}
    BY DEF Budget!GiveBack
  <1>2. q \in Budget!GivenBack
    BY <1>1 DEF Budget!GivenBack
  <1>3. QED
    BY <1>2 DEF BudgetStep, Budget!Next

-----------------------------------------------------------------------------
(* Sessions: opening and closing an account *)

\* insertPaymentSession opens the account of the challenge the payer signed.
LEMMA OpenStep ==
    ASSUME GuardedInv, NEW t, insertPaymentSession(t), UNCHANGED settleVars
    PROVE  BudgetStep
  <1> DEFINE c == authorizing[t].challenge
  <1>1. SessionsInv /\ UNCHANGED <<req, landed, lost>>
    BY DEF GuardedInv, settleVars
  <1>2. /\ SessionsInv' /\ SessionsKept /\ c \in Challenge
        /\ t \notin DOMAIN sessions
        /\ DOMAIN sessions' = DOMAIN sessions \cup {t}
        /\ \A u \in DOMAIN sessions : sessions'[u] = sessions[u]
        /\ sessions'[t] = [challenge |-> c, spent |-> 0, revoked |-> FALSE, expired |-> FALSE]
        /\ \A u \in DOMAIN sessions : sessions[u].challenge # c
    BY <1>1, InsertSessionSafe
  <1>3. BarsAt /\ BarsAt'
    BY <1>1, <1>2, BarsHold, BarsHoldNext
  <1>4. statusBar[c] = "unsigned" /\ spentBar[c] = 0
    BY <1>2, <1>3 DEF BarsAt
  <1>5. statusBar'[c] = "open" /\ spentBar'[c] = 0
    BY <1>2, <1>3 DEF BarsAt, RowStatus
  <1>6. \A d \in Challenge : d # c => statusBar'[d] = statusBar[d] /\ spentBar'[d] = spentBar[d]
    <2> SUFFICES ASSUME NEW d \in Challenge, d # c
                 PROVE  statusBar'[d] = statusBar[d] /\ spentBar'[d] = spentBar[d]
      OBVIOUS
    <2>1. CASE \A u \in DOMAIN sessions : sessions[u].challenge # d
      BY <1>2, <1>3, <2>1 DEF BarsAt
    <2>2. CASE \E u \in DOMAIN sessions : sessions[u].challenge = d
      <3>1. PICK u \in DOMAIN sessions : sessions[u].challenge = d
        BY <2>2
      <3>2. u \in DOMAIN sessions' /\ sessions'[u] = sessions[u]
        BY <1>2
      <3>3. QED
        BY <1>3, <3>1, <3>2 DEF BarsAt, RowStatus
    <2>3. QED
      BY <2>1, <2>2
  <1>7. claimsBar' = claimsBar
    BY <1>1, <1>2, ClaimsKept
  <1> HIDE DEF c
  <1>8. statusBar' = [statusBar EXCEPT ![c] = "open"] /\ spentBar' = spentBar
    BY <1>4, <1>5, <1>6, BarDomains
  <1>9. Budget!Open(c)
    BY <1>1, <1>4, <1>7, <1>8 DEF Budget!Open
  <1>10. QED
    BY <1>2, <1>9 DEF BudgetStep, Budget!Next

NextStatus(t) ==
    IF sessions'[t].revoked \/ sessions'[t].expired THEN "closed" ELSE "open"

\* A row that keeps its challenge moves the account of that challenge only.
LEMMA RowBars ==
    ASSUME SessionsInv, SessionsInv', NEW t \in DOMAIN sessions,
           DOMAIN sessions' = DOMAIN sessions,
           \A u \in DOMAIN sessions : u # t => sessions'[u] = sessions[u],
           sessions'[t].challenge = sessions[t].challenge
    PROVE  LET c == sessions[t].challenge
           IN  /\ c \in Challenge
               /\ statusBar[c] = RowStatus(t) /\ spentBar[c] = sessions[t].spent
               /\ statusBar'[c] = NextStatus(t) /\ spentBar'[c] = sessions'[t].spent
               /\ statusBar' = [statusBar EXCEPT ![c] = NextStatus(t)]
               /\ spentBar' = [spentBar EXCEPT ![c] = sessions'[t].spent]
  <1> DEFINE c == sessions[t].challenge
  <1>1. BarsAt /\ BarsAt'
    BY BarsHold, BarsHoldNext
  <1>2. /\ c \in Challenge
        /\ statusBar[c] = RowStatus(t) /\ spentBar[c] = sessions[t].spent
    BY <1>1 DEF BarsAt
  <1>3. statusBar'[c] = NextStatus(t) /\ spentBar'[c] = sessions'[t].spent
    BY <1>1 DEF BarsAt, RowStatus, NextStatus
  <1>4. \A d \in Challenge : d # c => statusBar'[d] = statusBar[d] /\ spentBar'[d] = spentBar[d]
    <2> SUFFICES ASSUME NEW d \in Challenge, d # c
                 PROVE  statusBar'[d] = statusBar[d] /\ spentBar'[d] = spentBar[d]
      OBVIOUS
    <2>1. CASE \A u \in DOMAIN sessions : sessions[u].challenge # d
      BY <1>1, <2>1 DEF BarsAt
    <2>2. CASE \E u \in DOMAIN sessions : sessions[u].challenge = d
      <3>1. PICK u \in DOMAIN sessions : sessions[u].challenge = d
        BY <2>2
      <3>2. u \in DOMAIN sessions' /\ sessions'[u] = sessions[u]
        BY <3>1
      <3>3. QED
        BY <1>1, <3>1, <3>2 DEF BarsAt, RowStatus
    <2>3. QED
      BY <2>1, <2>2
  <1> HIDE DEF c
  <1>5. /\ statusBar' = [statusBar EXCEPT ![c] = NextStatus(t)]
        /\ spentBar' = [spentBar EXCEPT ![c] = sessions'[t].spent]
    BY <1>2, <1>3, <1>4, BarDomains
  <1>6. QED
    BY <1>2, <1>3, <1>5 DEF c

\* Revoking a session or passing its expiry closes the account; revoking an expired
\* one changes nothing.
LEMMA CloseStep ==
    ASSUME GuardedInv, NEW t, revokePaymentSession(t) \/ SessionExpires(t),
           UNCHANGED settleVars
    PROVE  BudgetStep
  <1> DEFINE c == sessions[t].challenge
  <1>1. SessionsInv /\ UNCHANGED <<req, landed, lost>>
    BY DEF GuardedInv, settleVars
  <1>2. /\ SessionsInv' /\ SessionsKept
        /\ t \in DOMAIN sessions
        /\ DOMAIN sessions' = DOMAIN sessions
        /\ \A u \in DOMAIN sessions : u # t => sessions'[u] = sessions[u]
        /\ sessions'[t].challenge = sessions[t].challenge
        /\ sessions'[t].spent = sessions[t].spent
        /\ sessions'[t].revoked \/ sessions'[t].expired
    BY <1>1, CloseSafe
  <1>3. /\ c \in Challenge
        /\ statusBar[c] = RowStatus(t) /\ spentBar[c] = sessions[t].spent
        /\ statusBar' = [statusBar EXCEPT ![c] = NextStatus(t)]
        /\ spentBar' = [spentBar EXCEPT ![c] = sessions'[t].spent]
    BY <1>1, <1>2, RowBars
  <1>4. NextStatus(t) = "closed"
    BY <1>2 DEF NextStatus
  <1>5. claimsBar' = claimsBar
    BY <1>1, <1>2, ClaimsKept
  <1> HIDE DEF c
  <1>6. spentBar' = spentBar
    BY <1>2, <1>3, BarDomains
  <1>7. CASE RowStatus(t) = "open"
    <2>1. Budget!Close(c)
      BY <1>1, <1>3, <1>4, <1>5, <1>6, <1>7 DEF Budget!Close
    <2>2. QED
      BY <1>3, <2>1 DEF BudgetStep, Budget!Next
  <1>8. CASE RowStatus(t) = "closed"
    <2>1. statusBar' = statusBar
      BY <1>3, <1>4, <1>8, BarDomains
    <2>2. QED
      BY <1>1, <1>5, <1>6, <2>1 DEF BudgetStep, Budget!budgetVars
  <1>9. QED
    BY <1>7, <1>8 DEF RowStatus

\* The session routes open and close accounts and do nothing else to the budget.
LEMMA SessionBudget ==
    ASSUME GuardedInv, SessionStep, UNCHANGED settleVars
    PROVE  BudgetStep
  <1>1. SessionsKept /\ UNCHANGED <<req, landed, lost>>
    BY SessionStepSafe DEF GuardedInv, settleVars
  <1>2. CASE UNCHANGED sessions
    BY <1>1, <1>2, ClaimsKept, Stutters
  <1>3. CASE \E t \in Token : insertPaymentSession(t)
    BY <1>3, OpenStep
  <1>4. CASE \E t \in Token : revokePaymentSession(t) \/ SessionExpires(t)
    BY <1>4, CloseStep
  <1>5. QED
    BY <1>2, <1>3, <1>4
       DEF SessionStep, insertSessionChallenge, ChallengeExpires, BeginAuthorize,
           CheckAllowance, markSessionChallengeUsed, AuthorizeAborts

-----------------------------------------------------------------------------
(* Taking a claim *)

\* A request that owns its nonce, or finds it free, is the only one to claim it.
LEMMA TakeClaim ==
    ASSUME GuardedInv, SessionsKept, NEW q \in DOMAIN req, ~req[q].holds,
           req[q].pc \in Unclaimed,
           req[q].nonce \notin DOMAIN guards \/ guards[req[q].nonce].by = q,
           NEW pc, NEW tx, NEW reply, Moved(q, pc, TRUE, tx, reply)
    PROVE  /\ q \notin DOMAIN claimsBar \cup landed
           /\ Budget!Unclaimed(req[q].nonce)
           /\ claimsBar' = [o \in DOMAIN claimsBar \cup {q} |->
                              IF o = q THEN ClaimOf(q)' ELSE claimsBar[o]]
  <1>1. DOMAIN claimsBar = Holders /\ \A o \in Holders : claimsBar[o] = ClaimOf(o)
    BY DEF claimsBar
  <1>2. q \notin DOMAIN claimsBar \cup landed
    BY <1>1, InvFacts DEF Holders, MoneySound, Unpaid
  <1>3. Budget!Unclaimed(req[q].nonce)
    <2> SUFFICES ASSUME NEW o \in Holders, req[o].nonce = req[q].nonce
                 PROVE  FALSE
      BY <1>1 DEF Budget!Unclaimed, ClaimOf
    <2>1. o \in DOMAIN req /\ Owns(o)
      BY InvFacts DEF Holders, ClaimSound
    <2>2. o = q
      BY <2>1 DEF Owns
    <2>3. QED
      BY <2>2 DEF Holders
  <1>4. Holders' = Holders \cup {q} /\ \A o \in Holders : ClaimOf(o)' = ClaimOf(o)
    BY ClaimsMove
  <1>5. claimsBar' = [o \in DOMAIN claimsBar \cup {q} |->
                        IF o = q THEN ClaimOf(q)' ELSE claimsBar[o]]
    BY <1>1, <1>2, <1>4 DEF claimsBar
  <1>6. QED
    BY <1>2, <1>3, <1>5

\* reservePaymentNonce claims for a payment under no session.
LEMMA ReserveNonceBudget ==
    ASSUME GuardedInv, NEW q \in Request, ReserveNonce(q)
    PROVE  BudgetStep
  <1> DEFINE n == req[q].nonce
  <1>1. /\ q \in DOMAIN req /\ req[q].pc = "guard"
        /\ UNCHANGED <<sessionVars, settlements, fees, pending, landed, lost>>
        /\ UNCHANGED sessions
    BY DEF ReserveNonce, At, sessionVars
  <1>2. /\ GuardedTypeOK /\ ClaimSound(q) /\ n \in Nonce /\ req[q].amount \in Amount
    BY <1>1, InvFacts
  <1>3. ~req[q].holds /\ req[q].pc \in Unclaimed
    BY <1>1, <1>2 DEF ClaimSound, Unclaimed
  <1>4. CASE /\ n \notin DOMAIN guards
             /\ Become(q, IF InSession(q) THEN "budget" ELSE "insert",
                       ~InSession(q), NoTx, "none")
    <2>1. CASE InSession(q)
      <3>1. Become(q, "budget", FALSE, NoTx, "none")
        BY <1>4, <2>1
      <3>2. Moved(q, "budget", FALSE, NoTx, "none")
        BY <1>1, <1>2, <3>1, GotoMoves DEF PC, Reply
      <3>3. FALSE = req[q].holds
        BY <1>1, <1>3, InvFacts
      <3>4. QED
        BY <1>1, <3>2, <3>3, QuietStutters
    <2>2. CASE ~InSession(q)
      <3>1. Become(q, "insert", TRUE, NoTx, "none")
        BY <1>4, <2>2
      <3>2. Moved(q, "insert", TRUE, NoTx, "none")
        BY <1>1, <1>2, <3>1, GotoMoves DEF PC, Reply
      <3>3. SessionsKept /\ UNCHANGED <<statusBar, spentBar>>
        BY <1>1, BarsUnchanged DEF SessionsKept
      <3>4. /\ q \notin DOMAIN claimsBar \cup landed
            /\ Budget!Unclaimed(n)
            /\ claimsBar' = [o \in DOMAIN claimsBar \cup {q} |->
                               IF o = q THEN ClaimOf(q)' ELSE claimsBar[o]]
        BY <1>1, <1>3, <1>4, <3>2, <3>3, TakeClaim
      <3>5. ClaimOf(q)' = Budget!Claim(n, NoBudget, req[q].amount)
        BY <2>2, <3>2 DEF ClaimOf, BudgetOf, Moved, Budget!Claim
      <3>6. spentBar' = [b \in Challenge |-> IF b = NoBudget
                                             THEN spentBar[NoBudget] + req[q].amount
                                             ELSE spentBar[b]]
        BY <3>3, BarDomains, NullAssumption
      <3>7. Budget!Take(q, n, NoBudget, req[q].amount)
        BY <1>1, <3>3, <3>4, <3>5, <3>6 DEF Budget!Take
      <3>8. QED
        BY <1>2, <3>7, TakeIsStep
    <2>3. QED
      BY <2>1, <2>2
  <1>5. CASE Goto(q, "existing")
    <2>1. Moved(q, "existing", req[q].holds, NoTx, "none")
      BY <1>1, <1>2, <1>5, GotoMoves DEF PC
    <2>2. QED
      BY <1>1, <2>1, QuietStutters
  <1>6. CASE Answer(q, "refused", NoTx)
    <2>1. Moved(q, "done", req[q].holds, NoTx, "refused")
      BY <1>1, <1>2, <1>6, GotoMoves DEF Reply
    <2>2. QED
      BY <1>1, <2>1, QuietStutters
  <1>7. CASE Throws(q)
    <2>1. Moved(q, "done", req[q].holds, NoTx, "error")
      BY <1>1, <1>2, <1>7, GotoMoves
    <2>2. QED
      BY <1>1, <2>1, QuietStutters
  <1>8. QED
    BY <1>4, <1>5, <1>6, <1>7 DEF ReserveNonce

\* reservePaymentSessionSpend claims for a session payment, from an open account and
\* within its limit.
LEMMA ReserveBudgetBudget ==
    ASSUME GuardedInv, NEW q \in Request, ReserveBudget(q)
    PROVE  BudgetStep
  <1> DEFINE n == req[q].nonce
             t == req[q].token
             x == req[q].amount
             c == sessions[t].challenge
  <1>1. /\ q \in DOMAIN req /\ req[q].pc = "budget"
        /\ UNCHANGED <<challenges, authorizing, landed, lost>>
    BY DEF ReserveBudget, At
  <1>2. /\ GuardedTypeOK /\ SessionsInv /\ ClaimSound(q) /\ n \in Nonce /\ x \in Amount
    BY <1>1, InvFacts
  <1>3. /\ ~req[q].holds /\ req[q].pc \in Unclaimed /\ Owns(q)
        /\ InSession(q) /\ t \in DOMAIN sessions
    BY <1>1, <1>2 DEF ClaimSound, Unclaimed, Owning
  <1>4. CASE /\ MayDraw(t, x)
             /\ sessions' = WithSpent(t, sessions[t].spent + x)
             /\ Become(q, "insert", TRUE, NoTx, "none")
    <2>1. Moved(q, "insert", TRUE, NoTx, "none")
      BY <1>1, <1>2, <1>4, GotoMoves DEF PC, Reply
    <2>2. sessions[t].spent \in Nat /\ x \in Nat /\ sessions[t].spent + x \in Nat
      BY <1>2, <1>3, AmountAssumption DEF SessionsInv, SessionsTypeOK, SessionRow
    <2>3. /\ SessionsInv' /\ SessionsKept
          /\ DOMAIN sessions' = DOMAIN sessions
          /\ \A u \in DOMAIN sessions : u # t => sessions'[u] = sessions[u]
          /\ sessions'[t].challenge = sessions[t].challenge
          /\ sessions'[t].spent = sessions[t].spent + x
          /\ sessions'[t].revoked = sessions[t].revoked
          /\ sessions'[t].expired = sessions[t].expired
      BY <1>1, <1>2, <1>3, <1>4, <2>2, SpentSafe
    <2>4. /\ c \in Challenge
          /\ statusBar[c] = RowStatus(t) /\ spentBar[c] = sessions[t].spent
          /\ statusBar' = [statusBar EXCEPT ![c] = NextStatus(t)]
          /\ spentBar' = [spentBar EXCEPT ![c] = sessions'[t].spent]
      BY <1>2, <1>3, <2>3, RowBars
    <2>5. RowStatus(t) = "open" /\ NextStatus(t) = "open"
      BY <1>4, <2>3 DEF RowStatus, NextStatus, MayDraw
    <2>6. spentBar[c] + x <= MaxTotal[c]
      BY <1>4, <2>4 DEF MayDraw
    <2>7. /\ q \notin DOMAIN claimsBar \cup landed
          /\ Budget!Unclaimed(n)
          /\ claimsBar' = [o \in DOMAIN claimsBar \cup {q} |->
                             IF o = q THEN ClaimOf(q)' ELSE claimsBar[o]]
      <3>1. guards[n].by = q
        BY <1>3 DEF Owns
      <3>2. QED
        BY <1>1, <1>3, <2>1, <2>3, <3>1, TakeClaim
    <2>8. ClaimOf(q)' = Budget!Claim(n, c, x)
      BY <1>3, <2>1, <2>3 DEF ClaimOf, BudgetOf, Moved, Budget!Claim
    <2> HIDE DEF c
    <2>9. statusBar' = statusBar
      BY <2>4, <2>5, BarDomains
    <2>10. spentBar' = [b \in Challenge |-> IF b = c THEN spentBar[c] + x ELSE spentBar[b]]
      BY <2>3, <2>4, BarDomains
    <2>11. Budget!Take(q, n, c, x)
      BY <1>1, <2>4, <2>5, <2>6, <2>7, <2>8, <2>9, <2>10 DEF Budget!Take
    <2>12. QED
      BY <1>2, <2>4, <2>11, TakeIsStep
  <1>5. CASE Goto(q, "refund") /\ UNCHANGED sessions
    <2>1. Moved(q, "refund", req[q].holds, NoTx, "none")
      BY <1>1, <1>2, <1>5, GotoMoves DEF PC
    <2>2. QED
      BY <1>1, <1>5, <2>1, QuietStutters
  <1>6. CASE Throws(q) /\ UNCHANGED sessions
    <2>1. Moved(q, "done", req[q].holds, NoTx, "error")
      BY <1>1, <1>2, <1>6, GotoMoves
    <2>2. QED
      BY <1>1, <1>6, <2>1, QuietStutters
  <1>7. QED
    BY <1>4, <1>5, <1>6 DEF ReserveBudget, reservePaymentSessionSpend

-----------------------------------------------------------------------------
(* Paying *)

\* Pay makes the payment, does nothing, or loses sight of it, always under a claim.
LEMMA PayBudget ==
    ASSUME GuardedInv, NEW q \in Request, Pay(q)
    PROVE  BudgetStep
  <1>1. /\ q \in DOMAIN req /\ req[q].pc = "pay" /\ req[q].pc \in Claimed
        /\ UNCHANGED sessions
    BY DEF Pay, At, Claimed, sessionVars
  <1>2. GuardedTypeOK /\ req[q].holds /\ req[q].holds \in BOOLEAN
    BY <1>1, ClaimedFacts, InvFacts
  <1>3. q \in DOMAIN claimsBar
    BY <1>1, <1>2 DEF claimsBar, Holders
  <1>4. SessionsKept /\ UNCHANGED <<statusBar, spentBar>>
    BY <1>1, BarsUnchanged DEF SessionsKept
  <1>5. CASE landed' = landed \cup {q} /\ Goto(q, "confirm") /\ UNCHANGED <<pending, lost>>
    <2>1. Moved(q, "confirm", req[q].holds, NoTx, "none")
      BY <1>1, <1>2, <1>5, GotoMoves DEF PC
    <2>2. claimsBar' = claimsBar
      BY <1>1, <1>2, <1>4, <2>1, ClaimsMove
    <2>3. Budget!Make(q)
      BY <1>3, <1>4, <1>5, <2>2 DEF Budget!Make
    <2>4. QED
      BY <2>3 DEF BudgetStep, Budget!Next
  <1>6. ASSUME Goto(q, CatchOf(q)), UNCHANGED landed,
               UNCHANGED lost \/ lost' = lost \cup {q}
        PROVE  BudgetStep
    <2>1. CatchOf(q) \in PC
      BY DEF CatchOf, PC
    <2>2. Moved(q, CatchOf(q), req[q].holds, NoTx, "none")
      BY <1>1, <1>2, <1>6, <2>1, GotoMoves
    <2>3. claimsBar' = claimsBar
      BY <1>1, <1>2, <1>4, <2>2, ClaimsMove
    <2>4. CASE UNCHANGED lost
      BY <1>1, <1>6, <2>3, <2>4, Stutters
    <2>5. CASE lost' = lost \cup {q}
      <3>1. Budget!Lose(q)
        BY <1>3, <1>4, <1>6, <2>3, <2>5 DEF Budget!Lose
      <3>2. QED
        BY <3>1 DEF BudgetStep, Budget!Next
    <2>6. QED
      BY <1>6, <2>4, <2>5
  <1>7. QED
    BY <1>5, <1>6 DEF Pay

\* A transfer that executes when nobody waits for it is still claimed, or was lost.
LEMMA ResolveBudget ==
    ASSUME GuardedInv, NEW q \in Request, ResolveTransfer(q)
    PROVE  BudgetStep
  <1>1. q \in pending /\ UNCHANGED <<sessions, req, lost>>
    BY DEF ResolveTransfer, sessionVars
  <1>2. SessionsKept /\ UNCHANGED <<statusBar, spentBar>>
    BY <1>1, BarsUnchanged DEF SessionsKept
  <1>3. claimsBar' = claimsBar
    BY <1>1, <1>2, ClaimsKept
  <1>4. q \in DOMAIN claimsBar \cup lost
    <2>1. q \in DOMAIN req /\ MoneySound(q)
      BY <1>1, InvFacts
    <2>2. q \notin lost => req[q].holds
      BY <1>1, <2>1 DEF MoneySound
    <2>3. QED
      BY <2>1, <2>2 DEF claimsBar, Holders
  <1>5. CASE landed' = landed \cup {q}
    <2>1. Budget!Make(q)
      BY <1>1, <1>2, <1>3, <1>4, <1>5 DEF Budget!Make
    <2>2. QED
      BY <2>1 DEF BudgetStep, Budget!Next
  <1>6. CASE UNCHANGED landed
    BY <1>1, <1>3, <1>6, Stutters
  <1>7. QED
    BY <1>5, <1>6 DEF ResolveTransfer

-----------------------------------------------------------------------------
(* Giving a claim back *)

\* A request gives back its own claim and no other.
LEMMA DropClaim ==
    ASSUME GuardedInv, SessionsKept, NEW q \in DOMAIN req, req[q].holds,
           NEW pc, NEW tx, NEW reply, Moved(q, pc, FALSE, tx, reply)
    PROVE  /\ q \in DOMAIN claimsBar
           /\ claimsBar[q] = ClaimOf(q)
           /\ claimsBar' = [o \in DOMAIN claimsBar \ {q} |-> claimsBar[o]]
  <1>1. DOMAIN claimsBar = Holders /\ \A o \in Holders : claimsBar[o] = ClaimOf(o)
    BY DEF claimsBar
  <1>2. q \in Holders
    BY DEF Holders
  <1>3. Holders' = Holders \ {q} /\ \A o \in Holders : ClaimOf(o)' = ClaimOf(o)
    BY ClaimsMove
  <1>4. QED
    BY <1>1, <1>2, <1>3 DEF claimsBar

\* releasePaymentSessionSpend gives back what was taken, for a payment that was not
\* made or was lost sight of.
LEMMA ReleaseBudgetBudget ==
    ASSUME GuardedInv, NEW q \in Request, ReleaseBudget(q)
    PROVE  BudgetStep
  <1> DEFINE t == req[q].token
             x == req[q].amount
             y == Greatest0(sessions[t].spent - x)
             c == sessions[t].challenge
  <1>1. /\ q \in DOMAIN req /\ req[q].pc = "release" /\ req[q].pc \in Claimed
        /\ UNCHANGED <<challenges, authorizing, landed, lost>>
    BY DEF ReleaseBudget, At, Claimed
  <1>2. /\ GuardedTypeOK /\ SessionsInv /\ ClaimSound(q) /\ MoneySound(q)
        /\ x \in Amount /\ req[q].holds
    BY <1>1, InvFacts, ClaimedFacts
  <1>3. InSession(q) /\ t \in DOMAIN sessions /\ q \notin landed \ lost
    BY <1>1, <1>2 DEF ClaimSound, MoneySound, Owning, Failing
  <1>4. CASE sessions' = WithSpent(t, y) /\ Become(q, "unguard", FALSE, NoTx, "none")
    <2>1. Moved(q, "unguard", FALSE, NoTx, "none")
      BY <1>1, <1>2, <1>4, GotoMoves DEF PC, Reply
    <2>2. sessions[t].spent \in Nat /\ x \in Nat
      BY <1>2, <1>3, AmountAssumption DEF SessionsInv, SessionsTypeOK, SessionRow
    <2>3. y \in Nat /\ sessions[t].spent - x <= y /\ y <= sessions[t].spent
      BY <2>2 DEF Greatest0
    <2>4. /\ SessionsInv' /\ SessionsKept
          /\ DOMAIN sessions' = DOMAIN sessions
          /\ \A u \in DOMAIN sessions : u # t => sessions'[u] = sessions[u]
          /\ sessions'[t].challenge = sessions[t].challenge
          /\ sessions'[t].spent = y
          /\ sessions'[t].revoked = sessions[t].revoked
          /\ sessions'[t].expired = sessions[t].expired
      BY <1>1, <1>2, <1>3, <1>4, <2>3, SpentSafe
    <2>5. /\ c \in Challenge
          /\ statusBar[c] = RowStatus(t) /\ spentBar[c] = sessions[t].spent
          /\ statusBar' = [statusBar EXCEPT ![c] = NextStatus(t)]
          /\ spentBar' = [spentBar EXCEPT ![c] = sessions'[t].spent]
      BY <1>2, <1>3, <2>4, RowBars
    <2>6. NextStatus(t) = RowStatus(t)
      BY <2>4 DEF RowStatus, NextStatus
    <2>7. /\ q \in DOMAIN claimsBar
          /\ claimsBar[q] = ClaimOf(q)
          /\ claimsBar' = [o \in DOMAIN claimsBar \ {q} |-> claimsBar[o]]
      BY <1>1, <1>2, <2>1, <2>4, DropClaim
    <2>8. claimsBar[q].account = c /\ claimsBar[q].amount = x
      BY <1>3, <2>7 DEF ClaimOf, BudgetOf
    <2>9. \A d \in Challenge : spentBar[d] \in Nat
      <3>1. BarsAt
        BY <1>2, BarsHold
      <3>2. QED
        BY <1>2, <3>1 DEF BarsAt, SessionsInv, SessionsTypeOK, SessionRow
    <2> HIDE DEF c, y
    <2>10. statusBar' = statusBar
      BY <2>5, <2>6, BarDomains
    <2>11. spentBar' = [spentBar EXCEPT ![c] = y]
      BY <2>4, <2>5
    <2>12. spentBar' \in [Challenge -> Nat]
      BY <2>3, <2>5, <2>9, <2>11, BarDomains
    <2>13. \A a \in Challenge :
              IF a = claimsBar[q].account
              THEN spentBar[a] - claimsBar[q].amount <= spentBar'[a] /\ spentBar'[a] <= spentBar[a]
              ELSE spentBar'[a] = spentBar[a]
      BY <2>3, <2>5, <2>8, <2>11, BarDomains
    <2>14. Budget!GiveBack(q)
      BY <1>1, <1>3, <2>7, <2>10, <2>12, <2>13 DEF Budget!GiveBack
    <2>15. QED
      BY <2>14, GiveBackIsStep
  <1>5. CASE Throws(q) /\ UNCHANGED sessions
    <2>1. Moved(q, "done", req[q].holds, NoTx, "error")
      BY <1>1, <1>2, <1>5, GotoMoves
    <2>2. QED
      BY <1>1, <1>5, <2>1, QuietStutters
  <1>6. QED
    BY <1>4, <1>5 DEF ReleaseBudget, releasePaymentSessionSpend

\* deletePaymentNonceGuard gives an authorized payment's claim back; a session
\* payment has given its own back before.
LEMMA DropGuardBudget ==
    ASSUME GuardedInv, NEW q \in Request, DropGuard(q)
    PROVE  BudgetStep
  <1>1. /\ q \in DOMAIN req /\ req[q].pc = "unguard"
        /\ UNCHANGED <<sessions, landed, lost>>
    BY DEF DropGuard, At, sessionVars
  <1>2. /\ GuardedTypeOK /\ SessionsInv /\ ClaimSound(q) /\ MoneySound(q)
        /\ req[q].holds \in BOOLEAN
    BY <1>1, InvFacts
  <1>3. (InSession(q) => ~req[q].holds) /\ q \notin landed \ lost
    BY <1>1, <1>2 DEF ClaimSound, MoneySound, Failing
  <1>4. CASE Become(q, "done", FALSE, NoTx, "failed") /\ req[q].holds
    <2>1. Moved(q, "done", FALSE, NoTx, "failed")
      BY <1>1, <1>2, <1>4, GotoMoves DEF PC, Reply
    <2>2. SessionsKept /\ UNCHANGED <<statusBar, spentBar>>
      BY <1>1, BarsUnchanged DEF SessionsKept
    <2>3. /\ q \in DOMAIN claimsBar
          /\ claimsBar[q] = ClaimOf(q)
          /\ claimsBar' = [o \in DOMAIN claimsBar \ {q} |-> claimsBar[o]]
      BY <1>1, <1>4, <2>1, <2>2, DropClaim
    <2>4. claimsBar[q].account \notin Challenge
      BY <1>3, <1>4, <2>3, NullAssumption DEF ClaimOf, BudgetOf
    <2>5. \A d \in Challenge : spentBar[d] \in Nat
      <3>1. BarsAt
        BY <1>2, BarsHold
      <3>2. QED
        BY <1>2, <3>1 DEF BarsAt, SessionsInv, SessionsTypeOK, SessionRow
    <2>6. spentBar' \in [Challenge -> Nat]
      BY <2>2, <2>5, BarDomains
    <2>7. Budget!GiveBack(q)
      BY <1>1, <1>3, <2>2, <2>3, <2>4, <2>6 DEF Budget!GiveBack
    <2>8. QED
      BY <2>7, GiveBackIsStep
  <1>5. CASE Become(q, "done", FALSE, NoTx, "failed") /\ ~req[q].holds
    <2>1. Moved(q, "done", FALSE, NoTx, "failed")
      BY <1>1, <1>2, <1>5, GotoMoves DEF PC, Reply
    <2>2. FALSE = req[q].holds
      BY <1>2, <1>5
    <2>3. QED
      BY <1>1, <2>1, <2>2, QuietStutters
  <1>6. CASE Answer(q, "failed", NoTx)
    <2>1. Moved(q, "done", req[q].holds, NoTx, "failed")
      BY <1>1, <1>2, <1>6, GotoMoves DEF Reply
    <2>2. QED
      BY <1>1, <2>1, QuietStutters
  <1>7. QED
    BY <1>4, <1>5, <1>6 DEF DropGuard

-----------------------------------------------------------------------------
(* The remaining steps *)

\* The handler q moves on and keeps what it has claimed.
QuietMove(q) == \E pc, tx, reply : Moved(q, pc, req[q].holds, tx, reply)

\* The other steps of a handler move it and record what it did, no more.
LEMMA RecordMoves ==
    ASSUME GuardedInv, NEW q \in Request,
           \/ ReadSession(q) \/ AnswerExisting(q) \/ RefuseBudget(q)
           \/ InsertPending(q) \/ LinkSettlement(q)
           \/ updateSettlementConfirmed(q) \/ insertFeeLedger(q) \/ SetTxHash(q)
           \/ InnerCatchFailed(q) \/ CatchFailed(q) \/ Crash(q)
    PROVE  q \in DOMAIN req /\ UNCHANGED <<sessions, landed, lost>> /\ QuietMove(q)
  <1>1. q \in DOMAIN req /\ UNCHANGED <<sessions, landed, lost>>
    BY DEF ReadSession, AnswerExisting, RefuseBudget, InsertPending, LinkSettlement,
           updateSettlementConfirmed, insertFeeLedger, SetTxHash, InnerCatchFailed,
           CatchFailed, Crash, At, sessionVars
  <1> SUFFICES QuietMove(q)
    BY <1>1
  <1>2. GuardedTypeOK /\ q \in Request /\ req[q].holds \in BOOLEAN
    BY <1>1, InvFacts
  <1>3. ASSUME NEW pc \in PC, Goto(q, pc)
        PROVE  QuietMove(q)
    <2>1. Moved(q, pc, req[q].holds, NoTx, "none")
      BY <1>1, <1>2, <1>3, GotoMoves
    <2>2. QED
      BY <2>1 DEF QuietMove
  <1>4. ASSUME NEW reply \in Reply, NEW tx \in Request \cup {NoTx}, Answer(q, reply, tx)
        PROVE  QuietMove(q)
    <2>1. Moved(q, "done", req[q].holds, tx, reply)
      BY <1>1, <1>2, <1>4, GotoMoves
    <2>2. QED
      BY <2>1 DEF QuietMove
  <1>5. ASSUME Throws(q)
        PROVE  QuietMove(q)
    BY <1>4, <1>5 DEF Throws, Reply
  <1>6. /\ "ok" \in Reply /\ "replayed" \in Reply /\ "refused" \in Reply
        /\ "failed" \in Reply /\ "none" \in Reply
    BY DEF Reply
  <1>7. CASE ReadSession(q) \/ RefuseBudget(q)
    BY <1>3, <1>4, <1>5, <1>6, <1>7 DEF ReadSession, RefuseBudget, PC
  <1>8. CASE AnswerExisting(q)
    <2>1. \A n \in DOMAIN guards : guards[n].tx \in Request \cup {NoTx}
      BY InvFacts DEF Guard
    <2>2. QED
      BY <1>4, <1>6, <1>8, <2>1 DEF AnswerExisting, IsSettled
  <1>9. CASE InsertPending(q) \/ LinkSettlement(q)
    BY <1>3, <1>5, <1>9 DEF InsertPending, LinkSettlement, PC
  <1>10. CASE \/ updateSettlementConfirmed(q) \/ insertFeeLedger(q)
              \/ SetTxHash(q) \/ InnerCatchFailed(q)
    BY <1>2, <1>3, <1>4, <1>6, <1>10
       DEF updateSettlementConfirmed, insertFeeLedger, SetTxHash, InnerCatchFailed, PC
  <1>11. CASE CatchFailed(q)
    <2>1. ASSUME Become(q, AfterCatch(q), req[q].holds, NoTx,
                        IF AfterCatch(q) = "done" THEN "failed" ELSE "none")
          PROVE  QuietMove(q)
      <3>1. AfterCatch(q) \in PC
        BY DEF AfterCatch, PC
      <3>2. PICK reply \in Reply : Become(q, AfterCatch(q), req[q].holds, NoTx, reply)
        BY <1>6, <2>1
      <3>3. Moved(q, AfterCatch(q), req[q].holds, NoTx, reply)
        BY <1>1, <1>2, <3>1, <3>2, GotoMoves
      <3>4. QED
        BY <3>3 DEF QuietMove
    <2>2. QED
      BY <1>5, <1>11, <2>1 DEF CatchFailed
  <1>12. CASE Crash(q)
    BY <1>3, <1>12 DEF Crash, PC
  <1>13. QED
    BY <1>1, <1>7, <1>8, <1>9, <1>10, <1>11, <1>12

\* ... and so are no step of the budget.
LEMMA RecordStutters ==
    ASSUME GuardedInv, NEW q \in Request,
           \/ ReadSession(q) \/ AnswerExisting(q) \/ RefuseBudget(q)
           \/ InsertPending(q) \/ LinkSettlement(q)
           \/ updateSettlementConfirmed(q) \/ insertFeeLedger(q) \/ SetTxHash(q)
           \/ InnerCatchFailed(q) \/ CatchFailed(q) \/ Crash(q)
    PROVE  BudgetStep
  <1>1. q \in DOMAIN req /\ UNCHANGED <<sessions, landed, lost>> /\ QuietMove(q)
    BY RecordMoves
  <1>2. QED
    BY <1>1, QuietStutters DEF QuietMove

\* A request that arrives claims nothing.
LEMMA SubmitStutters ==
    ASSUME GuardedInv, NEW q \in Request, NEW scheme \in Scheme, NEW n \in Nonce,
           NEW t \in Token \cup {NoToken}, NEW amount \in Amount,
           Submit(q, scheme, n, t, amount)
    PROVE  BudgetStep
  <1>1. /\ q \notin DOMAIN req /\ UNCHANGED <<sessions, landed, lost>>
        /\ DOMAIN req' = DOMAIN req \cup {q}
        /\ ~req'[q].holds
        /\ \A o \in DOMAIN req : req'[o] = req[o]
    BY DEF Submit, WithRow, sessionVars
  <1>2. SessionsKept
    BY <1>1 DEF SessionsKept
  <1>3. Holders' = Holders
    BY <1>1 DEF Holders
  <1>4. \A o \in Holders : ClaimOf(o)' = ClaimOf(o)
    BY <1>1, <1>2, ClaimStable DEF Holders
  <1>5. claimsBar' = claimsBar
    BY <1>3, <1>4 DEF claimsBar
  <1>6. QED
    BY <1>1, <1>5, Stutters

-----------------------------------------------------------------------------
(* The refinement *)

\* The empty tables are the empty budget.
LEMMA BudgetInit == GuardedInit => Budget!Init
  <1> SUFFICES ASSUME GuardedInit
               PROVE  Budget!Init
    OBVIOUS
  <1>1. DOMAIN sessions = {} /\ DOMAIN req = {} /\ landed = {} /\ lost = {}
    BY DEF GuardedInit, SessionsInit
  <1>2. \A c \in Challenge : TokensOf(c) = {}
    BY <1>1 DEF TokensOf
  <1>3. /\ statusBar = [c \in Challenge |-> "unsigned"]
        /\ spentBar = [c \in Challenge |-> 0]
    BY <1>2 DEF statusBar, spentBar, BudgetStatus, BudgetSpent
  <1>4. Holders = {}
    BY <1>1 DEF Holders
  <1>5. claimsBar = [p \in {} |-> NoBudget]
    BY <1>4 DEF claimsBar
  <1>6. QED
    BY <1>1, <1>3, <1>5 DEF Budget!Init

\* Every step of the handlers is a step of the budget or a stutter.
LEMMA BudgetNext ==
    ASSUME GuardedInv, [GuardedNext]_guardedVars
    PROVE  BudgetStep
  <1>1. CASE SessionStep /\ UNCHANGED settleVars
    BY <1>1, SessionBudget
  <1>2. CASE \E q \in Request, scheme \in Scheme, n \in Nonce,
                t \in Token \cup {NoToken}, amount \in Amount :
                Submit(q, scheme, n, t, amount)
    BY <1>2, SubmitStutters
  <1>3. ASSUME NEW q \in Request, HandlerStep(q)
        PROVE  BudgetStep
    BY <1>3, ReserveNonceBudget, ReserveBudgetBudget, PayBudget, ReleaseBudgetBudget,
       DropGuardBudget, RecordStutters DEF HandlerStep
  <1>4. CASE \E q \in Request : ResolveTransfer(q)
    BY <1>4, ResolveBudget
  <1>5. CASE \E q \in Request : Crash(q)
    BY <1>5, RecordStutters
  <1>6. ASSUME UNCHANGED <<sessions, req, landed, lost>>
        PROVE  BudgetStep
    <2>1. SessionsKept
      BY <1>6 DEF SessionsKept
    <2>2. QED
      BY <1>6, <2>1, ClaimsKept, Stutters
  <1>7. CASE \E n \in Nonce : TakeNonceElsewhere(n)
    BY <1>6, <1>7 DEF TakeNonceElsewhere, sessionVars
  <1>8. CASE UNCHANGED guardedVars
    BY <1>6, <1>8 DEF guardedVars, sessionVars, settleVars
  <1>9. QED
    BY <1>1, <1>2, <1>3, <1>4, <1>5, <1>7, <1>8 DEF GuardedNext

\* The settle and session handlers implement the payment budget: they move money
\* only under a claim, within what the payer signed, and give a claim back only for a
\* payment that was not made or whose outcome was lost.
THEOREM GuardedRefinesBudget == GuardedSpec => ImplementsBudget
  <1>1. GuardedInv /\ [GuardedNext]_guardedVars => [Budget!Next]_Budget!budgetVars
    BY BudgetNext DEF BudgetStep
  <1>2. QED
    BY <1>1, BudgetInit, GuardedInvariant, PTL DEF GuardedSpec, ImplementsBudget, Budget!Spec

-----------------------------------------------------------------------------
(* What the sessions' counters add up to *)

\* What the requests that hold a part of session t hold.
HeldUnder(t) == [q \in HoldersOf(t) |-> req[q].amount]

\* The counters match the holders and stay within what was signed; finitely many
\* requests have arrived, and only session payments carry a token.
SpendInv ==
    /\ IsFiniteSet(DOMAIN req)
    /\ \A q \in DOMAIN req : InSession(q) \/ req[q].token = NoToken
    /\ \A t \in DOMAIN sessions : sessions[t].spent <= MaxTotal[sessions[t].challenge]
    /\ SpentMatchesHolders

\* Requests ask for natural amounts.
LEMMA AmountsNatural ==
    ASSUME GuardedInv, NEW q \in DOMAIN req
    PROVE  req[q].amount \in Nat
  <1>1. req[q].amount \in Amount
    BY InvFacts
  <1>2. QED
    BY <1>1, AmountAssumption

\* The holders of a session hold positive integers.
LEMMA HeldTyped ==
    ASSUME GuardedInv, IsFiniteSet(DOMAIN req), NEW t
    PROVE  IsFiniteSet(HoldersOf(t)) /\ HeldUnder(t) \in [HoldersOf(t) -> Int]
  <1>1. HoldersOf(t) \subseteq DOMAIN req
    BY DEF HoldersOf, Holders
  <1>2. \A q \in DOMAIN req : req[q].amount \in Int
    BY AmountsNatural
  <1>3. QED
    BY <1>1, <1>2, FS_Subset DEF HeldUnder

\* A step that keeps the holders and the counters keeps the invariant.
LEMMA SpendKept ==
    ASSUME SpendInv, IsFiniteSet(DOMAIN req'),
           \A q \in DOMAIN req' : InSession(q)' \/ req'[q].token = NoToken,
           Holders' = Holders,
           \A q \in Holders : req'[q].token = req[q].token /\ req'[q].amount = req[q].amount,
           DOMAIN sessions' = DOMAIN sessions,
           \A t \in DOMAIN sessions : /\ sessions'[t].spent = sessions[t].spent
                                      /\ sessions'[t].challenge = sessions[t].challenge
    PROVE  SpendInv'
  <1>1. ASSUME NEW t \in DOMAIN sessions
        PROVE  HeldUnder(t)' = HeldUnder(t)
    <2>1. HoldersOf(t)' = HoldersOf(t) /\ HoldersOf(t) \subseteq Holders
      BY DEF HoldersOf
    <2>2. QED
      BY <2>1 DEF HeldUnder
  <1>2. ASSUME NEW t \in DOMAIN sessions
        PROVE  sessions'[t].spent = SumFunction(HeldUnder(t)')
    BY <1>1 DEF SpendInv, SpentMatchesHolders, HeldUnder
  <1>3. SpentMatchesHolders'
    BY <1>2 DEF SpentMatchesHolders, HeldUnder
  <1>4. QED
    BY <1>3 DEF SpendInv

\* A request that moves keeps its scheme and its token.
LEMMA TokensMove ==
    ASSUME SpendInv, NEW q \in DOMAIN req, NEW pc, NEW holds, NEW tx, NEW reply,
           Moved(q, pc, holds, tx, reply)
    PROVE  /\ IsFiniteSet(DOMAIN req')
           /\ \A o \in DOMAIN req' : InSession(o)' \/ req'[o].token = NoToken
  BY DEF SpendInv, Moved, InSession

\* A handler's step that neither claims nor gives back.
LEMMA QuietSpend ==
    ASSUME GuardedInv, SpendInv, NEW q \in DOMAIN req, QuietMove(q), UNCHANGED sessions
    PROVE  SpendInv'
  <1>1. PICK pc, tx, reply : Moved(q, pc, req[q].holds, tx, reply)
    BY DEF QuietMove
  <1>2. SessionsKept /\ req[q].holds \in BOOLEAN
    BY InvFacts DEF SessionsKept
  <1>3. Holders' = Holders
    BY <1>1 DEF Moved, Holders
  <1>4. \A o \in Holders : req'[o].token = req[o].token /\ req'[o].amount = req[o].amount
    BY <1>1 DEF Moved, Holders
  <1>5. QED
    BY <1>1, <1>3, <1>4, TokensMove, SpendKept

\* A request that claims or gives back changes what is held under its token, and
\* under no other.
LEMMA HeldMoves ==
    ASSUME GuardedInv, IsFiniteSet(DOMAIN req), NEW q \in DOMAIN req, NEW holds \in BOOLEAN,
           NEW pc, NEW tx, NEW reply, Moved(q, pc, holds, tx, reply), NEW t
    PROVE  /\ t # req[q].token => HeldUnder(t)' = HeldUnder(t)
           /\ t = req[q].token =>
                 SumFunction(HeldUnder(t)') =
                    SumFunction(HeldUnder(t)) - (IF req[q].holds THEN req[q].amount ELSE 0)
                                              + (IF holds THEN req[q].amount ELSE 0)
  <1>1. t # req[q].token => HoldersOf(t)' = HoldersOf(t) /\ q \notin HoldersOf(t)
    BY DEF HoldersOf, Holders, Moved
  <1>2. \A o \in DOMAIN req : req'[o].amount = req[o].amount
    BY DEF Moved
  <1>3. HoldersOf(t) \subseteq DOMAIN req
    BY DEF HoldersOf, Holders
  <1>4. t # req[q].token => HeldUnder(t)' = HeldUnder(t)
    BY <1>1, <1>2, <1>3 DEF HeldUnder
  <1>5. ASSUME t = req[q].token
        PROVE  SumFunction(HeldUnder(t)') =
                  SumFunction(HeldUnder(t)) - (IF req[q].holds THEN req[q].amount ELSE 0)
                                            + (IF holds THEN req[q].amount ELSE 0)
    <2> DEFINE S == HoldersOf(t)
               T == HoldersOf(t)'
               f == HeldUnder(t)
               g == HeldUnder(t)'
    <2>1. IsFiniteSet(S) /\ f \in [S -> Int]
      BY HeldTyped
    <2>2. T \subseteq DOMAIN req
      BY DEF HoldersOf, Holders, Moved
    <2>3. IsFiniteSet(T) /\ g \in [T -> Int]
      <3>1. \A o \in DOMAIN req : req'[o].amount \in Int
        BY <1>2, AmountsNatural
      <3>2. QED
        BY <2>2, <3>1, FS_Subset DEF HeldUnder
    <2>4. S \ {q} = T \ {q}
      BY DEF HoldersOf, Holders, Moved
    <2>5. \A o \in S \ {q} : g[o] = f[o]
      <3>1. \A o \in S : f[o] = req[o].amount
        BY DEF HeldUnder
      <3>2. \A o \in T : g[o] = req'[o].amount
        BY DEF HeldUnder
      <3>3. QED
        BY <1>2, <1>3, <2>4, <3>1, <3>2
    <2>6. DOMAIN f = S /\ DOMAIN g = T /\ (q \in S) = req[q].holds /\ (q \in T) = holds
      <3>1. req[q].holds \in BOOLEAN /\ q \in DOMAIN req'
        BY InvFacts DEF Moved
      <3>2. (q \in S) = req[q].holds
        BY <1>5, <3>1 DEF HoldersOf, Holders
      <3>3. (q \in T) = holds
        BY <1>5, <3>1 DEF HoldersOf, Holders, Moved
      <3>4. QED
        BY <3>2, <3>3 DEF HeldUnder
    <2>7. /\ q \in S => f[q] = req[q].amount
          /\ q \in T => g[q] = req[q].amount
      BY <1>2 DEF HeldUnder
    <2>8. /\ Share(f, q) = (IF req[q].holds THEN req[q].amount ELSE 0)
          /\ Share(g, q) = (IF holds THEN req[q].amount ELSE 0)
      BY <2>6, <2>7 DEF Share
    <2> HIDE DEF S, T, f, g
    <2>9. SumFunction(g) = SumFunction(f) - Share(f, q) + Share(g, q)
      BY <2>1, <2>3, <2>4, <2>5, SumStep
    <2>10. QED
      BY <2>8, <2>9 DEF f, g
  <1>6. QED
    BY <1>4, <1>5

\* A holder of a session names a session that exists; one under no session holds
\* nothing of any.
LEMMA HoldersNamed ==
    ASSUME GuardedInv, SpendInv, NEW t \in Token, NEW q \in HoldersOf(t)
    PROVE  t \in DOMAIN sessions
  <1>1. q \in DOMAIN req /\ req[q].holds /\ req[q].token = t
    BY DEF HoldersOf, Holders
  <1>2. InSession(q)
    BY <1>1, NullAssumption DEF SpendInv
  <1>3. QED
    BY <1>1, <1>2, InvFacts DEF ClaimSound

\* A claim taken or given back under no session leaves every counter alone.
LEMMA OutsideSpend ==
    ASSUME GuardedInv, SpendInv, NEW q \in DOMAIN req, ~InSession(q), NEW holds \in BOOLEAN,
           NEW pc, NEW tx, NEW reply, Moved(q, pc, holds, tx, reply), UNCHANGED sessions
    PROVE  SpendInv'
  <1>1. IsFiniteSet(DOMAIN req)
    BY DEF SpendInv
  <1>2. req[q].token = NoToken
    BY DEF SpendInv
  <1>3. ASSUME NEW t \in DOMAIN sessions
        PROVE  HeldUnder(t)' = HeldUnder(t)
    <2>1. t \in Token
      BY InvFacts DEF SessionsInv, SessionsTypeOK
    <2>2. t # req[q].token
      BY <1>2, <2>1, NullAssumption
    <2>3. QED
      BY <1>1, <2>2, HeldMoves
  <1>4. ASSUME NEW t \in DOMAIN sessions
        PROVE  sessions[t].spent = SumFunction(HeldUnder(t)')
    BY <1>3 DEF SpendInv, SpentMatchesHolders, HeldUnder
  <1>5. SpentMatchesHolders'
    BY <1>4 DEF SpentMatchesHolders, HeldUnder
  <1>6. QED
    BY <1>5, TokensMove DEF SpendInv

\* A counter moved by what the holders of its session gained or lost.
LEMMA CounterSpend ==
    ASSUME GuardedInv, SpendInv, NEW q \in DOMAIN req, NEW holds \in BOOLEAN,
           NEW pc, NEW tx, NEW reply, Moved(q, pc, holds, tx, reply),
           NEW t \in DOMAIN sessions, req[q].token = t,
           DOMAIN sessions' = DOMAIN sessions,
           \A u \in DOMAIN sessions : u # t => sessions'[u] = sessions[u],
           sessions'[t].challenge = sessions[t].challenge,
           sessions'[t].spent = sessions[t].spent
              - (IF req[q].holds THEN req[q].amount ELSE 0)
              + (IF holds THEN req[q].amount ELSE 0),
           sessions'[t].spent <= MaxTotal[sessions[t].challenge]
    PROVE  SpendInv'
  <1>1. IsFiniteSet(DOMAIN req)
    BY DEF SpendInv
  <1>2. ASSUME NEW u \in DOMAIN sessions, u # t
        PROVE  HeldUnder(u)' = HeldUnder(u)
    BY <1>1, <1>2, HeldMoves
  <1>3. \A u \in DOMAIN sessions : sessions[u].spent = SumFunction(HeldUnder(u))
    BY DEF SpendInv, SpentMatchesHolders, HeldUnder
  <1>4. ASSUME NEW u \in DOMAIN sessions, u # t
        PROVE  sessions'[u].spent = SumFunction(HeldUnder(u)')
    BY <1>2, <1>3, <1>4
  <1>5. sessions'[t].spent = SumFunction(HeldUnder(t)')
    <2>1. SumFunction(HeldUnder(t)') =
             SumFunction(HeldUnder(t)) - (IF req[q].holds THEN req[q].amount ELSE 0)
                                       + (IF holds THEN req[q].amount ELSE 0)
      BY <1>1, HeldMoves
    <2>2. QED
      BY <1>3, <2>1
  <1>6. SpentMatchesHolders'
    BY <1>4, <1>5 DEF SpentMatchesHolders, HeldUnder
  <1>7. \A u \in DOMAIN sessions' : sessions'[u].spent <= MaxTotal[sessions'[u].challenge]
    BY DEF SpendInv
  <1>8. QED
    BY <1>6, <1>7, TokensMove DEF SpendInv

\* insertPaymentSession: nobody holds anything of a session that did not exist.
LEMMA OpenSpend ==
    ASSUME GuardedInv, SpendInv, NEW t \in Token, insertPaymentSession(t),
           UNCHANGED settleVars
    PROVE  SpendInv'
  <1> DEFINE c == authorizing[t].challenge
  <1>1. SessionsInv /\ UNCHANGED req
    BY DEF GuardedInv, settleVars
  <1>2. /\ t \notin DOMAIN sessions
        /\ DOMAIN sessions' = DOMAIN sessions \cup {t}
        /\ \A u \in DOMAIN sessions : sessions'[u] = sessions[u]
        /\ sessions'[t] = [challenge |-> c, spent |-> 0, revoked |-> FALSE, expired |-> FALSE]
        /\ c \in Challenge
    BY <1>1, InsertSessionSafe
  <1>3. sessions'[t].spent = 0 /\ sessions'[t].challenge = c /\ 0 <= MaxTotal[c]
    BY <1>2, MaxTotalAssumption
  <1> HIDE DEF c
  <1>4. \A u : HeldUnder(u)' = HeldUnder(u)
    BY <1>1 DEF HeldUnder, HoldersOf, Holders
  <1>5. HoldersOf(t) = {}
    BY <1>2, HoldersNamed
  <1>6. SumFunction(HeldUnder(t)') = 0
    <2>1. DOMAIN HeldUnder(t) = {}
      BY <1>5 DEF HeldUnder
    <2>2. QED
      BY <1>4, <2>1, SumEmpty
  <1>7. \A u \in DOMAIN sessions : sessions[u].spent = SumFunction(HeldUnder(u)')
    BY <1>4 DEF SpendInv, SpentMatchesHolders, HeldUnder
  <1>8. SpentMatchesHolders'
    BY <1>2, <1>3, <1>6, <1>7 DEF SpentMatchesHolders, HeldUnder
  <1>9. \A u \in DOMAIN sessions' : sessions'[u].spent <= MaxTotal[sessions'[u].challenge]
    BY <1>2, <1>3 DEF SpendInv
  <1>10. QED
    BY <1>1, <1>8, <1>9 DEF SpendInv, InSession

\* The other session routes move no counter.
LEMMA SessionSpend ==
    ASSUME GuardedInv, SpendInv, SessionStep, UNCHANGED settleVars
    PROVE  SpendInv'
  <1>1. UNCHANGED req /\ SessionsInv /\ IsFiniteSet(DOMAIN req)
    BY DEF settleVars, GuardedInv, SpendInv
  <1>2. ASSUME DOMAIN sessions' = DOMAIN sessions,
               \A t \in DOMAIN sessions : /\ sessions'[t].spent = sessions[t].spent
                                          /\ sessions'[t].challenge = sessions[t].challenge
        PROVE  SpendInv'
    <2>1. Holders' = Holders /\ \A q \in DOMAIN req' : InSession(q)' \/ req'[q].token = NoToken
      BY <1>1 DEF Holders, SpendInv, InSession
    <2>2. QED
      BY <1>1, <1>2, <2>1, SpendKept
  <1>3. CASE UNCHANGED sessions
    BY <1>2, <1>3
  <1>4. CASE \E t \in Token : insertPaymentSession(t)
    BY <1>4, OpenSpend
  <1>5. CASE \E t \in Token : revokePaymentSession(t) \/ SessionExpires(t)
    <2>1. PICK t : /\ DOMAIN sessions' = DOMAIN sessions
                   /\ \A u \in DOMAIN sessions : u # t => sessions'[u] = sessions[u]
                   /\ sessions'[t].challenge = sessions[t].challenge
                   /\ sessions'[t].spent = sessions[t].spent
      BY <1>1, <1>5, CloseSafe
    <2>2. QED
      BY <1>2, <2>1
  <1>6. QED
    BY <1>3, <1>4, <1>5
       DEF SessionStep, insertSessionChallenge, ChallengeExpires, BeginAuthorize,
           CheckAllowance, markSessionChallengeUsed, AuthorizeAborts

\* A request that arrives holds nothing.
LEMMA SubmitSpend ==
    ASSUME GuardedInv, SpendInv, NEW q \in Request, NEW scheme \in Scheme, NEW n \in Nonce,
           NEW t \in Token \cup {NoToken}, NEW amount \in Amount,
           Submit(q, scheme, n, t, amount)
    PROVE  SpendInv'
  <1>1. /\ q \notin DOMAIN req /\ UNCHANGED sessions
        /\ DOMAIN req' = DOMAIN req \cup {q}
        /\ ~req'[q].holds
        /\ req'[q].scheme = scheme /\ req'[q].token = t
        /\ \A o \in DOMAIN req : req'[o] = req[o]
    BY DEF Submit, WithRow, sessionVars
  <1>2. Holders' = Holders
    BY <1>1 DEF Holders
  <1>3. scheme = "session" \/ t = NoToken
    BY DEF Submit
  <1>4. \A o \in DOMAIN req' : InSession(o)' \/ req'[o].token = NoToken
    BY <1>1, <1>3 DEF SpendInv, InSession
  <1>5. IsFiniteSet(DOMAIN req')
    BY <1>1, FS_AddElement DEF SpendInv
  <1>6. \A o \in Holders : req'[o] = req[o]
    BY <1>1 DEF Holders
  <1>7. QED
    BY <1>1, <1>2, <1>4, <1>5, <1>6, SpendKept

\* reservePaymentNonce claims for a payment under no session only.
LEMMA ReserveNonceSpend ==
    ASSUME GuardedInv, SpendInv, NEW q \in Request, ReserveNonce(q)
    PROVE  SpendInv'
  <1>1. q \in DOMAIN req /\ req[q].pc = "guard" /\ UNCHANGED sessions
    BY DEF ReserveNonce, At, sessionVars
  <1>2. GuardedTypeOK /\ ~req[q].holds /\ req[q].holds \in BOOLEAN
    BY <1>1, InvFacts DEF ClaimSound, Unclaimed
  <1>3. CASE /\ ~InSession(q)
             /\ Become(q, IF InSession(q) THEN "budget" ELSE "insert",
                       ~InSession(q), NoTx, "none")
    <2>1. Become(q, "insert", TRUE, NoTx, "none")
      BY <1>3
    <2>2. Moved(q, "insert", TRUE, NoTx, "none")
      BY <1>1, <1>2, <2>1, GotoMoves DEF PC, Reply
    <2>3. QED
      BY <1>1, <1>3, <2>2, OutsideSpend
  <1>4. CASE /\ InSession(q)
             /\ Become(q, IF InSession(q) THEN "budget" ELSE "insert",
                       ~InSession(q), NoTx, "none")
    <2>1. Become(q, "budget", FALSE, NoTx, "none")
      BY <1>4
    <2>2. Moved(q, "budget", FALSE, NoTx, "none")
      BY <1>1, <1>2, <2>1, GotoMoves DEF PC, Reply
    <2>3. FALSE = req[q].holds
      BY <1>2
    <2>4. QuietMove(q)
      BY <2>2, <2>3 DEF QuietMove
    <2>5. QED
      BY <1>1, <2>4, QuietSpend
  <1>5. CASE Goto(q, "existing") \/ Answer(q, "refused", NoTx) \/ Throws(q)
    <2>1. QuietMove(q)
      BY <1>1, <1>2, <1>5, GotoMoves DEF PC, Reply, QuietMove
    <2>2. QED
      BY <1>1, <2>1, QuietSpend
  <1>6. QED
    BY <1>3, <1>4, <1>5 DEF ReserveNonce

\* reservePaymentSessionSpend takes what the request comes to hold, within the limit.
LEMMA ReserveBudgetSpend ==
    ASSUME GuardedInv, SpendInv, NEW q \in Request, ReserveBudget(q)
    PROVE  SpendInv'
  <1> DEFINE t == req[q].token
             x == req[q].amount
  <1>1. q \in DOMAIN req /\ req[q].pc = "budget" /\ UNCHANGED <<challenges, authorizing>>
    BY DEF ReserveBudget, At
  <1>2. GuardedTypeOK /\ SessionsInv /\ ClaimSound(q) /\ req[q].holds \in BOOLEAN /\ x \in Nat
    BY <1>1, InvFacts, AmountsNatural
  <1>3. ~req[q].holds /\ t \in DOMAIN sessions
    BY <1>1, <1>2 DEF ClaimSound, Unclaimed, Owning
  <1>4. CASE /\ MayDraw(t, x)
             /\ sessions' = WithSpent(t, sessions[t].spent + x)
             /\ Become(q, "insert", TRUE, NoTx, "none")
    <2>1. Moved(q, "insert", TRUE, NoTx, "none")
      BY <1>1, <1>2, <1>4, GotoMoves DEF PC, Reply
    <2>2. sessions[t].spent \in Nat /\ sessions[t].spent + x \in Nat
      BY <1>2, <1>3 DEF SessionsInv, SessionsTypeOK, SessionRow
    <2>3. /\ DOMAIN sessions' = DOMAIN sessions
          /\ \A u \in DOMAIN sessions : u # t => sessions'[u] = sessions[u]
          /\ sessions'[t].challenge = sessions[t].challenge
          /\ sessions'[t].spent = sessions[t].spent + x
      BY <1>1, <1>2, <1>3, <1>4, <2>2, SpentSafe
    <2>4. sessions'[t].spent <= MaxTotal[sessions[t].challenge]
      BY <1>4, <2>3 DEF MayDraw
    <2>5. sessions'[t].spent = sessions[t].spent - (IF req[q].holds THEN x ELSE 0)
                                                 + (IF TRUE THEN x ELSE 0)
      BY <1>2, <1>3, <2>2, <2>3
    <2>6. QED
      BY <1>1, <1>3, <2>1, <2>3, <2>4, <2>5, CounterSpend
  <1>5. CASE (Goto(q, "refund") \/ Throws(q)) /\ UNCHANGED sessions
    <2>1. QuietMove(q)
      BY <1>1, <1>2, <1>5, GotoMoves DEF PC, QuietMove
    <2>2. QED
      BY <1>1, <1>5, <2>1, QuietSpend
  <1>6. QED
    BY <1>4, <1>5 DEF ReserveBudget, reservePaymentSessionSpend

\* releasePaymentSessionSpend gives back what the request held: the counter is at
\* least that much, so the clamp at 0 does not show.
LEMMA ReleaseSpend ==
    ASSUME GuardedInv, SpendInv, NEW q \in Request, ReleaseBudget(q)
    PROVE  SpendInv'
  <1> DEFINE t == req[q].token
             x == req[q].amount
             y == Greatest0(sessions[t].spent - x)
  <1>1. /\ q \in DOMAIN req /\ req[q].pc = "release" /\ req[q].pc \in Claimed
        /\ UNCHANGED <<challenges, authorizing>>
    BY DEF ReleaseBudget, At, Claimed
  <1>2. GuardedTypeOK /\ SessionsInv /\ ClaimSound(q) /\ req[q].holds /\ x \in Nat
    BY <1>1, ClaimedFacts, AmountsNatural
  <1>3. InSession(q) /\ t \in DOMAIN sessions
    BY <1>1, <1>2 DEF ClaimSound, Owning
  <1>4. CASE sessions' = WithSpent(t, y) /\ Become(q, "unguard", FALSE, NoTx, "none")
    <2>1. Moved(q, "unguard", FALSE, NoTx, "none")
      BY <1>1, <1>2, <1>4, GotoMoves DEF PC, Reply
    <2>2. sessions[t].spent \in Nat
      BY <1>2, <1>3 DEF SessionsInv, SessionsTypeOK, SessionRow
    <2>3. x <= sessions[t].spent
      <3> DEFINE S == HoldersOf(t)
                 f == HeldUnder(t)
      <3>1. IsFiniteSet(S) /\ f \in [S -> Int]
        BY HeldTyped DEF SpendInv
      <3>2. q \in S /\ f[q] = x
        BY <1>1, <1>2 DEF HoldersOf, Holders, HeldUnder
      <3>3. \A o \in S : 0 <= f[o]
        BY AmountsNatural DEF HoldersOf, Holders, HeldUnder
      <3>4. sessions[t].spent = SumFunction(f)
        BY <1>3 DEF SpendInv, SpentMatchesHolders, HeldUnder
      <3> HIDE DEF S, f
      <3> DEFINE g == [o \in {q} |-> f[o]]
      <3>5. g \in [{q} -> Int] /\ {q} \subseteq S /\ \A o \in {q} : g[o] <= f[o]
        BY <3>1, <3>2
      <3>6. SumFunction(g) <= SumFunction(f)
        <4> HIDE DEF g
        <4> QED
          BY <3>1, <3>3, <3>5, SumPart
      <3>7. SumFunction(g) = x
        <4> DEFINE r == [o \in {q} \ {q} |-> g[o]]
        <4>1. SumFunction(g) = g[q] + SumFunction(r)
          <5>1. IsFiniteSet({q}) /\ q \in {q}
            BY FS_Singleton
          <5> HIDE DEF g
          <5>2. QED
            BY <3>5, <5>1, SumWithout
        <4>2. DOMAIN r = {}
          OBVIOUS
        <4>3. SumFunction(r) = 0
          BY <4>2, SumEmpty
        <4>4. g[q] = x
          BY <3>2
        <4>5. QED
          BY <1>2, <4>1, <4>3, <4>4
      <3>8. QED
        BY <3>4, <3>6, <3>7
    <2>4. y = sessions[t].spent - x /\ y \in Nat
      BY <1>2, <2>2, <2>3 DEF Greatest0
    <2> HIDE DEF y
    <2>5. /\ DOMAIN sessions' = DOMAIN sessions
          /\ \A u \in DOMAIN sessions : u # t => sessions'[u] = sessions[u]
          /\ sessions'[t].challenge = sessions[t].challenge
          /\ sessions'[t].spent = y
      BY <1>1, <1>2, <1>3, <1>4, <2>4, SpentSafe
    <2>6. sessions'[t].spent <= MaxTotal[sessions[t].challenge]
      <3>1. sessions[t].spent <= MaxTotal[sessions[t].challenge]
        BY <1>3 DEF SpendInv
      <3>2. sessions[t].challenge \in Challenge
        BY <1>2, <1>3 DEF SessionsInv, SessionsTypeOK, SessionRow
      <3>3. MaxTotal[sessions[t].challenge] \in Nat
        BY <3>2, MaxTotalAssumption
      <3>4. QED
        BY <1>2, <2>2, <2>4, <2>5, <3>1, <3>3
    <2>7. sessions'[t].spent = sessions[t].spent - (IF req[q].holds THEN x ELSE 0)
                                                 + (IF FALSE THEN x ELSE 0)
      BY <1>2, <2>2, <2>4, <2>5
    <2>8. QED
      BY <1>1, <1>3, <2>1, <2>5, <2>6, <2>7, CounterSpend
  <1>5. CASE Throws(q) /\ UNCHANGED sessions
    <2>1. QuietMove(q)
      BY <1>1, <1>2, <1>5, GotoMoves DEF QuietMove
    <2>2. QED
      BY <1>1, <1>5, <2>1, QuietSpend
  <1>6. QED
    BY <1>4, <1>5 DEF ReleaseBudget, releasePaymentSessionSpend

\* deletePaymentNonceGuard: what a session payment held it gave back before.
LEMMA DropGuardSpend ==
    ASSUME GuardedInv, SpendInv, NEW q \in Request, DropGuard(q)
    PROVE  SpendInv'
  <1>1. q \in DOMAIN req /\ req[q].pc = "unguard" /\ UNCHANGED sessions
    BY DEF DropGuard, At, sessionVars
  <1>2. GuardedTypeOK /\ ClaimSound(q) /\ req[q].holds \in BOOLEAN
    BY <1>1, InvFacts
  <1>3. InSession(q) => ~req[q].holds
    BY <1>1, <1>2 DEF ClaimSound
  <1>4. CASE Become(q, "done", FALSE, NoTx, "failed")
    <2>1. Moved(q, "done", FALSE, NoTx, "failed")
      BY <1>1, <1>2, <1>4, GotoMoves DEF PC, Reply
    <2>2. CASE InSession(q)
      <3>1. FALSE = req[q].holds
        BY <1>2, <1>3, <2>2
      <3>2. QuietMove(q)
        BY <2>1, <3>1 DEF QuietMove
      <3>3. QED
        BY <1>1, <3>2, QuietSpend
    <2>3. CASE ~InSession(q)
      BY <1>1, <2>1, <2>3, OutsideSpend
    <2>4. QED
      BY <2>2, <2>3
  <1>5. CASE Answer(q, "failed", NoTx)
    <2>1. QuietMove(q)
      BY <1>1, <1>2, <1>5, GotoMoves DEF Reply, QuietMove
    <2>2. QED
      BY <1>1, <2>1, QuietSpend
  <1>6. QED
    BY <1>4, <1>5 DEF DropGuard

\* Pay moves no counter.
LEMMA PaySpend ==
    ASSUME GuardedInv, SpendInv, NEW q \in Request, Pay(q)
    PROVE  SpendInv'
  <1>1. q \in DOMAIN req /\ UNCHANGED sessions
    BY DEF Pay, At, sessionVars
  <1>2. GuardedTypeOK /\ CatchOf(q) \in PC
    BY InvFacts DEF CatchOf, PC
  <1>3. Goto(q, "confirm") \/ Goto(q, CatchOf(q))
    BY DEF Pay
  <1>4. QuietMove(q)
    <2>1. "confirm" \in PC
      BY DEF PC
    <2>2. QED
      BY <1>1, <1>2, <1>3, <2>1, GotoMoves DEF QuietMove
  <1>5. QED
    BY <1>1, <1>4, QuietSpend

\* No step breaks the counters.
LEMMA SpendStep ==
    ASSUME GuardedInv, SpendInv, [GuardedNext]_guardedVars
    PROVE  SpendInv'
  <1>1. CASE SessionStep /\ UNCHANGED settleVars
    BY <1>1, SessionSpend
  <1>2. CASE \E q \in Request, scheme \in Scheme, n \in Nonce,
                t \in Token \cup {NoToken}, amount \in Amount :
                Submit(q, scheme, n, t, amount)
    BY <1>2, SubmitSpend
  <1>3. ASSUME NEW q \in Request,
               \/ ReadSession(q) \/ AnswerExisting(q) \/ RefuseBudget(q)
               \/ InsertPending(q) \/ LinkSettlement(q)
               \/ updateSettlementConfirmed(q) \/ insertFeeLedger(q) \/ SetTxHash(q)
               \/ InnerCatchFailed(q) \/ CatchFailed(q) \/ Crash(q)
        PROVE  SpendInv'
    <2>1. q \in DOMAIN req /\ UNCHANGED <<sessions, landed, lost>> /\ QuietMove(q)
      BY <1>3, RecordMoves
    <2>2. QED
      BY <2>1, QuietSpend
  <1>4. ASSUME NEW q \in Request, HandlerStep(q)
        PROVE  SpendInv'
    BY <1>3, <1>4, ReserveNonceSpend, ReserveBudgetSpend, PaySpend, ReleaseSpend,
       DropGuardSpend DEF HandlerStep
  <1>5. CASE \E q \in Request : Crash(q)
    BY <1>3, <1>5
  <1>6. ASSUME UNCHANGED <<sessions, req>>
        PROVE  SpendInv'
    BY <1>6 DEF SpendInv, SpentMatchesHolders, HoldersOf, Holders, InSession
  <1>7. CASE \/ \E q \in Request : ResolveTransfer(q)
             \/ \E n \in Nonce : TakeNonceElsewhere(n)
             \/ UNCHANGED guardedVars
    BY <1>6, <1>7 DEF ResolveTransfer, TakeNonceElsewhere, guardedVars, sessionVars, settleVars
  <1>8. QED
    BY <1>1, <1>2, <1>4, <1>5, <1>7 DEF GuardedNext

\* There is nothing to add up at first.
LEMMA SpendInit == GuardedInit => SpendInv
  <1> SUFFICES ASSUME GuardedInit PROVE SpendInv
    OBVIOUS
  <1>1. DOMAIN sessions = {} /\ DOMAIN req = {}
    BY DEF GuardedInit, SessionsInit
  <1>2. QED
    BY <1>1, FS_EmptySet DEF SpendInv, SpentMatchesHolders

\* The counters match their holders in every reachable state.
LEMMA SpendInvariant == GuardedSpec => [](GuardedInv /\ SpendInv)
  <1>1. GuardedInv /\ SpendInv /\ [GuardedNext]_guardedVars => SpendInv'
    BY SpendStep
  <1>2. QED
    BY <1>1, SpendInit, GuardedInvariant, PTL DEF GuardedSpec

\* A session's spent_micro is what the requests that hold a part of it hold, for any
\* number of requests: no path of POST /settle returns a part twice or loses one.
THEOREM SpentSafety == GuardedSpec => []SpentMatchesHolders
  <1>1. SpendInv => SpentMatchesHolders
    BY DEF SpendInv
  <1>2. QED
    BY <1>1, SpendInvariant, PTL

\* What was paid under a challenge, and is not lost sight of, its session's holders
\* hold.
LEMMA PaymentsHeld ==
    ASSUME GuardedInv, SpendInv, NEW c \in Challenge, NEW q \in PaidUnder(c)
    PROVE  /\ q \in DOMAIN req
           /\ req[q].token \in DOMAIN sessions
           /\ sessions[req[q].token].challenge = c
           /\ q \in HoldersOf(req[q].token)
  <1>1. q \in landed \ lost /\ InSession(q) /\ BudgetOf(q) = c
    BY DEF PaidUnder
  <1>2. q \in DOMAIN req
    BY <1>1, InvFacts
  <1>3. ClaimSound(q) /\ MoneySound(q)
    BY <1>2, InvFacts
  <1>4. req[q].token \in DOMAIN sessions /\ req[q].holds
    BY <1>1, <1>3 DEF ClaimSound, MoneySound
  <1>5. QED
    BY <1>1, <1>2, <1>4 DEF BudgetOf, HoldersOf, Holders

\* The payments under a challenge are part of what its only session has spent.
LEMMA CapHolds ==
    ASSUME GuardedInv, SpendInv, NEW c \in Challenge
    PROVE  SumFunction([q \in PaidUnder(c) |-> req[q].amount]) <= MaxTotal[c]
  <1> DEFINE P == PaidUnder(c)
             p == [q \in P |-> req[q].amount]
  <1>1. CASE P = {}
    <2>1. DOMAIN p = {}
      BY <1>1
    <2>2. SumFunction(p) = 0
      BY <2>1, SumEmpty
    <2>3. MaxTotal[c] \in Nat
      BY MaxTotalAssumption
    <2>4. QED
      BY <2>2, <2>3
  <1>2. CASE P # {}
    <2>1. PICK o \in P : TRUE
      BY <1>2
    <2>2. PICK t \in DOMAIN sessions : sessions[t].challenge = c
      BY <2>1, PaymentsHeld
    <2> DEFINE T == HoldersOf(t)
               f == HeldUnder(t)
    <2>3. IsFiniteSet(T) /\ f \in [T -> Int]
      BY HeldTyped DEF SpendInv
    <2>4. P \subseteq T /\ P \subseteq DOMAIN req
      <3>1. OneSessionPerChallenge
        BY DEF GuardedInv, SessionsInv
      <3>2. \A q \in P : req[q].token = t
        BY <2>2, <3>1, PaymentsHeld DEF OneSessionPerChallenge
      <3>3. QED
        BY <3>2, PaymentsHeld
    <2>5. p \in [P -> Int]
      BY <2>4, AmountsNatural
    <2>6. \A q \in P : p[q] <= f[q]
      BY <2>4, AmountsNatural DEF HeldUnder
    <2>7. \A q \in T : 0 <= f[q]
      BY AmountsNatural DEF HeldUnder, HoldersOf, Holders
    <2>8. SumFunction(f) = sessions[t].spent /\ sessions[t].spent <= MaxTotal[c]
      BY <2>2 DEF SpendInv, SpentMatchesHolders, HeldUnder
    <2>9. SumFunction(p) <= SumFunction(f)
      <3> HIDE DEF P, p, T, f
      <3> QED
        BY <2>3, <2>4, <2>5, <2>6, <2>7, SumPart
    <2>10. SumFunction(p) \in Int /\ sessions[t].spent \in Int /\ MaxTotal[c] \in Int
      <3>1. IsFiniteSet(P)
        BY <2>3, <2>4, FS_Subset
      <3>2. SumFunction(p) \in Int
        <4> HIDE DEF P, p
        <4> QED
          BY <2>5, <3>1, SumInt
      <3>3. sessions[t].spent \in Int
        BY <2>2 DEF GuardedInv, SessionsInv, SessionsTypeOK, SessionRow
      <3>4. QED
        BY <3>2, <3>3, MaxTotalAssumption
    <2>11. QED
      BY <2>8, <2>9, <2>10
  <1>3. QED
    BY <1>1, <1>2

\* What leaves a payer's wallet under one signed challenge stays within its
\* maxTotalMicro, for any number of racing authorize and settle requests, as long as
\* the handler saw what became of its transfers.
THEOREM CapSafety == GuardedSpec => []WithinSignedCap
  <1>1. GuardedInv /\ SpendInv => WithinSignedCap
    BY CapHolds DEF WithinSignedCap
  <1>2. QED
    BY <1>1, SpendInvariant, PTL

=============================================================================
