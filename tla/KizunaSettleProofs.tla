-------------------------- MODULE KizunaSettleProofs --------------------------
(***************************************************************************)
(* Concurrent settle handlers implement the ledger, answer truthfully and  *)
(* never consume credit for a payment that was not made.                   *)
(***************************************************************************)
EXTENDS KizunaSettle, KizunaLedgerProofs

-----------------------------------------------------------------------------
(* The inductive invariant: what a handler may rely on at each await, however *)
(* stale the row it read has become.                                          *)

ConsumedBy(n, s) == Consumed(n) /\ reservations[n].settlement = s

\* What holds of the request q wherever it stands.
SoundAt(q) ==
    LET h == req[q]
    IN  /\ h.pc \in {"insert", "pay", "finalize"} =>
              /\ h.nonce \in DOMAIN reservations
              /\ h.amount <= reservations[h.nonce].amount
        /\ h.pc = "finalize" => q \in landed
        /\ h.pc \in {"billable", "commit"} => ConsumedBy(h.nonce, q)
        /\ h.pc = "replay" => Consumed(h.nonce)
        /\ h.reply \in {"ok", "retry"} => ConsumedBy(h.nonce, h.tx)
        /\ FailClosed /\ h.reply = "ok" => h.nonce \in kernel

HandlersSound == \A q \in DOMAIN req : SoundAt(q)

\* A settlement row belongs to the request it is named after.
RowOwned(s) ==
    /\ s \in DOMAIN req
    /\ settlements[s].nonce = req[s].nonce
    /\ settlements[s].nonce \in DOMAIN reservations
    /\ settlements[s].status = "confirmed" => ConsumedBy(settlements[s].nonce, s)

SettlementsOwned == \A s \in DOMAIN settlements : RowOwned(s)

PaidFor(n) ==
    LET s == reservations[n].settlement
    IN  /\ s \in landed
        /\ s \in DOMAIN req
        /\ req[s].nonce = n
        /\ req[s].amount <= reservations[n].amount

ConsumptionsPaid == \A n \in DOMAIN reservations : Consumed(n) => PaidFor(n)

HandlerInv == SettleTypeOK /\ HandlersSound /\ SettlementsOwned /\ ConsumptionsPaid

SettleInv == ChargeInv /\ HandlerInv

\* A step of the reservations that undoes no consumption and consumes nothing
\* that is not paid for.
Accounted ==
    /\ \A m \in DOMAIN reservations :
          /\ m \in DOMAIN reservations'
          /\ reservations'[m].amount = reservations[m].amount
          /\ Consumed(m) => reservations'[m] = reservations[m]
    /\ \A m \in DOMAIN reservations' :
          reservations'[m].status = "consumed" => Consumed(m) \/ PaidFor(m)'

\* The settlement rows after a step are the old ones, none newly confirmed, the
\* row of a request that holds a reservation, or accounted for otherwise.
RowsAccounted ==
    \A s \in DOMAIN settlements' :
       \/ /\ s \in DOMAIN settlements
          /\ settlements'[s].nonce = settlements[s].nonce
          /\ settlements'[s].status = "confirmed" => settlements[s].status = "confirmed"
       \/ /\ s \in DOMAIN req
          /\ settlements'[s].nonce = req[s].nonce
          /\ req[s].nonce \in DOMAIN reservations
          /\ settlements'[s].status = "pending"
       \/ RowOwned(s)'

-----------------------------------------------------------------------------
(* Accounted steps of the ledger *)

\* A step that leaves the reservations alone is accounted for.
LEMMA UnchangedAccounted ==
    ASSUME UNCHANGED reservations
    PROVE  Accounted
  BY DEF Accounted, Consumed

\* A step that leaves the settlement rows alone is accounted for.
LEMMA UnchangedRowsAccounted ==
    ASSUME UNCHANGED settlements
    PROVE  RowsAccounted
  BY DEF RowsAccounted

\* A new reservation consumes nothing.
LEMMA CreateAccounted ==
    ASSUME NEW n, NEW a, NEW l, NEW p, NEW amount, NEW mode,
           createKizunaReservation(n, a, l, p, amount, mode)
    PROVE  Accounted
  BY DEF createKizunaReservation, WithRow, Accounted, Consumed

\* A release consumes nothing and undoes no consumption.
LEMMA ReleaseAccounted ==
    ASSUME TypeOK, NEW n, NEW st \in {"released", "expired"},
           releaseKizunaReservation(n, st)
    PROVE  Accounted
  <1> DEFINE row == WithStatus(reservations[n], st, reservations[n].settlement)
  <1>1. n \in DOMAIN reservations /\ ~Consumed(n)
    BY DEF releaseKizunaReservation, IsReserved, Consumed
  <1>2. row.status # "consumed" /\ row.amount = reservations[n].amount
    BY DEF WithStatus
  <1>3. reservations' = [reservations EXCEPT ![n] = row]
    BY DEF releaseKizunaReservation
  <1> HIDE DEF row
  <1>4. QED
    BY <1>1, <1>2, <1>3 DEF TypeOK, Accounted, Consumed

\* The row insertSettlement adds belongs to the request that inserts it.
LEMMA InsertRowsAccounted ==
    ASSUME TypeOK, NEW q \in DOMAIN req, req[q].nonce \in DOMAIN reservations,
           insertSettlement(q, req[q].nonce, "pending")
    PROVE  RowsAccounted
  <1> DEFINE row == [status |-> "pending", nonce |-> req[q].nonce]
  <1>1. settlements' = WithRow(settlements, q, row)
    BY DEF insertSettlement
  <1>2. row.status = "pending" /\ row.nonce = req[q].nonce
    OBVIOUS
  <1> HIDE DEF row
  <1>3. QED
    BY <1>1, <1>2 DEF WithRow, RowsAccounted

\* Marking a settlement failed confirms nothing.
LEMMA UpdateRowsAccounted ==
    ASSUME TypeOK, NEW q, updateSettlementStatus(q, "failed")
    PROVE  RowsAccounted
  BY DEF updateSettlementStatus, TypeOK, SettlementRow, RowsAccounted

\* Consumed rows and their settlements survive such a step.
LEMMA ConsumedStays ==
    ASSUME Accounted, NEW n, Consumed(n)
    PROVE  n \in DOMAIN reservations' /\ reservations'[n] = reservations[n]
  BY DEF Accounted, Consumed

\* A step whose ledger part is accounted for keeps the invariant if the handlers it
\* moves are sound where they arrive.
LEMMA AccountedStep ==
    ASSUME SettleInv, Accounted, RowsAccounted, SettleTypeOK',
           landed \subseteq landed', kernel \subseteq kernel',
           \A o \in DOMAIN req : /\ o \in DOMAIN req'
                                 /\ req'[o].nonce = req[o].nonce
                                 /\ req'[o].amount = req[o].amount,
           \A o \in DOMAIN req' : \/ o \in DOMAIN req /\ req'[o] = req[o]
                                  \/ SoundAt(o)'
    PROVE  HandlerInv'
  <1>1. HandlersSound'
    <2> SUFFICES ASSUME NEW o \in DOMAIN req', o \in DOMAIN req, req'[o] = req[o]
                 PROVE  SoundAt(o)'
      BY DEF HandlersSound
    <2>1. SoundAt(o)
      BY DEF SettleInv, HandlerInv, HandlersSound
    <2>2. \A n, s : ConsumedBy(n, s) => /\ n \in DOMAIN reservations'
                                        /\ reservations'[n] = reservations[n]
      BY ConsumedStays DEF ConsumedBy
    <2>3. \A n : Consumed(n) => /\ n \in DOMAIN reservations'
                                /\ reservations'[n] = reservations[n]
      BY ConsumedStays
    <2>4. \A n \in DOMAIN reservations : /\ n \in DOMAIN reservations'
                                         /\ reservations'[n].amount = reservations[n].amount
      BY DEF Accounted
    <2>5. QED
      BY <2>1, <2>2, <2>3, <2>4 DEF SoundAt, ConsumedBy, Consumed
  <1>2. SettlementsOwned'
    <2> SUFFICES ASSUME NEW s \in DOMAIN settlements'
                 PROVE  RowOwned(s)'
      BY DEF SettlementsOwned
    <2>1. CASE /\ s \in DOMAIN settlements
               /\ settlements'[s].nonce = settlements[s].nonce
               /\ settlements'[s].status = "confirmed" => settlements[s].status = "confirmed"
      <3>1. RowOwned(s)
        BY <2>1 DEF SettleInv, HandlerInv, SettlementsOwned
      <3>2. /\ s \in DOMAIN req' /\ settlements'[s].nonce = req'[s].nonce
            /\ settlements'[s].nonce \in DOMAIN reservations'
        BY <2>1, <3>1 DEF RowOwned, Accounted
      <3>3. ASSUME settlements'[s].status = "confirmed"
            PROVE  /\ reservations'[settlements[s].nonce].status = "consumed"
                   /\ reservations'[settlements[s].nonce].settlement = s
        <4>1. ConsumedBy(settlements[s].nonce, s)
          BY <2>1, <3>1, <3>3 DEF RowOwned
        <4>2. reservations'[settlements[s].nonce] = reservations[settlements[s].nonce]
          BY <4>1, ConsumedStays DEF ConsumedBy
        <4>3. QED
          BY <4>1, <4>2 DEF ConsumedBy, Consumed
      <3>4. QED
        BY <2>1, <3>2, <3>3 DEF RowOwned, ConsumedBy, Consumed
    <2>2. CASE /\ s \in DOMAIN req
               /\ settlements'[s].nonce = req[s].nonce
               /\ req[s].nonce \in DOMAIN reservations
               /\ settlements'[s].status = "pending"
      BY <2>2 DEF RowOwned, Accounted
    <2>3. QED
      BY <2>1, <2>2 DEF RowsAccounted
  <1>3. ConsumptionsPaid'
    <2> SUFFICES ASSUME NEW n \in DOMAIN reservations',
                        reservations'[n].status = "consumed"
                 PROVE  PaidFor(n)'
      BY DEF ConsumptionsPaid, Consumed
    <2>1. CASE Consumed(n)
      <3>1. n \in DOMAIN reservations /\ reservations'[n] = reservations[n]
        BY <2>1, ConsumedStays DEF Consumed
      <3>2. PaidFor(n)
        BY <2>1, <3>1 DEF SettleInv, HandlerInv, ConsumptionsPaid
      <3>3. QED
        BY <3>1, <3>2 DEF PaidFor
    <2>2. QED
      BY <2>1 DEF Accounted
  <1>4. QED
    BY <1>1, <1>2, <1>3 DEF HandlerInv

\* The same for a step that moves no handler.
LEMMA OtherWriter ==
    ASSUME SettleInv, Accounted, RowsAccounted, UNCHANGED req, SettleTypeOK',
           landed \subseteq landed', kernel \subseteq kernel'
    PROVE  HandlerInv'
  BY AccountedStep

\* The handler a step moves keeps its nonce and amount, the others are untouched.
LEMMA BecomeMoves ==
    ASSUME SettleTypeOK, NEW q \in DOMAIN req, NEW pc \in PC,
           NEW tx \in Settlement \cup {NoTx}, NEW reply \in Reply,
           Become(q, pc, tx, reply)
    PROVE  /\ DOMAIN req' = DOMAIN req
           /\ req' \in [DOMAIN req' -> Handler]
           /\ \A o \in DOMAIN req : o # q => req'[o] = req[o]
           /\ req'[q] = [pc |-> pc, nonce |-> req[q].nonce, amount |-> req[q].amount,
                         tx |-> tx, reply |-> reply]
  <1> DEFINE row == [pc |-> pc, nonce |-> req[q].nonce, amount |-> req[q].amount,
                     tx |-> tx, reply |-> reply]
  <1>1. req[q] \in Handler
    BY DEF SettleTypeOK
  <1>2. row \in Handler
    BY <1>1 DEF Handler
  <1>3. req' = [req EXCEPT ![q] = row]
    BY DEF Become
  <1>4. req \in [DOMAIN req -> Handler]
    BY DEF SettleTypeOK
  <1> HIDE DEF row
  <1>5. /\ DOMAIN req' = DOMAIN req
        /\ req' \in [DOMAIN req' -> Handler]
        /\ \A o \in DOMAIN req : o # q => req'[o] = req[o]
        /\ req'[q] = row
    BY <1>2, <1>3, <1>4
  <1>6. QED
    BY <1>5 DEF row

\* Such a step in which the request q moves to where its facts hold.
LEMMA AccountedMove ==
    ASSUME SettleInv, Accounted, RowsAccounted,
           NEW q \in DOMAIN req, NEW pc \in PC,
           NEW tx \in Settlement \cup {NoTx}, NEW reply \in Reply,
           Become(q, pc, tx, reply),
           pending' \subseteq Request, landed' \subseteq Request, kernel' \subseteq Nonce,
           landed \subseteq landed', kernel \subseteq kernel',
           pc \in {"insert", "pay", "finalize"} =>
              /\ req[q].nonce \in DOMAIN reservations
              /\ req[q].amount <= reservations[req[q].nonce].amount,
           pc = "finalize" => q \in landed',
           pc \in {"billable", "commit"} => ConsumedBy(req[q].nonce, q),
           pc = "replay" => Consumed(req[q].nonce),
           reply \in {"ok", "retry"} => ConsumedBy(req[q].nonce, tx),
           FailClosed /\ reply = "ok" => req[q].nonce \in kernel'
    PROVE  HandlerInv'
  <1>1. SettleTypeOK
    BY DEF SettleInv, HandlerInv
  <1>2. /\ DOMAIN req' = DOMAIN req
        /\ req' \in [DOMAIN req' -> Handler]
        /\ \A o \in DOMAIN req : o # q => req'[o] = req[o]
        /\ req'[q] = [pc |-> pc, nonce |-> req[q].nonce, amount |-> req[q].amount,
                      tx |-> tx, reply |-> reply]
    BY <1>1, BecomeMoves
  <1>3. /\ req'[q].nonce = req[q].nonce /\ req'[q].amount = req[q].amount
        /\ req'[q].pc = pc /\ req'[q].tx = tx /\ req'[q].reply = reply
    BY <1>2
  <1>4. SettleTypeOK'
    BY <1>1, <1>2 DEF SettleTypeOK
  <1>5. SoundAt(q)'
    <2>1. \A n : Consumed(n) => /\ n \in DOMAIN reservations'
                                /\ reservations'[n] = reservations[n]
                                /\ reservations'[n].status = "consumed"
      BY ConsumedStays DEF Consumed
    <2>2. \A n \in DOMAIN reservations : /\ n \in DOMAIN reservations'
                                         /\ reservations'[n].amount = reservations[n].amount
      BY DEF Accounted
    <2>3. pc \in {"insert", "pay", "finalize"} =>
              /\ req'[q].nonce \in DOMAIN reservations'
              /\ req'[q].amount <= reservations'[req'[q].nonce].amount
      BY <1>3, <2>2
    <2>4. pc \in {"billable", "commit"} =>
              /\ req'[q].nonce \in DOMAIN reservations'
              /\ reservations'[req'[q].nonce].status = "consumed"
              /\ reservations'[req'[q].nonce].settlement = q
      BY <1>3, <2>1 DEF ConsumedBy
    <2>5. pc = "replay" =>
              /\ req'[q].nonce \in DOMAIN reservations'
              /\ reservations'[req'[q].nonce].status = "consumed"
      BY <1>3, <2>1
    <2>6. reply \in {"ok", "retry"} =>
              /\ req'[q].nonce \in DOMAIN reservations'
              /\ reservations'[req'[q].nonce].status = "consumed"
              /\ reservations'[req'[q].nonce].settlement = req'[q].tx
      BY <1>3, <2>1 DEF ConsumedBy
    <2>7. FailClosed /\ reply = "ok" => req'[q].nonce \in kernel'
      BY <1>3
    <2>8. QED
      BY <1>3, <2>3, <2>4, <2>5, <2>6, <2>7 DEF SoundAt, ConsumedBy, Consumed
  <1>6. QED
    BY <1>2, <1>3, <1>4, <1>5, AccountedStep

-----------------------------------------------------------------------------
(* One lemma per action: its ledger part is a step of the ledger or none, and *)
(* the invariant is kept.                                                     *)

\* What every action relies on.
LEMMA InvFacts ==
    ASSUME SettleInv
    PROVE  /\ TypeOK /\ SettleTypeOK
           /\ pending \subseteq Request /\ landed \subseteq Request /\ kernel \subseteq Nonce
           /\ \A q \in DOMAIN req : /\ q \in Request
                                    /\ req[q] \in Handler
                                    /\ req[q].nonce \in Nonce
                                    /\ SoundAt(q)
           /\ \A s \in DOMAIN settlements : RowOwned(s)
           /\ \A n \in DOMAIN reservations : Consumed(n) => PaidFor(n)
  BY DEF SettleInv, HandlerInv, ChargeInv, SettleTypeOK, Handler, HandlersSound,
         SettlementsOwned, ConsumptionsPaid

\* NoTx is a value of the tx field.
LEMMA NoTxFacts == NoTx \in Settlement \cup {NoTx}
  OBVIOUS

\* Reading the reservation: the request goes on only where its facts hold.
LEMMA ReadSafe ==
    ASSUME SettleInv, NEW q, ReadReservation(q)
    PROVE  [Next]_vars /\ HandlerInv'
  <1>1. q \in DOMAIN req /\ UNCHANGED <<vars, pending, landed, kernel>>
    BY DEF ReadReservation, At
  <1>2. Accounted /\ RowsAccounted
    BY <1>1, UnchangedAccounted, UnchangedRowsAccounted DEF vars
  <1>3. /\ pending' \subseteq Request /\ landed' \subseteq Request
        /\ kernel' \subseteq Nonce /\ landed \subseteq landed' /\ kernel \subseteq kernel'
    BY <1>1, InvFacts
  <1>4. CASE IsReplayable(req[q].nonce) /\ Goto(q, "replay")
    <2>1. Consumed(req[q].nonce)
      BY <1>4 DEF IsReplayable, Consumed
    <2>2. Become(q, "replay", NoTx, "none")
      BY <1>4 DEF Goto
    <2>3. QED
      BY <1>1, <1>2, <1>3, <2>1, <2>2, AccountedMove, NoTxFacts DEF PC, Reply
  <1>5. CASE Goto(q, "expire")
    <2>1. Become(q, "expire", NoTx, "none")
      BY <1>5 DEF Goto
    <2>2. QED
      BY <1>1, <1>2, <1>3, <2>1, AccountedMove, NoTxFacts DEF PC, Reply
  <1>6. CASE IsLive(q) /\ CoversAmount(q) /\ Goto(q, "insert")
    <2>1. /\ req[q].nonce \in DOMAIN reservations
          /\ req[q].amount <= reservations[req[q].nonce].amount
      BY <1>6 DEF IsLive, IsReserved, CoversAmount
    <2>2. Become(q, "insert", NoTx, "none")
      BY <1>6 DEF Goto
    <2>3. QED
      BY <1>1, <1>2, <1>3, <2>1, <2>2, AccountedMove, NoTxFacts DEF PC, Reply
  <1>7. CASE Answer(q, "refused", NoTx)
    <2>1. Become(q, "done", NoTx, "refused")
      BY <1>7 DEF Answer
    <2>2. QED
      BY <1>1, <1>2, <1>3, <2>1, AccountedMove, NoTxFacts DEF PC, Reply
  <1>8. CASE Answer(q, "failed", NoTx)
    <2>1. Become(q, "done", NoTx, "failed")
      BY <1>8 DEF Answer
    <2>2. QED
      BY <1>1, <1>2, <1>3, <2>1, AccountedMove, NoTxFacts DEF PC, Reply
  <1>9. QED
    BY <1>1, <1>4, <1>5, <1>6, <1>7, <1>8 DEF ReadReservation

\* A request that ends, or goes to an await at which it relies on nothing.
LEMMA IdleMove ==
    ASSUME SettleInv, Accounted, RowsAccounted, NEW q \in DOMAIN req,
           NEW pc \in {"expire", "catch", "catchPaid", "release", "done", "crashed"},
           NEW reply \in {"none", "refused", "failed"},
           Become(q, pc, NoTx, reply), UNCHANGED <<landed, kernel>>,
           pending' \subseteq Request
    PROVE  HandlerInv'
  <1>1. /\ landed' \subseteq Request /\ kernel' \subseteq Nonce
        /\ landed \subseteq landed' /\ kernel \subseteq kernel'
    BY InvFacts
  <1>2. QED
    BY <1>1, AccountedMove, NoTxFacts DEF PC, Reply

\* A release that may throw and be swallowed is a step of the ledger or none.
LEMMA AttemptedRelease ==
    ASSUME SettleInv, NEW q \in DOMAIN req, NEW st \in {"released", "expired"},
           Attempt(releaseKizunaReservation(req[q].nonce, st), IsReserved(req[q].nonce))
    PROVE  [Next]_vars /\ Accounted /\ RowsAccounted
  <1>1. TypeOK /\ req[q].nonce \in Nonce
    BY InvFacts
  <1>2. CASE UNCHANGED vars
    BY <1>2, UnchangedAccounted, UnchangedRowsAccounted DEF vars
  <1>3. CASE releaseKizunaReservation(req[q].nonce, st)
    <2>1. Next
      BY <1>1, <1>3 DEF Next
    <2>2. UNCHANGED settlements
      BY <1>3 DEF releaseKizunaReservation
    <2>3. QED
      BY <1>1, <1>3, <2>1, <2>2, ReleaseAccounted, UnchangedRowsAccounted
  <1>4. QED
    BY <1>2, <1>3 DEF Attempt

\* Expiring the reservation a late request finds.
LEMMA ExpireSafe ==
    ASSUME SettleInv, NEW q, ExpireReservation(q)
    PROVE  [Next]_vars /\ HandlerInv'
  <1>1. /\ q \in DOMAIN req /\ UNCHANGED <<pending, landed, kernel>>
        /\ Become(q, "done", NoTx, "refused")
        /\ Attempt(releaseKizunaReservation(req[q].nonce, "expired"),
                   IsReserved(req[q].nonce))
    BY DEF ExpireReservation, At, Answer
  <1>2. pending' \subseteq Request
    BY <1>1, InvFacts
  <1>3. QED
    BY <1>1, <1>2, AttemptedRelease, IdleMove

\* Giving the reservation of a failed request back.
LEMMA CatchReleaseSafe ==
    ASSUME SettleInv, NEW q, CatchRelease(q)
    PROVE  [Next]_vars /\ HandlerInv'
  <1>1. /\ q \in DOMAIN req /\ UNCHANGED <<pending, landed, kernel>>
        /\ Become(q, "done", NoTx, "failed")
        /\ Attempt(releaseKizunaReservation(req[q].nonce, "released"),
                   IsReserved(req[q].nonce))
    BY DEF CatchRelease, At, Answer
  <1>2. pending' \subseteq Request
    BY <1>1, InvFacts
  <1>3. QED
    BY <1>1, <1>2, AttemptedRelease, IdleMove

\* Marking the settlement of a failed request.
LEMMA CatchFailedSafe ==
    ASSUME SettleInv, NEW q, CatchFailed(q)
    PROVE  [Next]_vars /\ HandlerInv'
  <1>1. /\ q \in DOMAIN req /\ UNCHANGED <<pending, landed, kernel>>
        /\ \/ Become(q, "release", NoTx, "none")
           \/ Become(q, "done", NoTx, "failed")
        /\ UNCHANGED vars \/ updateSettlementStatus(q, "failed")
    BY DEF CatchFailed, At, Answer, Goto, Attempt
  <1>2. pending' \subseteq Request /\ q \in Settlement /\ TypeOK
    BY <1>1, InvFacts DEF Request
  <1>3. [Next]_vars
    BY <1>1, <1>2 DEF Next
  <1>4. UNCHANGED reservations
    BY <1>1 DEF vars, updateSettlementStatus
  <1>5. RowsAccounted
    BY <1>1, <1>2, UpdateRowsAccounted, UnchangedRowsAccounted DEF vars
  <1>6. QED
    BY <1>1, <1>2, <1>3, <1>4, <1>5, UnchangedAccounted, IdleMove

\* Inserting the pending settlement.
LEMMA InsertSafe ==
    ASSUME SettleInv, NEW q, InsertPending(q)
    PROVE  [Next]_vars /\ HandlerInv'
  <1>1. q \in DOMAIN req /\ req[q].pc = "insert" /\ UNCHANGED <<pending, landed, kernel>>
    BY DEF InsertPending, At
  <1>2. /\ req[q].nonce \in DOMAIN reservations
        /\ req[q].amount <= reservations[req[q].nonce].amount
        /\ q \in Settlement /\ TypeOK
    BY <1>1, InvFacts DEF SoundAt, Request
  <1>3. /\ pending' \subseteq Request /\ landed' \subseteq Request
        /\ kernel' \subseteq Nonce /\ landed \subseteq landed' /\ kernel \subseteq kernel'
    BY <1>1, InvFacts
  <1>4. CASE insertSettlement(q, req[q].nonce, "pending") /\ Goto(q, "pay")
    <2>1. Next
      BY <1>2, <1>4 DEF Next
    <2>2. Accounted /\ RowsAccounted
      <3>1. UNCHANGED reservations
        BY <1>4 DEF insertSettlement
      <3>2. QED
        BY <1>1, <1>2, <1>4, <3>1, UnchangedAccounted, InsertRowsAccounted
    <2>3. Become(q, "pay", NoTx, "none")
      BY <1>4 DEF Goto
    <2>4. QED
      BY <1>1, <1>2, <1>3, <2>1, <2>2, <2>3, AccountedMove, NoTxFacts DEF PC, Reply
  <1>5. CASE UNCHANGED vars /\ Goto(q, "catch")
    <2>1. Become(q, "catch", NoTx, "none") /\ UNCHANGED <<reservations, settlements>>
      BY <1>5 DEF Goto, vars
    <2>2. QED
      BY <1>1, <1>3, <1>5, <2>1, UnchangedAccounted, UnchangedRowsAccounted, IdleMove
  <1>6. QED
    BY <1>4, <1>5 DEF InsertPending

\* Paying the merchant: only a transfer that executed leads to the finalize.
LEMMA PaySafe ==
    ASSUME SettleInv, NEW q, PayMerchant(q)
    PROVE  [Next]_vars /\ HandlerInv'
  <1>1. /\ q \in DOMAIN req /\ req[q].pc = "pay" /\ UNCHANGED <<vars, kernel>>
        /\ UNCHANGED <<reservations, settlements>>
    BY DEF PayMerchant, At, vars
  <1>2. /\ req[q].nonce \in DOMAIN reservations
        /\ req[q].amount <= reservations[req[q].nonce].amount
        /\ q \in Request
    BY <1>1, InvFacts DEF SoundAt
  <1>3. Accounted /\ RowsAccounted
    BY <1>1, UnchangedAccounted, UnchangedRowsAccounted
  <1>4. CASE Goto(q, "finalize") /\ landed' = landed \cup {q} /\ UNCHANGED pending
    <2>1. Become(q, "finalize", NoTx, "none")
      BY <1>4 DEF Goto
    <2>2. /\ pending' \subseteq Request /\ landed' \subseteq Request
          /\ kernel' \subseteq Nonce /\ landed \subseteq landed' /\ kernel \subseteq kernel'
          /\ q \in landed'
      BY <1>1, <1>2, <1>4, InvFacts
    <2>3. QED
      BY <1>1, <1>2, <1>3, <2>1, <2>2, AccountedMove, NoTxFacts DEF PC, Reply
  <1>5. CASE Goto(q, "catch") /\ pending' \subseteq pending \cup {q} /\ UNCHANGED landed
    <2>1. Become(q, "catch", NoTx, "none") /\ pending' \subseteq Request
      BY <1>2, <1>5, InvFacts DEF Goto
    <2>2. QED
      BY <1>1, <1>3, <1>5, <2>1, IdleMove
  <1>6. QED
    BY <1>4, <1>5 DEF PayMerchant

\* A process that dies leaves the ledger alone.
LEMMA CrashSafe ==
    ASSUME SettleInv, NEW q, Crash(q)
    PROVE  [Next]_vars /\ HandlerInv'
  <1>1. /\ q \in DOMAIN req /\ UNCHANGED <<vars, landed, kernel>>
        /\ UNCHANGED <<reservations, settlements>>
        /\ Become(q, "crashed", NoTx, "none")
        /\ pending' \subseteq pending \cup {q}
    BY DEF Crash, Goto, vars
  <1>2. pending' \subseteq Request
    BY <1>1, InvFacts
  <1>3. QED
    BY <1>1, <1>2, UnchangedAccounted, UnchangedRowsAccounted, IdleMove

\* Reading the billable event of the settlement just finalized.
LEMMA BillableSafe ==
    ASSUME SettleInv, NEW q, ReadBillable(q)
    PROVE  [Next]_vars /\ HandlerInv'
  <1>1. /\ q \in DOMAIN req /\ req[q].pc = "billable"
        /\ UNCHANGED <<vars, pending, landed, kernel>>
        /\ UNCHANGED <<reservations, settlements>>
    BY DEF ReadBillable, At, vars
  <1>2. Accounted /\ RowsAccounted
    BY <1>1, UnchangedAccounted, UnchangedRowsAccounted
  <1>3. /\ pending' \subseteq Request /\ landed' \subseteq Request
        /\ kernel' \subseteq Nonce /\ landed \subseteq landed' /\ kernel \subseteq kernel'
    BY <1>1, InvFacts
  <1>4. CASE Goto(q, "commit")
    <2>1. Become(q, "commit", NoTx, "none") /\ ConsumedBy(req[q].nonce, q)
      BY <1>1, <1>4, InvFacts DEF Goto, SoundAt
    <2>2. QED
      BY <1>1, <1>2, <1>3, <2>1, AccountedMove, NoTxFacts DEF PC, Reply
  <1>5. CASE Goto(q, "catchPaid")
    <2>1. Become(q, "catchPaid", NoTx, "none")
      BY <1>5 DEF Goto
    <2>2. QED
      BY <1>1, <1>2, <1>3, <2>1, IdleMove
  <1>6. QED
    BY <1>4, <1>5 DEF ReadBillable

\* An answer names the transaction that consumed the reservation, and a success
\* is not given before a fail-closed kernel has committed.
LEMMA CommitSafe ==
    ASSUME SettleInv, NEW q \in DOMAIN req, NEW tx \in Settlement \cup {NoTx},
           ConsumedBy(req[q].nonce, tx), CommitDecision(q, tx)
    PROVE  [Next]_vars /\ HandlerInv'
  <1>1. UNCHANGED <<vars, pending, landed>> /\ UNCHANGED <<reservations, settlements>>
    BY DEF CommitDecision, vars
  <1>2. Accounted /\ RowsAccounted
    BY <1>1, UnchangedAccounted, UnchangedRowsAccounted
  <1>3. PICK reply \in {"ok", "retry"} :
          /\ Become(q, "done", tx, reply)
          /\ kernel' = kernel \/ kernel' = kernel \cup {req[q].nonce}
          /\ FailClosed /\ reply = "ok" => req[q].nonce \in kernel'
    BY DEF CommitDecision, Answer, KernelOutage
  <1>4. /\ pending' \subseteq Request /\ landed' \subseteq Request
        /\ kernel' \subseteq Nonce /\ landed \subseteq landed' /\ kernel \subseteq kernel'
    BY <1>1, <1>3, InvFacts
  <1>5. HandlerInv'
    BY <1>2, <1>3, <1>4, AccountedMove DEF PC, Reply
  <1>6. QED
    BY <1>1, <1>5

\* Committing the decision of the settlement just finalized.
LEMMA CommitSettledSafe ==
    ASSUME SettleInv, NEW q, CommitSettled(q)
    PROVE  [Next]_vars /\ HandlerInv'
  <1>1. q \in DOMAIN req /\ req[q].pc = "commit" /\ CommitDecision(q, q)
    BY DEF CommitSettled, At
  <1>2. ConsumedBy(req[q].nonce, q) /\ q \in Settlement \cup {NoTx}
    BY <1>1, InvFacts DEF SoundAt, Request
  <1>3. QED
    BY <1>1, <1>2, CommitSafe

\* Answering a consumed reservation again from its row.
LEMMA ReplaySafe ==
    ASSUME SettleInv, NEW q, ReplaySettled(q)
    PROVE  [Next]_vars /\ HandlerInv'
  <1> DEFINE tx == reservations[req[q].nonce].settlement
  <1>1. q \in DOMAIN req /\ req[q].pc = "replay"
    BY DEF ReplaySettled, At
  <1>2. Consumed(req[q].nonce) /\ TypeOK
    BY <1>1, InvFacts DEF SoundAt
  <1>3. CASE CommitDecision(q, tx)
    <2>1. tx \in Settlement \cup {NoTx}
      <3>1. reservations[req[q].nonce] \in Reservation
        BY <1>2 DEF Consumed, TypeOK
      <3>2. QED
        BY <3>1 DEF Reservation, NoTx
    <2>2. ConsumedBy(req[q].nonce, tx)
      BY <1>2 DEF ConsumedBy
    <2> HIDE DEF tx
    <2>3. QED
      BY <1>1, <1>3, <2>1, <2>2, CommitSafe
  <1>4. CASE /\ Answer(q, "failed", NoTx) /\ UNCHANGED <<vars, pending, landed>>
             /\ kernel' \in {kernel, kernel \cup {req[q].nonce}}
    <2>1. /\ Become(q, "done", NoTx, "failed") /\ pending' \subseteq Request
          /\ UNCHANGED <<reservations, settlements>>
      BY <1>4, InvFacts DEF Answer, vars
    <2>2. /\ landed' \subseteq Request /\ landed \subseteq landed'
          /\ kernel' \subseteq Nonce /\ kernel \subseteq kernel'
      BY <1>1, <1>4, InvFacts
    <2>3. Accounted /\ RowsAccounted
      BY <2>1, UnchangedAccounted, UnchangedRowsAccounted
    <2>4. HandlerInv'
      BY <1>1, <2>1, <2>2, <2>3, AccountedMove, NoTxFacts DEF PC, Reply
    <2>5. QED
      BY <1>4, <2>4
  <1>5. QED
    BY <1>3, <1>4 DEF ReplaySettled

\* The one step that consumes: its reservation was paid for before.
LEMMA ConsumeSafe ==
    ASSUME SettleInv, NEW q, At(q, "finalize"),
           finalizeKizunaSettlement(req[q].nonce, q), Goto(q, "billable"),
           UNCHANGED <<pending, landed, kernel>>
    PROVE  Next /\ HandlerInv'
  <1>1. q \in DOMAIN req /\ req[q].pc = "finalize" /\ q \in Settlement /\ TypeOK
        /\ SettleTypeOK
    BY InvFacts DEF At, Request
  <1>n. PICK n \in Nonce : n = req[q].nonce
    BY <1>1, InvFacts
  <1> DEFINE row == WithStatus(reservations[n], "consumed", q)
  <1>2. n \in DOMAIN reservations /\ req[q].amount <= reservations[n].amount /\ q \in landed
    BY <1>1, <1>n, InvFacts DEF SoundAt
  <1>3. q \in DOMAIN settlements /\ ~Consumed(n)
    BY <1>n DEF finalizeKizunaSettlement, IsReserved, Consumed
  <1>4. RowOwned(q)
    BY <1>3, InvFacts
  <1>5. Next
    <2>1. finalizeKizunaSettlement(settlements[q].nonce, q)
      BY <1>4 DEF RowOwned
    <2>2. QED
      BY <1>3, <2>1 DEF Next
  \* The reservations and settlements after the step.
  <1>6. row.status = "consumed" /\ row.settlement = q /\ row.amount = reservations[n].amount
    BY DEF WithStatus
  <1>7. reservations' = [reservations EXCEPT ![n] = row]
    BY <1>n DEF finalizeKizunaSettlement
  <1>8. /\ DOMAIN settlements' = DOMAIN settlements
        /\ \A s \in DOMAIN settlements :
             /\ settlements'[s].nonce = settlements[s].nonce
             /\ s # q => settlements'[s] = settlements[s]
    BY <1>1, <1>3 DEF finalizeKizunaSettlement, TypeOK, SettlementRow
  \* The request after the step.
  <1>9. Become(q, "billable", NoTx, "none")
    BY DEF Goto
  <1>10. /\ DOMAIN req' = DOMAIN req
         /\ req' \in [DOMAIN req' -> Handler]
         /\ \A o \in DOMAIN req : o # q => req'[o] = req[o]
         /\ req'[q] = [pc |-> "billable", nonce |-> n, amount |-> req[q].amount,
                       tx |-> NoTx, reply |-> "none"]
    BY <1>1, <1>n, <1>9, BecomeMoves, NoTxFacts DEF PC, Reply
  <1>11. /\ req'[q].nonce = n /\ req'[q].amount = req[q].amount
         /\ req'[q].pc = "billable" /\ req'[q].reply = "none"
    BY <1>10
  <1> HIDE DEF row
  <1>12. /\ DOMAIN reservations' = DOMAIN reservations
         /\ reservations'[n] = row
         /\ \A m \in DOMAIN reservations : m # n => reservations'[m] = reservations[m]
    BY <1>1, <1>2, <1>7 DEF TypeOK
  <1>13. PaidFor(n)'
    BY <1>1, <1>2, <1>6, <1>10, <1>11, <1>12 DEF PaidFor
  <1>14. Accounted
    BY <1>2, <1>3, <1>6, <1>12, <1>13 DEF Accounted, Consumed
  <1>15. RowsAccounted
    <2>1. RowOwned(q)'
      <3>1. settlements'[q].nonce = n
        BY <1>3, <1>4, <1>8, <1>n DEF RowOwned
      <3>2. QED
        BY <1>1, <1>2, <1>6, <1>10, <1>11, <1>12, <3>1 DEF RowOwned, ConsumedBy, Consumed
    <2>2. QED
      BY <1>8, <2>1 DEF RowsAccounted
  <1>16. SoundAt(q)'
    BY <1>2, <1>6, <1>11, <1>12 DEF SoundAt, ConsumedBy, Consumed
  <1>17. SettleTypeOK'
    BY <1>1, <1>10 DEF SettleTypeOK
  <1>18. \A o \in DOMAIN req : /\ o \in DOMAIN req'
                               /\ req'[o].nonce = req[o].nonce
                               /\ req'[o].amount = req[o].amount
    BY <1>10, <1>11, <1>n
  <1>19. HandlerInv'
    BY <1>10, <1>14, <1>15, <1>16, <1>17, <1>18, AccountedStep
  <1>20. QED
    BY <1>5, <1>19

\* Finalizing, or learning that the reservation is gone.
LEMMA FinalizeSafe ==
    ASSUME SettleInv, NEW q, Finalize(q)
    PROVE  [Next]_vars /\ HandlerInv'
  <1>1. q \in DOMAIN req /\ At(q, "finalize") /\ UNCHANGED <<pending, landed, kernel>>
    BY DEF Finalize, At
  <1>2. CASE finalizeKizunaSettlement(req[q].nonce, q) /\ Goto(q, "billable")
    BY <1>1, <1>2, ConsumeSafe
  <1>3. CASE UNCHANGED vars /\ Goto(q, "catchPaid")
    <2>1. /\ Become(q, "catchPaid", NoTx, "none") /\ pending' \subseteq Request
          /\ UNCHANGED <<reservations, settlements>>
      BY <1>1, <1>3, InvFacts DEF Goto, vars
    <2>2. QED
      BY <1>1, <1>3, <2>1, UnchangedAccounted, UnchangedRowsAccounted, IdleMove
  <1>4. QED
    BY <1>2, <1>3 DEF Finalize

\* A new request relies on nothing.
LEMMA SubmitSafe ==
    ASSUME SettleInv, NEW q \in Request, NEW n \in Nonce, NEW amount \in Amount,
           Submit(q, n, amount)
    PROVE  [Next]_vars /\ HandlerInv'
  <1> DEFINE row == [pc |-> "read", nonce |-> n, amount |-> amount,
                     tx |-> NoTx, reply |-> "none"]
  <1>1. /\ UNCHANGED <<vars, pending, landed, kernel>>
        /\ UNCHANGED <<reservations, settlements>>
        /\ q \notin DOMAIN req
        /\ req' = WithRow(req, q, row)
    BY DEF Submit, vars
  <1>2. row \in Handler
    BY NoTxFacts DEF Handler, PC, Reply
  <1>3. row.pc = "read" /\ row.reply = "none"
    OBVIOUS
  <1> HIDE DEF row
  <1>4. /\ DOMAIN req' = DOMAIN req \cup {q}
        /\ req'[q] = row
        /\ \A o \in DOMAIN req : req'[o] = req[o]
    BY <1>1 DEF WithRow
  <1>5. SettleTypeOK'
    BY <1>1, <1>2, <1>4, InvFacts DEF SettleTypeOK, WithRow
  <1>6. SoundAt(q)'
    BY <1>3, <1>4 DEF SoundAt
  <1>7. \A o \in DOMAIN req' : \/ o \in DOMAIN req /\ req'[o] = req[o]
                               \/ SoundAt(o)'
    BY <1>4, <1>6
  <1>8. HandlerInv'
    BY <1>1, <1>4, <1>5, <1>7, UnchangedAccounted, UnchangedRowsAccounted, AccountedStep
  <1>9. QED
    BY <1>1, <1>8

\* The writers of the ledger that are not settle handlers.
LEMMA OthersSafe ==
    ASSUME SettleInv,
           \/ \E n \in Nonce : Reserve(n) \/ Clock(n) \/ InternalRelease(n)
           \/ Repay
           \/ Fund
    PROVE  [Next]_vars /\ HandlerInv'
  <1>1. UNCHANGED handlerVars
    BY DEF Reserve, Clock, InternalRelease, Repay, Fund
  <1>2. /\ UNCHANGED req /\ SettleTypeOK' /\ landed \subseteq landed' /\ kernel \subseteq kernel'
    BY <1>1, InvFacts DEF handlerVars, SettleTypeOK
  <1>3. ASSUME NEW n \in Nonce, Reserve(n) PROVE [Next]_vars /\ HandlerInv'
    <2>1. PICK a \in Agent, l \in Lane, p \in Pool, amount \in Amount :
             \E mode \in FundingModes(l) : createKizunaReservation(n, a, l, p, amount, mode)
      BY <1>3 DEF Reserve
    <2>2. PICK mode \in FundingModes(l) : createKizunaReservation(n, a, l, p, amount, mode)
      BY <2>1
    <2>3. Next
      BY <2>2 DEF Next
    <2>4. UNCHANGED settlements
      BY <2>2 DEF createKizunaReservation
    <2>5. QED
      BY <1>2, <2>2, <2>3, <2>4, CreateAccounted, UnchangedRowsAccounted, OtherWriter
  <1>4. ASSUME NEW n \in Nonce, InternalRelease(n) PROVE [Next]_vars /\ HandlerInv'
    <2>1. PICK st \in {"released", "expired"} : releaseKizunaReservation(n, st)
      BY <1>4 DEF InternalRelease
    <2>2. Next
      BY <2>1 DEF Next
    <2>3. UNCHANGED settlements
      BY <2>1 DEF releaseKizunaReservation
    <2>4. QED
      BY <1>2, <2>1, <2>2, <2>3, InvFacts, ReleaseAccounted, UnchangedRowsAccounted,
         OtherWriter
  <1>5. ASSUME Next, UNCHANGED <<reservations, settlements>>
        PROVE  [Next]_vars /\ HandlerInv'
    BY <1>2, <1>5, UnchangedAccounted, UnchangedRowsAccounted, OtherWriter
  <1>6. ASSUME NEW n \in Nonce, Clock(n) PROVE [Next]_vars /\ HandlerInv'
    <2>1. Lapse(n)
      BY <1>6 DEF Clock
    <2>2. Next
      BY <2>1 DEF Next
    <2>3. QED
      BY <1>5, <2>1, <2>2 DEF Lapse
  <1>7. CASE Repay
    <2>1. PICK a \in Agent, ref \in Ref, l \in Lane, p \in Pool, amount \in Amount :
             applyKizunaRepayment(a, ref, l, p, amount)
      BY <1>7 DEF Repay
    <2>2. Next
      BY <2>1 DEF Next
    <2>3. QED
      BY <1>5, <2>1, <2>2 DEF applyKizunaRepayment
  <1>8. CASE Fund
    <2>1. PICK a \in Agent, p \in Pool, ref \in Ref, amount \in Amount,
             type \in {"deposit", "withdraw"} : FundingRequest(a, p, ref, type, amount)
      BY <1>8 DEF Fund
    <2>2. Next
      BY <2>1 DEF Next
    <2>3. QED
      BY <1>5, <2>1, <2>2 DEF FundingRequest, applyKizunaFundingEvent
  <1>9. QED
    BY <1>3, <1>4, <1>6, <1>7, <1>8

\* A late transfer executes or is dropped.
LEMMA ResolveSafe ==
    ASSUME SettleInv, NEW q, ResolveTransfer(q)
    PROVE  [Next]_vars /\ HandlerInv'
  <1>1. /\ UNCHANGED <<vars, req, kernel>> /\ UNCHANGED <<reservations, settlements>>
        /\ q \in pending /\ pending' \subseteq pending
        /\ landed \subseteq landed' /\ landed' \subseteq landed \cup {q}
    BY DEF ResolveTransfer, vars
  <1>2. SettleTypeOK'
    BY <1>1, InvFacts DEF SettleTypeOK
  <1>3. QED
    BY <1>1, <1>2, UnchangedAccounted, UnchangedRowsAccounted, OtherWriter

-----------------------------------------------------------------------------
(* Theorems *)

\* The invariant holds before the first request.
LEMMA SettleInitInv == SettleInit => SettleInv
  <1> SUFFICES ASSUME SettleInit PROVE SettleInv
    OBVIOUS
  <1>1. ChargeInv
    BY InitCharge DEF SettleInit
  <1>2. /\ DOMAIN req = {} /\ DOMAIN reservations = {} /\ DOMAIN settlements = {}
        /\ pending = {} /\ landed = {} /\ kernel = {}
    BY DEF SettleInit, Init
  <1>3. SettleTypeOK
    BY <1>2 DEF SettleTypeOK, SettleInit
  <1>4. QED
    BY <1>1, <1>2, <1>3 DEF SettleInv, HandlerInv, HandlersSound, SettlementsOwned,
                            ConsumptionsPaid

\* Every step is one of the ledger or none, and keeps the invariant.
LEMMA SettleStep ==
    ASSUME SettleInv, [SettleNext]_settleVars
    PROVE  [Next]_vars /\ SettleInv'
  <1>1. [Next]_vars /\ HandlerInv'
    <2>1. ASSUME NEW q \in Request, HandlerStep(q) PROVE [Next]_vars /\ HandlerInv'
      BY <2>1, ReadSafe, ExpireSafe, InsertSafe, PaySafe, FinalizeSafe, BillableSafe,
         CommitSettledSafe, ReplaySafe, CatchFailedSafe, CatchReleaseSafe DEF HandlerStep
    <2>2. CASE UNCHANGED settleVars
      <3>1. /\ UNCHANGED vars /\ UNCHANGED <<req, pending, landed, kernel>>
            /\ UNCHANGED <<reservations, settlements>>
        BY <2>2 DEF settleVars, handlerVars, vars
      <3>2. SettleTypeOK'
        BY <3>1, InvFacts DEF SettleTypeOK
      <3>3. QED
        BY <3>1, <3>2, UnchangedAccounted, UnchangedRowsAccounted, OtherWriter
    <2>3. QED
      BY <2>1, <2>2, SubmitSafe, ResolveSafe, CrashSafe, OthersSafe DEF SettleNext
  <1>2. ChargeInv'
    BY <1>1, NextCharge DEF SettleInv
  <1>3. QED
    BY <1>1, <1>2 DEF SettleInv

\* The inductive invariant holds of every behaviour of the handlers.
LEMMA SettleInvariant == SettleSpec => []SettleInv
  <1>1. SettleInv /\ [SettleNext]_settleVars => SettleInv'
    BY SettleStep
  <1>2. QED
    BY <1>1, SettleInitInv, PTL DEF SettleSpec

\* The handlers' state keeps its types: no request ever carries an amount or a
\* reply that POST /settle did not parse or produce.
THEOREM SettleTypeCorrect == SettleSpec => []SettleTypeOK
  <1>1. SettleInv => SettleTypeOK
    BY DEF SettleInv, HandlerInv
  <1>2. QED
    BY <1>1, SettleInvariant, PTL

\* Any number of concurrent POST /settle handlers, with any of the disturbances
\* between their awaits, only ever take the ledger through transactions of
\* KizunaLedger.
THEOREM SettleRefinesLedger == SettleSpec => ImplementsLedger
  <1>1. SettleInit => Init
    BY DEF SettleInit
  <1>2. SettleInv /\ [SettleNext]_settleVars => [Next]_vars
    BY SettleStep
  <1>3. QED
    BY <1>1, <1>2, SettleInvariant, PTL DEF SettleSpec, Spec, ImplementsLedger

\* No interleaving of settle handlers charges a reservation twice.
THEOREM SettleChargesOnce == SettleSpec => []ChargedExactlyOnce
  BY SettleRefinesLedger, ChargeSafe, PTL DEF ImplementsLedger

\* A success or "retry settle to finalize" reply of POST /settle is true, and
\* stays true, however many requests race for the reservation.
THEOREM RepliesSafe == SettleSpec => []RepliesAreTrue
  <1>1. SettleInv => RepliesAreTrue
    <2> SUFFICES ASSUME SettleInv, NEW q \in DOMAIN req, req[q].reply \in {"ok", "retry"}
        PROVE  /\ ConsumedBy(req[q].nonce, req[q].tx)
               /\ req[q].tx \in landed
               /\ <<req[q].nonce, req[q].tx>> \in billable
               /\ FailClosed /\ req[q].reply = "ok" => req[q].nonce \in kernel
      BY DEF RepliesAreTrue, ConsumedBy, Consumed
    <2>1. /\ ConsumedBy(req[q].nonce, req[q].tx)
          /\ FailClosed /\ req[q].reply = "ok" => req[q].nonce \in kernel
      BY InvFacts DEF SoundAt
    <2>2. Consumed(req[q].nonce) /\ req[q].nonce \in DOMAIN reservations
      BY <2>1 DEF ConsumedBy, Consumed
    <2>3. PaidFor(req[q].nonce)
      BY <2>2, InvFacts
    <2>4. <<req[q].nonce, reservations[req[q].nonce].settlement>> \in billable
      BY <2>2 DEF SettleInv, ChargeInv, ConsumedCharged
    <2>5. QED
      BY <2>1, <2>3, <2>4 DEF PaidFor, ConsumedBy
  <1>2. QED
    BY <1>1, SettleInvariant, PTL

\* Credit is consumed only by a request whose transfer executed, for at most the
\* amount reserved, and only such a request's settlement reads confirmed.
THEOREM ConsumptionSafe == SettleSpec => []ConsumedIsPaid
  <1>1. SettleInv => ConsumedIsPaid
    <2> SUFFICES ASSUME SettleInv PROVE ConsumedIsPaid
      OBVIOUS
    <2>1. \A n \in DOMAIN reservations :
             reservations[n].status = "consumed" => PaidFor(n)
      BY InvFacts DEF Consumed
    <2>2. \A s \in DOMAIN settlements :
             settlements[s].status = "confirmed" => ConsumedBy(settlements[s].nonce, s)
      BY InvFacts DEF RowOwned
    <2>3. QED
      BY <2>1, <2>2 DEF ConsumedIsPaid, PaidFor, ConsumedBy, Consumed
  <1>2. QED
    BY <1>1, SettleInvariant, PTL

-----------------------------------------------------------------------------
(* Requests that do not overlap, on a database and a chain that answer: what *)
(* holds when nothing but the kernel or the process itself can fail.         *)

\* One request per nonce at a time, no reservation released or expired under a
\* request, every statement and every transfer with a known outcome.
Calm == Disturbance \subseteq {"kernel", "crash"}

HoldsReservation == {"insert", "pay", "finalize", "catch", "release"}

\* What then holds of the request q wherever it stands.
CalmAt(q) ==
    LET h == req[q]
    IN  /\ h.pc \notin {"expire", "catchPaid"}
        /\ h.pc = "crashed" => May("crash")
        /\ h.pc \in HoldsReservation => IsReserved(h.nonce)
        /\ h.pc \in {"pay", "catch", "release"} => q \in DOMAIN settlements
        /\ h.pc = "release" => settlements[q].status = "failed"
        /\ h.reply = "failed" =>
              /\ h.pc = "done" /\ q \notin landed
              /\ h.nonce \in DOMAIN reservations /\ ~IsReserved(h.nonce)
              /\ q \in DOMAIN settlements /\ settlements[q].status = "failed"
        /\ q \in landed => \/ h.pc \in {"finalize", "billable", "commit", "crashed"}
                           \/ h.pc = "done" /\ ConsumedBy(h.nonce, q)

OneRequestPerNonce ==
    \A q, o \in DOMAIN req :
       q # o /\ req[q].nonce = req[o].nonce => Finished(q) \/ Finished(o)

CalmInv ==
    /\ lapsed = {}
    /\ landed \subseteq DOMAIN req
    /\ \A q \in pending : At(q, "crashed")
    /\ OneRequestPerNonce
    /\ \A q \in DOMAIN req : CalmAt(q)

\* A step of request q that changes no reservation but its own, while reserved,
\* and no settlement row or transfer but its own.
OwnRowsOnly(q) ==
    /\ UNCHANGED lapsed
    /\ \A n \in DOMAIN reservations :
          /\ n \in DOMAIN reservations'
          /\ n # req[q].nonce \/ ~IsReserved(n) => reservations'[n] = reservations[n]
    /\ \A s \in DOMAIN settlements :
          /\ s \in DOMAIN settlements'
          /\ s # q => settlements'[s] = settlements[s]
    /\ landed' \subseteq landed \cup {q}

\* A move of request q that touches only its own rows keeps the facts of all the
\* others: whoever shares its nonce is finished.
LEMMA CalmMove ==
    ASSUME SettleTypeOK, CalmInv, NEW q \in DOMAIN req, ~Finished(q), OwnRowsOnly(q),
           landed \subseteq landed',
           NEW pc \in PC, NEW tx \in Settlement \cup {NoTx}, NEW reply \in Reply,
           Become(q, pc, tx, reply), CalmAt(q)',
           \A o \in pending' : o \in pending \/ (o = q /\ pc = "crashed")
    PROVE  CalmInv'
  <1>1. /\ DOMAIN req' = DOMAIN req
        /\ \A o \in DOMAIN req : o # q => req'[o] = req[o]
        /\ req'[q].nonce = req[q].nonce /\ req'[q].pc = pc
    <2>1. /\ DOMAIN req' = DOMAIN req
          /\ \A o \in DOMAIN req : o # q => req'[o] = req[o]
          /\ req'[q] = [pc |-> pc, nonce |-> req[q].nonce, amount |-> req[q].amount,
                        tx |-> tx, reply |-> reply]
      BY BecomeMoves
    <2>2. QED
      BY <2>1
  <1>2. lapsed' = {} /\ landed' \subseteq DOMAIN req'
    BY <1>1 DEF CalmInv, OwnRowsOnly
  <1>3. \A o \in pending' : At(o, "crashed")'
    BY <1>1 DEF CalmInv, At, Finished
  <1>4. OneRequestPerNonce'
    <2> SUFFICES ASSUME NEW o \in DOMAIN req', NEW p \in DOMAIN req', o # p,
                        req'[o].nonce = req'[p].nonce
                 PROVE  Finished(o)' \/ Finished(p)'
      BY DEF OneRequestPerNonce
    <2>1. Finished(o) \/ Finished(p)
      BY <1>1 DEF CalmInv, OneRequestPerNonce
    <2>2. QED
      BY <1>1, <2>1 DEF Finished, At
  <1>5. ASSUME NEW o \in DOMAIN req, o # q PROVE CalmAt(o)'
    <2>1. CalmAt(o) /\ req'[o] = req[o] /\ (o \in landed' <=> o \in landed)
      BY <1>1, <1>5 DEF CalmInv, OwnRowsOnly
    <2>2. req[o].nonce = req[q].nonce => req[o].pc \in {"done", "crashed"}
      BY <1>5 DEF CalmInv, OneRequestPerNonce, Finished, At
    <2>3. \A n \in DOMAIN reservations :
             /\ n \in DOMAIN reservations'
             /\ n # req[q].nonce \/ ~IsReserved(n) => reservations'[n] = reservations[n]
      BY DEF OwnRowsOnly
    <2>4. o \in DOMAIN settlements =>
             o \in DOMAIN settlements' /\ settlements'[o] = settlements[o]
      BY <1>5 DEF OwnRowsOnly
    <2>5. req[o].pc \in HoldsReservation => IsReserved(req[o].nonce)'
      BY <2>1, <2>2, <2>3 DEF CalmAt, IsReserved, HoldsReservation
    <2>6. req[o].reply = "failed" =>
              /\ req[o].pc = "done" /\ o \notin landed'
              /\ req[o].nonce \in DOMAIN reservations' /\ ~IsReserved(req[o].nonce)'
              /\ o \in DOMAIN settlements' /\ settlements'[o].status = "failed"
      BY <2>1, <2>3, <2>4 DEF CalmAt, IsReserved
    <2>7. ConsumedBy(req[o].nonce, o) => ConsumedBy(req[o].nonce, o)'
      BY <2>1, <2>3 DEF ConsumedBy, Consumed, IsReserved
    <2>8. QED
      BY <2>1, <2>4, <2>5, <2>6, <2>7 DEF CalmAt
  <1>6. \A o \in DOMAIN req' : CalmAt(o)'
    BY <1>1, <1>5
  <1>7. QED
    BY <1>2, <1>3, <1>4, <1>6 DEF CalmInv

\* A step that moves no handler and touches no existing row.
LEMMA CalmOther ==
    ASSUME CalmInv, UNCHANGED <<req, pending, landed, lapsed, settlements>>,
           \A n \in DOMAIN reservations :
              n \in DOMAIN reservations' /\ reservations'[n] = reservations[n]
    PROVE  CalmInv'
  <1>1. ASSUME NEW q \in DOMAIN req PROVE CalmAt(q)'
    <2>1. CalmAt(q)
      BY DEF CalmInv
    <2>2. \A n \in DOMAIN reservations : IsReserved(n)' <=> IsReserved(n)
      BY DEF IsReserved
    <2>3. \A n \in DOMAIN reservations : ConsumedBy(n, q)' <=> ConsumedBy(n, q)
      BY DEF ConsumedBy, Consumed
    <2>4. \A n : /\ IsReserved(n) => n \in DOMAIN reservations
                 /\ ConsumedBy(n, q) => n \in DOMAIN reservations
      BY DEF IsReserved, ConsumedBy, Consumed
    <2>5. QED
      BY <2>1, <2>2, <2>3, <2>4 DEF CalmAt, HoldsReservation
  <1>2. QED
    BY <1>1 DEF CalmInv, OneRequestPerNonce, Finished, At

\* Where a move takes the request.
LEMMA Arrives ==
    ASSUME SettleTypeOK, NEW q \in DOMAIN req, NEW pc \in PC,
           NEW tx \in Settlement \cup {NoTx}, NEW reply \in Reply,
           Become(q, pc, tx, reply)
    PROVE  req'[q].pc = pc /\ req'[q].nonce = req[q].nonce /\ req'[q].reply = reply
  <1>1. req'[q] = [pc |-> pc, nonce |-> req[q].nonce, amount |-> req[q].amount,
                   tx |-> tx, reply |-> reply]
    BY BecomeMoves
  <1>2. QED
    BY <1>1

\* The disturbances a calm run is spared.
LEMMA CalmSpares ==
    ASSUME Calm
    PROVE  /\ ~May("concurrent") /\ ~May("lapse") /\ ~May("release")
           /\ ~May("unconfirmed") /\ ~May("db")
  BY DEF Calm, May

\* What a handler's step relies on.
LEMMA CalmFacts ==
    ASSUME SettleInv, CalmInv, NEW q, NEW pc \in PC \ {"done", "crashed"}, At(q, pc)
    PROVE  /\ q \in DOMAIN req /\ req[q].pc = pc /\ ~Finished(q)
           /\ SettleTypeOK /\ SoundAt(q) /\ CalmAt(q) /\ lapsed = {}
  BY InvFacts DEF At, Finished, CalmInv

\* A step that leaves the ledger alone touches only the request's own rows.
LEMMA QuietOwn ==
    ASSUME UNCHANGED vars, NEW q, landed' \subseteq landed \cup {q}
    PROVE  OwnRowsOnly(q) /\ UNCHANGED <<reservations, settlements>>
  BY DEF vars, OwnRowsOnly

\* Reading the reservation: nothing has lapsed, so no request goes to expire one.
LEMMA ReadCalm ==
    ASSUME Calm, SettleInv, CalmInv, NEW q, ReadReservation(q)
    PROVE  CalmInv'
  <1>1. At(q, "read") /\ UNCHANGED <<vars, pending, landed, kernel>>
    BY DEF ReadReservation
  <1>2. /\ q \in DOMAIN req /\ req[q].pc = "read" /\ ~Finished(q)
        /\ SettleTypeOK /\ CalmAt(q) /\ lapsed = {}
    BY <1>1, CalmFacts DEF PC
  <1>3. OwnRowsOnly(q) /\ UNCHANGED <<reservations, settlements>>
    BY <1>1, QuietOwn
  <1>4. q \notin landed'
    BY <1>1, <1>2 DEF CalmAt
  <1>5. ASSUME NEW pc \in {"replay", "insert", "done"}, NEW reply \in {"none", "refused"},
               Become(q, pc, NoTx, reply), pc = "insert" => IsReserved(req[q].nonce)
        PROVE  CalmInv'
    <2>1. req'[q].pc = pc /\ req'[q].nonce = req[q].nonce /\ req'[q].reply = reply
      BY <1>2, <1>5, Arrives DEF PC, Reply
    <2>2. CalmAt(q)'
      BY <1>3, <1>4, <1>5, <2>1 DEF CalmAt, HoldsReservation, IsReserved
    <2>3. QED
      BY <1>1, <1>2, <1>3, <1>5, <2>2, CalmMove DEF PC, Reply
  <1>6. ~(IsReserved(req[q].nonce) /\ ~IsLive(q)) /\ ~May("db")
    BY <1>2, CalmSpares DEF IsLive
  <1>7. \/ Become(q, "replay", NoTx, "none")
        \/ IsReserved(req[q].nonce) /\ Become(q, "insert", NoTx, "none")
        \/ Become(q, "done", NoTx, "refused")
    BY <1>6 DEF ReadReservation, Goto, Answer, IsLive
  <1>8. QED
    BY <1>5, <1>7

\* Inserting the pending settlement row.
LEMMA InsertCalm ==
    ASSUME Calm, SettleInv, CalmInv, NEW q, InsertPending(q)
    PROVE  CalmInv'
  <1>1. /\ At(q, "insert") /\ UNCHANGED <<pending, landed, kernel>>
        /\ insertSettlement(q, req[q].nonce, "pending")
        /\ Become(q, "pay", NoTx, "none")
    BY CalmSpares DEF InsertPending, Goto
  <1>2. /\ q \in DOMAIN req /\ req[q].pc = "insert" /\ ~Finished(q)
        /\ SettleTypeOK /\ CalmAt(q)
    BY <1>1, CalmFacts DEF PC
  <1>3. /\ UNCHANGED <<reservations, lapsed>> /\ q \in DOMAIN settlements'
        /\ \A s \in DOMAIN settlements : /\ s \in DOMAIN settlements'
                                         /\ s # q => settlements'[s] = settlements[s]
    BY <1>1 DEF insertSettlement, WithRow
  <1>4. OwnRowsOnly(q)
    BY <1>1, <1>3 DEF OwnRowsOnly
  <1>5. req'[q].pc = "pay" /\ req'[q].nonce = req[q].nonce /\ req'[q].reply = "none"
    BY <1>1, <1>2, Arrives DEF PC, Reply
  <1>6. CalmAt(q)'
    BY <1>1, <1>2, <1>3, <1>5 DEF CalmAt, HoldsReservation, IsReserved
  <1>7. QED
    BY <1>1, <1>2, <1>4, <1>6, CalmMove DEF PC, Reply

\* Paying the merchant: the transfer executes, or was never sent.
LEMMA PayCalm ==
    ASSUME Calm, SettleInv, CalmInv, NEW q, PayMerchant(q)
    PROVE  CalmInv'
  <1>1. /\ At(q, "pay") /\ UNCHANGED <<vars, kernel>> /\ UNCHANGED pending
        /\ \/ Become(q, "finalize", NoTx, "none") /\ landed' = landed \cup {q}
           \/ Become(q, "catch", NoTx, "none") /\ UNCHANGED landed
    BY CalmSpares DEF PayMerchant, Goto
  <1>2. /\ q \in DOMAIN req /\ req[q].pc = "pay" /\ ~Finished(q)
        /\ SettleTypeOK /\ CalmAt(q)
    BY <1>1, CalmFacts DEF PC
  <1>3. OwnRowsOnly(q) /\ UNCHANGED <<reservations, settlements>>
    BY <1>1, QuietOwn
  <1>4. ASSUME NEW pc \in {"finalize", "catch"}, Become(q, pc, NoTx, "none"),
               landed \subseteq landed', q \in landed' => pc = "finalize"
        PROVE  CalmInv'
    <2>1. req'[q].pc = pc /\ req'[q].nonce = req[q].nonce /\ req'[q].reply = "none"
      BY <1>2, <1>4, Arrives DEF PC, Reply
    <2>2. CalmAt(q)'
      BY <1>2, <1>3, <1>4, <2>1 DEF CalmAt, HoldsReservation, IsReserved
    <2>3. QED
      BY <1>1, <1>2, <1>3, <1>4, <2>2, CalmMove DEF PC, Reply
  <1>5. q \notin landed
    BY <1>2 DEF CalmAt
  <1>6. QED
    BY <1>1, <1>4, <1>5

\* Consuming the reservation cannot fail: it is still reserved and has not lapsed.
LEMMA FinalizeCalm ==
    ASSUME Calm, SettleInv, CalmInv, NEW q, Finalize(q)
    PROVE  CalmInv'
  <1>1. At(q, "finalize") /\ UNCHANGED <<pending, landed, kernel>>
    BY DEF Finalize
  <1>2. /\ q \in DOMAIN req /\ req[q].pc = "finalize" /\ ~Finished(q)
        /\ SettleTypeOK /\ CalmAt(q) /\ lapsed = {}
    BY <1>1, CalmFacts DEF PC
  <1>3. IsLive(q)
    BY <1>2 DEF CalmAt, HoldsReservation, IsLive
  <1>4. finalizeKizunaSettlement(req[q].nonce, q) /\ Become(q, "billable", NoTx, "none")
    BY <1>3, CalmSpares DEF Finalize, Goto
  <1>5. /\ UNCHANGED lapsed
        /\ \E row : reservations' = [reservations EXCEPT ![req[q].nonce] = row]
        /\ \E row : settlements' = [settlements EXCEPT ![q] = row]
    BY <1>4 DEF finalizeKizunaSettlement
  <1>6. OwnRowsOnly(q)
    <2>1. IsReserved(req[q].nonce)
      BY <1>3 DEF IsLive
    <2>2. QED
      BY <1>1, <1>5, <2>1 DEF OwnRowsOnly
  <1>7. /\ req'[q].pc = "billable" /\ req'[q].nonce = req[q].nonce
        /\ req'[q].reply = "none"
    BY <1>2, <1>4, Arrives DEF PC, Reply
  <1>8. CalmAt(q)'
    BY <1>7 DEF CalmAt, HoldsReservation
  <1>9. QED
    BY <1>1, <1>2, <1>4, <1>6, <1>8, CalmMove DEF PC, Reply

\* Reading the billable event.
LEMMA BillableCalm ==
    ASSUME Calm, SettleInv, CalmInv, NEW q, ReadBillable(q)
    PROVE  CalmInv'
  <1>1. /\ At(q, "billable") /\ UNCHANGED <<vars, pending, landed, kernel>>
        /\ Become(q, "commit", NoTx, "none")
    BY CalmSpares DEF ReadBillable, Goto
  <1>2. q \in DOMAIN req /\ ~Finished(q) /\ SettleTypeOK
    BY <1>1, CalmFacts DEF PC
  <1>3. OwnRowsOnly(q)
    BY <1>1, QuietOwn
  <1>4. req'[q].pc = "commit" /\ req'[q].reply = "none"
    BY <1>1, <1>2, Arrives DEF PC, Reply
  <1>5. CalmAt(q)'
    BY <1>4 DEF CalmAt, HoldsReservation
  <1>6. QED
    BY <1>1, <1>2, <1>3, <1>5, CalmMove DEF PC, Reply

\* The answer of a settled or replayed request, whatever the kernel does: a
\* transfer of its own has consumed the reservation.
LEMMA CommitCalm ==
    ASSUME SettleInv, CalmInv, NEW q \in DOMAIN req, ~Finished(q),
           NEW tx \in Settlement \cup {NoTx}, CommitDecision(q, tx),
           q \in landed => ConsumedBy(req[q].nonce, q)
    PROVE  CalmInv'
  <1>1. PICK reply \in {"ok", "retry"} : Become(q, "done", tx, reply)
    BY DEF CommitDecision, Answer, KernelOutage
  <1>2. UNCHANGED <<vars, pending, landed>> /\ SettleTypeOK
    BY InvFacts DEF CommitDecision
  <1>3. OwnRowsOnly(q) /\ UNCHANGED <<reservations, settlements>>
    BY <1>2, QuietOwn
  <1>4. req'[q].pc = "done" /\ req'[q].nonce = req[q].nonce /\ req'[q].reply = reply
    BY <1>1, <1>2, Arrives DEF PC, Reply
  <1>5. CalmAt(q)'
    BY <1>2, <1>3, <1>4 DEF CalmAt, HoldsReservation, ConsumedBy, Consumed
  <1>6. QED
    BY <1>1, <1>2, <1>3, <1>5, CalmMove DEF PC, Reply

\* Answering a request that settled.
LEMMA CommitSettledCalm ==
    ASSUME SettleInv, CalmInv, NEW q, CommitSettled(q)
    PROVE  CalmInv'
  <1>1. At(q, "commit") /\ CommitDecision(q, q)
    BY DEF CommitSettled
  <1>2. /\ q \in DOMAIN req /\ req[q].pc = "commit" /\ ~Finished(q) /\ SoundAt(q)
        /\ SettleTypeOK
    BY <1>1, CalmFacts DEF PC
  <1>3. ConsumedBy(req[q].nonce, q) /\ q \in Settlement
    BY <1>2 DEF SoundAt, SettleTypeOK, Request
  <1>4. QED
    BY <1>1, <1>2, <1>3, CommitCalm

\* Answering a replay: it paid nothing itself.
LEMMA ReplayCalm ==
    ASSUME Calm, SettleInv, CalmInv, NEW q, ReplaySettled(q)
    PROVE  CalmInv'
  <1> DEFINE tx == reservations[req[q].nonce].settlement
  <1>1. At(q, "replay") /\ CommitDecision(q, tx)
    BY CalmSpares DEF ReplaySettled
  <1>2. /\ q \in DOMAIN req /\ req[q].pc = "replay" /\ ~Finished(q)
        /\ SoundAt(q) /\ CalmAt(q)
    BY <1>1, CalmFacts DEF PC
  <1>3. q \notin landed /\ Consumed(req[q].nonce)
    BY <1>2 DEF CalmAt, SoundAt
  <1>4. tx \in Settlement \cup {NoTx}
    BY <1>3, InvFacts DEF Consumed, TypeOK, Reservation, NoTx
  <1> HIDE DEF tx
  <1>5. QED
    BY <1>1, <1>2, <1>3, <1>4, CommitCalm

\* The catch block marks the request's own row failed.
LEMMA CatchCalm ==
    ASSUME Calm, SettleInv, CalmInv, NEW q, CatchFailed(q)
    PROVE  CalmInv'
  <1>1. UNCHANGED <<pending, landed, kernel>>
    BY DEF CatchFailed
  <1>2. ~At(q, "catchPaid")
    BY DEF CalmInv, CalmAt, At
  <1>3. At(q, "catch") /\ Become(q, "release", NoTx, "none")
    BY <1>2 DEF CatchFailed, Goto
  <1>4. /\ q \in DOMAIN req /\ req[q].pc = "catch" /\ ~Finished(q)
        /\ SettleTypeOK /\ CalmAt(q)
    BY <1>3, CalmFacts DEF PC
  <1>5. updateSettlementStatus(q, "failed") /\ q \in DOMAIN settlements
    BY <1>4, CalmSpares DEF CatchFailed, Attempt, CalmAt
  <1>6. /\ UNCHANGED <<reservations, lapsed>> /\ DOMAIN settlements' = DOMAIN settlements
        /\ \A s \in DOMAIN settlements : s # q => settlements'[s] = settlements[s]
        /\ settlements'[q].status = "failed"
    BY <1>5, InvFacts DEF updateSettlementStatus, TypeOK, SettlementRow
  <1>7. OwnRowsOnly(q) /\ q \in DOMAIN settlements' /\ settlements'[q].status = "failed"
    BY <1>1, <1>5, <1>6 DEF OwnRowsOnly
  <1>8. /\ req'[q].pc = "release" /\ req'[q].nonce = req[q].nonce
        /\ req'[q].reply = "none"
    BY <1>3, <1>4, Arrives DEF PC, Reply
  <1>9. CalmAt(q)'
    BY <1>1, <1>4, <1>6, <1>7, <1>8 DEF CalmAt, HoldsReservation, IsReserved
  <1>10. QED
    BY <1>1, <1>3, <1>4, <1>7, <1>9, CalmMove DEF PC, Reply

\* Giving the reservation back cannot fail either: the request still holds it.
LEMMA ReleaseCalm ==
    ASSUME Calm, SettleInv, CalmInv, NEW q, CatchRelease(q)
    PROVE  CalmInv'
  <1>1. /\ At(q, "release") /\ UNCHANGED <<pending, landed, kernel>>
        /\ Become(q, "done", NoTx, "failed")
    BY DEF CatchRelease, Answer
  <1>2. /\ q \in DOMAIN req /\ req[q].pc = "release" /\ ~Finished(q)
        /\ SettleTypeOK /\ CalmAt(q)
    BY <1>1, CalmFacts DEF PC
  <1>3. IsReserved(req[q].nonce)
    BY <1>2 DEF CalmAt, HoldsReservation
  <1>4. releaseKizunaReservation(req[q].nonce, "released")
    BY <1>3, CalmSpares DEF CatchRelease, Attempt
  <1>5. /\ UNCHANGED <<lapsed, settlements>>
        /\ \E row : /\ reservations' = [reservations EXCEPT ![req[q].nonce] = row]
                    /\ row.status = "released"
    <2> DEFINE n == req[q].nonce
               row == WithStatus(reservations[n], "released", reservations[n].settlement)
    <2>1. row.status = "released"
      BY DEF WithStatus
    <2>2. /\ UNCHANGED <<lapsed, settlements>>
          /\ reservations' = [reservations EXCEPT ![n] = row]
      BY <1>4 DEF releaseKizunaReservation
    <2> HIDE DEF row
    <2>3. QED
      BY <2>1, <2>2
  <1>6. OwnRowsOnly(q)
    BY <1>1, <1>3, <1>5 DEF OwnRowsOnly
  <1>7. /\ req'[q].pc = "done" /\ req'[q].nonce = req[q].nonce
        /\ req'[q].reply = "failed"
    BY <1>1, <1>2, Arrives DEF PC, Reply
  <1>8. req[q].nonce \in DOMAIN reservations' /\ ~IsReserved(req[q].nonce)'
    BY <1>3, <1>5, <1>7 DEF IsReserved
  <1>9. CalmAt(q)'
    BY <1>1, <1>2, <1>5, <1>7, <1>8 DEF CalmAt, HoldsReservation
  <1>10. QED
    BY <1>1, <1>2, <1>6, <1>9, CalmMove DEF PC, Reply

\* A crash leaves the transfer it interrupts, and the reservation, as they are.
LEMMA CrashCalm ==
    ASSUME SettleInv, CalmInv, NEW q, Crash(q)
    PROVE  CalmInv'
  <1>1. /\ q \in DOMAIN req /\ ~Finished(q) /\ May("crash")
        /\ Become(q, "crashed", NoTx, "none")
        /\ UNCHANGED <<vars, landed, kernel>> /\ pending' \subseteq pending \cup {q}
    BY DEF Crash, Goto
  <1>2. OwnRowsOnly(q) /\ SettleTypeOK
    BY <1>1, QuietOwn, InvFacts
  <1>3. req'[q].pc = "crashed" /\ req'[q].reply = "none"
    BY <1>1, <1>2, Arrives DEF PC, Reply
  <1>4. CalmAt(q)'
    BY <1>1, <1>3 DEF CalmAt, HoldsReservation, May
  <1>5. QED
    BY <1>1, <1>2, <1>4, CalmMove DEF PC, Reply

\* A transfer is resolved late only if its request crashed.
LEMMA ResolveCalm ==
    ASSUME SettleInv, CalmInv, NEW q, ResolveTransfer(q)
    PROVE  CalmInv'
  <1>1. /\ q \in pending /\ pending' \subseteq pending
        /\ landed \subseteq landed' /\ landed' \subseteq landed \cup {q}
        /\ UNCHANGED <<req, lapsed, reservations, settlements>>
    BY DEF ResolveTransfer, vars
  <1>2. q \in DOMAIN req /\ req[q].pc = "crashed"
    BY <1>1 DEF CalmInv, At
  <1>3. ASSUME NEW o \in DOMAIN req PROVE CalmAt(o)'
    <2>1. CalmAt(o)
      BY DEF CalmInv
    <2>2. CASE o = q
      BY <1>1, <1>2, <2>1, <2>2 DEF CalmAt, HoldsReservation, May
    <2>3. CASE o # q
      BY <1>1, <2>1, <2>3 DEF CalmAt, HoldsReservation, IsReserved, ConsumedBy, Consumed,
                              May
    <2>4. QED
      BY <2>2, <2>3
  <1>4. QED
    BY <1>1, <1>2, <1>3 DEF CalmInv, OneRequestPerNonce, Finished, At

\* A request is submitted when every earlier one for its nonce is over.
LEMMA SubmitCalm ==
    ASSUME Calm, SettleInv, CalmInv, NEW q, NEW n, NEW amount, Submit(q, n, amount)
    PROVE  CalmInv'
  <1> DEFINE h == [pc |-> "read", nonce |-> n, amount |-> amount,
                   tx |-> NoTx, reply |-> "none"]
  <1>1. /\ q \notin DOMAIN req /\ req' = WithRow(req, q, h)
        /\ \A o \in DOMAIN req : req[o].nonce = n => Finished(o)
        /\ UNCHANGED <<pending, landed, lapsed, reservations, settlements>>
    BY CalmSpares DEF Submit, vars
  <1>2. h.pc = "read" /\ h.nonce = n /\ h.reply = "none"
    OBVIOUS
  <1> HIDE DEF h
  <1>3. /\ DOMAIN req' = DOMAIN req \cup {q} /\ req'[q] = h
        /\ \A o \in DOMAIN req : req'[o] = req[o]
    BY <1>1 DEF WithRow
  <1>4. CalmAt(q)'
    BY <1>1, <1>2, <1>3 DEF CalmInv, CalmAt, HoldsReservation
  <1>5. ASSUME NEW o \in DOMAIN req PROVE CalmAt(o)'
    <2>1. CalmAt(o)
      BY DEF CalmInv
    <2>2. QED
      BY <1>1, <1>3, <2>1 DEF CalmAt, HoldsReservation, IsReserved, ConsumedBy, Consumed,
                              May
  <1>6. OneRequestPerNonce'
    <2>1. \A o \in DOMAIN req : Finished(o) => Finished(o)'
      BY <1>3 DEF Finished, At
    <2> SUFFICES ASSUME NEW o \in DOMAIN req', NEW p \in DOMAIN req', o # p,
                        req'[o].nonce = req'[p].nonce
                 PROVE  Finished(o)' \/ Finished(p)'
      BY DEF OneRequestPerNonce
    <2>2. CASE o \in DOMAIN req /\ p \in DOMAIN req
      BY <1>3, <2>1, <2>2 DEF CalmInv, OneRequestPerNonce
    <2>3. CASE o = q \/ p = q
      BY <1>1, <1>2, <1>3, <2>1, <2>3
    <2>4. QED
      BY <1>3, <2>2, <2>3
  <1>7. /\ lapsed' = {} /\ landed' \subseteq DOMAIN req'
        /\ \A o \in pending' : At(o, "crashed")'
    BY <1>1, <1>3 DEF CalmInv, At
  <1>8. QED
    BY <1>3, <1>4, <1>5, <1>6, <1>7 DEF CalmInv

\* The other writers touch no row of a request: in a calm run nothing lapses and
\* nobody else releases.
LEMMA OthersCalm ==
    ASSUME Calm, CalmInv,
           \/ \E n \in Nonce : Reserve(n) \/ Clock(n) \/ InternalRelease(n)
           \/ Repay
           \/ Fund
    PROVE  CalmInv'
  <1>1. ASSUME NEW n, Reserve(n) PROVE CalmInv'
    <2>1. PICK a \in Agent, l \in Lane, p \in Pool, amount \in Amount :
             \E mode \in FundingModes(l) : createKizunaReservation(n, a, l, p, amount, mode)
      BY <1>1 DEF Reserve
    <2>2. PICK mode \in FundingModes(l) : createKizunaReservation(n, a, l, p, amount, mode)
      BY <2>1
    <2>3. /\ UNCHANGED <<lapsed, settlements>>
          /\ n \notin DOMAIN reservations
          /\ \E row : reservations' = WithRow(reservations, n, row)
      BY <2>2 DEF createKizunaReservation
    <2>4. \A m \in DOMAIN reservations :
             m \in DOMAIN reservations' /\ reservations'[m] = reservations[m]
      BY <2>3 DEF WithRow
    <2>5. UNCHANGED <<req, pending, landed>>
      BY <1>1 DEF Reserve, handlerVars
    <2>6. QED
      BY <2>3, <2>4, <2>5, CalmOther
  <1>2. ~(\E n \in Nonce : Clock(n) \/ InternalRelease(n))
    BY CalmSpares DEF Clock, InternalRelease
  <1>3. CASE Repay
    <2>1. UNCHANGED <<req, pending, landed, lapsed, settlements, reservations>>
      BY <1>3 DEF Repay, applyKizunaRepayment, handlerVars
    <2>2. QED
      BY <2>1, CalmOther
  <1>4. CASE Fund
    <2>1. UNCHANGED <<req, pending, landed, lapsed, settlements, reservations>>
      BY <1>4 DEF Fund, FundingRequest, applyKizunaFundingEvent, handlerVars
    <2>2. QED
      BY <2>1, CalmOther
  <1>5. QED
    BY <1>1, <1>2, <1>3, <1>4

\* Every step of a calm run keeps the calm invariant.
LEMMA CalmStep ==
    ASSUME Calm, SettleInv, CalmInv, [SettleNext]_settleVars
    PROVE  CalmInv'
  <1>1. ASSUME NEW q \in Request, HandlerStep(q) PROVE CalmInv'
    <2>1. ~ExpireReservation(q)
      BY DEF ExpireReservation, CalmInv, CalmAt, At
    <2>2. QED
      BY <1>1, <2>1, ReadCalm, InsertCalm, PayCalm, FinalizeCalm, BillableCalm,
         CommitSettledCalm, ReplayCalm, CatchCalm, ReleaseCalm DEF HandlerStep
  <1>2. CASE UNCHANGED settleVars
    <2>1. UNCHANGED <<req, pending, landed, lapsed, settlements, reservations>>
      BY <1>2 DEF settleVars, handlerVars, vars
    <2>2. QED
      BY <2>1, CalmOther
  <1>3. QED
    BY <1>1, <1>2, SubmitCalm, ResolveCalm, CrashCalm, OthersCalm DEF SettleNext

\* The calm invariant holds of every calm run.
LEMMA CalmInvariant == Calm => (SettleSpec => []CalmInv)
  <1> SUFFICES ASSUME Calm PROVE SettleSpec => []CalmInv
    OBVIOUS
  <1>1. SettleInit => CalmInv
    BY DEF SettleInit, Init, CalmInv, OneRequestPerNonce
  <1>2. SettleInv /\ CalmInv /\ [SettleNext]_settleVars => CalmInv'
    BY CalmStep
  <1>3. QED
    BY <1>1, <1>2, SettleInvariant, PTL DEF SettleSpec

\* "no unsecured payout path" of POST /settle, for any number of requests, nonces
\* and amounts: with one request per nonce at a time and nothing but the kernel
\* failing, every transfer of a request that is over has consumed its reservation.
THEOREM PayoutSecured ==
    Disturbance \subseteq {"kernel"} => (SettleSpec => []NoUnsecuredPayout)
  <1> SUFFICES ASSUME Disturbance \subseteq {"kernel"}
               PROVE  SettleSpec => []NoUnsecuredPayout
    OBVIOUS
  <1>1. Calm /\ ~May("crash")
    BY DEF Calm, May
  <1>2. CalmInv => NoUnsecuredPayout
    <2> SUFFICES ASSUME CalmInv, NEW q \in landed, Finished(q)
                 PROVE  ConsumedBy(req[q].nonce, q)
      BY DEF NoUnsecuredPayout, ConsumedBy, Consumed
    <2>1. q \in DOMAIN req /\ req[q].pc \in {"done", "crashed"}
      BY DEF Finished, At
    <2>2. CalmAt(q)
      BY <2>1 DEF CalmInv
    <2>3. QED
      BY <1>1, <2>1, <2>2 DEF CalmAt
  <1>3. QED
    BY <1>1, <1>2, CalmInvariant, PTL

\* A "settlement_failed" reply of POST /settle left no trace, even where processes
\* die between two awaits of other requests: nothing paid, the row failed, the
\* credit free again.
THEOREM FailuresClean ==
    Disturbance \subseteq {"kernel", "crash"} => (SettleSpec => []FailureIsClean)
  <1> SUFFICES ASSUME Disturbance \subseteq {"kernel", "crash"}
               PROVE  SettleSpec => []FailureIsClean
    OBVIOUS
  <1>1. Calm
    BY DEF Calm
  <1>2. CalmInv => FailureIsClean
    BY DEF CalmInv, CalmAt, FailureIsClean
  <1>3. QED
    BY <1>1, <1>2, CalmInvariant, PTL

=============================================================================
