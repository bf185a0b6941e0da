-------------------------- MODULE FairscaleSyncProofs --------------------------
EXTENDS FairscaleSync, KizunaLedgerProofs, SequenceTheorems

-----------------------------------------------------------------------------
(* What a flush may rely on.  Nothing in a row says who leased it, so the      *)
(* invariant follows an event from the outbox through the batch of a flush to  *)
(* FairScale and back, and keeps the lease of every event a flush works on     *)
(* unless that lease was taken away under it.                                  *)

\* Batches and FairScale only ever hold rows of the outbox.
RowsFlow ==
    /\ received \subseteq outbox
    /\ \A f \in Flusher : flush[f].batch \subseteq outbox

\* A batch that is about to be marked delivered has been accepted.
MarkingIsReported ==
    \A f \in Flusher : flush[f].pc = "marking" => flush[f].batch \subseteq received

LeasesHold == \A f \in Flusher : flush[f].batch \subseteq leased \cup excused

FlushTypeOK == DOMAIN flush = Flusher

SyncInv ==
    /\ FlushTypeOK
    /\ RowsFlow
    /\ MarkingIsReported
    /\ DeliveredIsReported
    /\ LeasesHold
    /\ OneFlushPerEvent

\* Become moves the named flush only, to where it was sent or to idle.
LEMMA BecomeStep ==
    ASSUME FlushTypeOK, NEW f \in Flusher, NEW pc, NEW batch, Become(f, pc, batch)
    PROVE  /\ FlushTypeOK'
           /\ flush'[f].batch = batch
           /\ flush'[f].pc \in {"idle", pc}
           /\ \A g \in Flusher : g # f => flush'[g] = flush[g]
  BY DEF FlushTypeOK, Become

\* A step that moves the state of no flush and only adds rows or accepted events.
LEMMA QuietStep ==
    ASSUME SyncInv, outbox \subseteq outbox',
           leased \cup excused \subseteq leased' \cup excused',
           excused \subseteq excused', UNCHANGED <<flush, received, delivered>>
    PROVE  SyncInv'
  BY DEF SyncInv, FlushTypeOK, RowsFlow, MarkingIsReported, DeliveredIsReported,
         LeasesHold, OneFlushPerEvent

\* No transaction of the ledger removes an event from the outbox.
LEMMA LedgerOutbox ==
    ASSUME Next PROVE outbox \subseteq outbox'
  <1>1. ASSUME NEW n, NEW a, NEW l, NEW p, NEW amount, NEW mode,
               createKizunaReservation(n, a, l, p, amount, mode)
        PROVE  outbox \subseteq outbox'
    BY <1>1 DEF createKizunaReservation
  <1>2. ASSUME NEW n, Lapse(n) PROVE outbox \subseteq outbox'
    BY <1>2 DEF Lapse
  <1>3. ASSUME NEW n, NEW st, releaseKizunaReservation(n, st)
        PROVE  outbox \subseteq outbox'
    BY <1>3 DEF releaseKizunaReservation
  <1>4. ASSUME NEW s, NEW n, NEW st, insertSettlement(s, n, st)
        PROVE  outbox \subseteq outbox'
    BY <1>4 DEF insertSettlement
  <1>5. ASSUME NEW s, NEW st, updateSettlementStatus(s, st) PROVE outbox \subseteq outbox'
    BY <1>5 DEF updateSettlementStatus
  <1>6. ASSUME NEW n, NEW s, finalizeKizunaSettlement(n, s) PROVE outbox \subseteq outbox'
    BY <1>6 DEF finalizeKizunaSettlement
  <1>7. ASSUME NEW a, NEW ref, NEW l, NEW p, NEW amount,
               applyKizunaRepayment(a, ref, l, p, amount)
        PROVE  outbox \subseteq outbox'
    BY <1>7 DEF applyKizunaRepayment
  <1>8. ASSUME NEW a, NEW p, NEW ref, NEW type, NEW amount,
               FundingRequest(a, p, ref, type, amount)
        PROVE  outbox \subseteq outbox'
    BY <1>8 DEF FundingRequest, applyKizunaFundingEvent
  <1>9. QED
    BY <1>1, <1>2, <1>3, <1>4, <1>5, <1>6, <1>7, <1>8 DEF Next

-----------------------------------------------------------------------------
(* The steps of a flush *)

\* A lease takes rows of the outbox that are free, so another flush working on
\* one of them has lost its lease before.
LEMMA LeaseStep ==
    ASSUME SyncInv, NEW f \in Flusher, LeaseBatch(f)
    PROVE  SyncInv'
  <1>1. PICK batch : /\ batch \subseteq outbox
                     /\ batch \cap leased = {}
                     /\ Become(f, "posting", batch)
                     /\ leased' = leased \cup batch
    BY DEF LeaseBatch, IsLeasable
  <1>2. UNCHANGED <<outbox, delivered, received, excused>>
    BY DEF LeaseBatch, vars
  <1>3. /\ FlushTypeOK'
        /\ flush'[f].batch = batch
        /\ flush'[f].pc \in {"idle", "posting"}
        /\ \A g \in Flusher : g # f => flush'[g] = flush[g]
    BY <1>1, BecomeStep DEF SyncInv
  <1>4. \A g \in Flusher : g # f => flush[g].batch \cap batch \subseteq excused
    BY <1>1 DEF SyncInv, LeasesHold
  <1>5. OneFlushPerEvent'
    BY <1>2, <1>3, <1>4 DEF SyncInv, OneFlushPerEvent
  <1>6. LeasesHold'
    BY <1>1, <1>2, <1>3 DEF SyncInv, LeasesHold
  <1>7. RowsFlow' /\ MarkingIsReported' /\ DeliveredIsReported'
    BY <1>1, <1>2, <1>3 DEF SyncInv, RowsFlow, MarkingIsReported, DeliveredIsReported
  <1>8. QED
    BY <1>3, <1>5, <1>6, <1>7 DEF SyncInv

\* A flush that keeps a part of its batch and gives back no lease but its own.
LEMMA FlushMove ==
    ASSUME SyncInv, NEW f \in Flusher, NEW pc, NEW batch,
           Become(f, pc, batch), batch \subseteq flush[f].batch,
           received' \in {received, received \cup flush[f].batch},
           pc = "marking" => batch \subseteq received',
           delivered \subseteq delivered', delivered' \subseteq received',
           leased \subseteq leased' \cup (flush[f].batch \ batch),
           UNCHANGED <<outbox, excused>>
    PROVE  SyncInv'
  <1>1. /\ FlushTypeOK'
        /\ flush'[f].batch = batch
        /\ flush'[f].pc \in {"idle", pc}
        /\ \A g \in Flusher : g # f => flush'[g] = flush[g]
    BY BecomeStep DEF SyncInv
  <1>2. OneFlushPerEvent'
    BY <1>1 DEF SyncInv, OneFlushPerEvent
  <1>3. \A g \in Flusher : g # f => flush[g].batch \cap flush[f].batch \subseteq excused
    BY DEF SyncInv, OneFlushPerEvent
  <1>4. LeasesHold'
    BY <1>1, <1>3 DEF SyncInv, LeasesHold
  <1>5. RowsFlow'
    BY <1>1 DEF SyncInv, RowsFlow
  <1>6. MarkingIsReported'
    BY <1>1 DEF SyncInv, MarkingIsReported
  <1>7. QED
    BY <1>1, <1>2, <1>4, <1>5, <1>6 DEF SyncInv, DeliveredIsReported

\* A post, accepted or failed, keeps the invariant: what is marked next was accepted.
LEMMA PostStep ==
    ASSUME SyncInv, NEW f \in Flusher, PostAccepted(f) \/ PostFailed(f)
    PROVE  SyncInv'
  <1>1. UNCHANGED <<outbox, delivered, leased, excused>>
    BY DEF PostAccepted, PostFailed, vars, rowVars
  <1>2. delivered \subseteq received
    BY DEF SyncInv, DeliveredIsReported
  <1>3. CASE PostAccepted(f)
    BY <1>1, <1>2, <1>3, FlushMove DEF PostAccepted
  <1>4. CASE PostFailed(f)
    BY <1>1, <1>2, <1>4, FlushMove DEF PostFailed
  <1>5. QED
    BY <1>3, <1>4

\* Marking a batch delivered, or failing to, keeps the invariant.
LEMMA MarkStep ==
    ASSUME SyncInv, NEW f \in Flusher, MarkDelivered(f) \/ MarkDeliveredFailed(f)
    PROVE  SyncInv'
  <1>1. delivered \subseteq received /\ flush[f].batch \subseteq received
    BY DEF SyncInv, DeliveredIsReported, MarkingIsReported, MarkDelivered,
           MarkDeliveredFailed
  <1>2. UNCHANGED <<outbox, received, excused>>
    BY DEF MarkDelivered, MarkDeliveredFailed, vars
  <1>3. CASE MarkDelivered(f)
    <2>1. /\ Become(f, "idle", {})
          /\ delivered' = delivered \cup flush[f].batch
          /\ leased' = leased \ flush[f].batch
      BY <1>3 DEF MarkDelivered
    <2>2. QED
      BY <1>1, <1>2, <2>1, FlushMove
  <1>4. CASE MarkDeliveredFailed(f)
    BY <1>1, <1>2, <1>4, FlushMove DEF MarkDeliveredFailed, rowVars
  <1>5. QED
    BY <1>3, <1>4

\* Giving one event of a failed batch back keeps the invariant.
LEMMA AttemptFailedStep ==
    ASSUME SyncInv, NEW f \in Flusher, NEW e, MarkAttemptFailed(f, e)
    PROVE  SyncInv'
  <1>1. /\ e \in flush[f].batch
        /\ Become(f, "failing", flush[f].batch \ {e})
        /\ leased' \in {leased, leased \ {e}}
        /\ UNCHANGED <<outbox, delivered, received, excused>>
    BY DEF MarkAttemptFailed, vars
  <1>2. delivered \subseteq received
    BY DEF SyncInv, DeliveredIsReported
  <1>3. QED
    BY <1>1, <1>2, FlushMove

\* A process that dies during a flush keeps the invariant.
LEMMA CrashStep ==
    ASSUME SyncInv, NEW f \in Flusher, Crash(f)
    PROVE  SyncInv'
  <1>1. Become(f, "idle", {}) /\ UNCHANGED <<outbox, delivered, leased, received, excused>>
    BY DEF Crash, vars, rowVars
  <1>2. delivered \subseteq received
    BY DEF SyncInv, DeliveredIsReported
  <1>3. QED
    BY <1>1, <1>2, FlushMove

-----------------------------------------------------------------------------
(* The clock and the operator *)

\* A lease taken away under a flush is excused; one nobody works under is not
\* missed.
LEMMA FreedStep ==
    ASSUME SyncInv, NEW S, leased' = leased \ S,
           excused' = excused \cup {e \in S : IsHeld(e)},
           UNCHANGED <<outbox, flush, received, delivered>>
    PROVE  SyncInv'
  <1>1. \A f \in Flusher : \A e \in flush[f].batch : IsHeld(e)
    BY DEF IsHeld
  <1>2. LeasesHold'
    BY <1>1 DEF SyncInv, LeasesHold
  <1>3. OneFlushPerEvent'
    BY DEF SyncInv, OneFlushPerEvent
  <1>4. QED
    BY <1>2, <1>3 DEF SyncInv, FlushTypeOK, RowsFlow, MarkingIsReported,
                      DeliveredIsReported

\* A lease that ends keeps the invariant.
LEMMA LeaseEndsStep ==
    ASSUME SyncInv, NEW e, LeaseEnds(e)
    PROVE  SyncInv'
  <1>1. /\ leased' = leased \ {e}
        /\ excused' = excused \cup {x \in {e} : IsHeld(x)}
        /\ UNCHANGED <<outbox, flush, received, delivered>>
    BY DEF LeaseEnds, vars
  <1>2. QED
    BY <1>1, FreedStep

\* An operator requeueing rows keeps the invariant.
LEMMA RequeueStep ==
    ASSUME SyncInv, NEW failedOnly, Requeue(failedOnly)
    PROVE  SyncInv'
  <1>1. PICK S : /\ leased' = leased \ S
                 /\ excused' = excused \cup {e \in S : IsHeld(e)}
    BY DEF Requeue
  <1>2. UNCHANGED <<outbox, flush, received, delivered>>
    BY DEF Requeue, vars
  <1>3. QED
    BY <1>1, <1>2, FreedStep

-----------------------------------------------------------------------------
(* The specification *)

\* The invariant holds of an empty outbox.
LEMMA InitSync == SyncInit => SyncInv
  BY DEF SyncInit, Init, SyncInv, FlushTypeOK, RowsFlow, MarkingIsReported,
         DeliveredIsReported, LeasesHold, OneFlushPerEvent

\* Every step of the sync keeps the invariant.
LEMMA SyncStep ==
    ASSUME SyncInv, [SyncNext]_syncVars
    PROVE  SyncInv'
  <1>1. CASE LedgerStep
    BY <1>1, LedgerOutbox, QuietStep DEF LedgerStep
  <1>2. ASSUME NEW f \in Flusher, FlushStep(f) PROVE SyncInv'
    BY <1>2, LeaseStep, PostStep, MarkStep, AttemptFailedStep DEF FlushStep
  <1>3. ASSUME NEW e, BecomeDue(e) PROVE SyncInv'
    BY <1>3, QuietStep DEF BecomeDue, vars
  <1>4. CASE UNCHANGED syncVars
    BY <1>4, QuietStep DEF syncVars, vars, rowVars
  <1>5. QED
    BY <1>1, <1>2, <1>3, <1>4, CrashStep, LeaseEndsStep, RequeueStep DEF SyncNext

\* The inductive invariant holds of every behaviour of the sync.
LEMMA SyncInvariant == SyncSpec => []SyncInv
  BY InitSync, SyncStep, PTL DEF SyncSpec

\* An event marked delivered was accepted by FairScale, for any number of
\* processes, batch size and order of lease expiry, requeue, failure and crash
\* (markFairscaleTrustEventsDelivered only after postBatch returned).
THEOREM DeliverySafe == SyncSpec => []DeliveredIsReported
  <1>1. SyncInv => DeliveredIsReported
    BY DEF SyncInv
  <1>2. QED
    BY <1>1, SyncInvariant, PTL

\* Two flushes work on one event only after a lease was taken away under one
\* of them (leaseFairscaleTrustEventBatch and every statement that clears
\* leased_until without knowing who holds it).
THEOREM LeaseSafe == SyncSpec => []OneFlushPerEvent
  <1>1. SyncInv => OneFlushPerEvent
    BY DEF SyncInv
  <1>2. QED
    BY <1>1, SyncInvariant, PTL

-----------------------------------------------------------------------------
(* What FairScale hears of *)

\* Every step of the sync is a step of the ledger or leaves it alone.
LEMMA SyncIsLedgerStep ==
    ASSUME [SyncNext]_syncVars PROVE [Next]_vars
  <1>1. ASSUME NEW f, FlushStep(f) PROVE UNCHANGED vars
    BY <1>1 DEF FlushStep, LeaseBatch, PostAccepted, PostFailed, MarkDelivered,
               MarkDeliveredFailed, MarkAttemptFailed
  <1>2. ASSUME NEW f, Crash(f) PROVE UNCHANGED vars
    BY <1>2 DEF Crash
  <1>3. ASSUME NEW e, BecomeDue(e) \/ LeaseEnds(e) PROVE UNCHANGED vars
    BY <1>3 DEF BecomeDue, LeaseEnds
  <1>4. ASSUME NEW b, Requeue(b) PROVE UNCHANGED vars
    BY <1>4 DEF Requeue
  <1>5. CASE UNCHANGED syncVars
    BY <1>5 DEF syncVars
  <1>6. QED
    BY <1>1, <1>2, <1>3, <1>4, <1>5 DEF SyncNext, LedgerStep

\* What is proved of the ledger holds while its outbox is flushed.
LEMMA LedgerUnderSync == SyncSpec => []ChargeInv /\ []OutboxMatchesLedger
  <1>1. SyncInit => ChargeInv /\ OutboxMatchesLedger
    BY InitCharge, InitOutbox DEF SyncInit
  <1>2. ChargeInv /\ [SyncNext]_syncVars => ChargeInv'
    BY SyncIsLedgerStep, NextCharge
  <1>3. OutboxMatchesLedger /\ [SyncNext]_syncVars => OutboxMatchesLedger'
    BY SyncIsLedgerStep, NextOutbox
  <1>4. QED
    BY <1>1, <1>2, <1>3, PTL DEF SyncSpec

\* An event of the outbox stands for a row the ledger committed.
LEMMA CommittedFacts ==
    ASSUME SyncInv, ChargeInv, OutboxMatchesLedger
    PROVE  ReportedIsCommitted
  <1> SUFFICES ASSUME NEW e \in received
      PROVE IF e.kind = "settlement"
            THEN /\ <<e.reservation, e.settlement>> \in billable
                 /\ reservations[e.reservation].status = "consumed"
            ELSE /\ <<e.agent, e.ref>> \in DOMAIN repayments
                 /\ repayments[<<e.agent, e.ref>>].applied > 0
    BY Zenon DEF ReportedIsCommitted
  <1>1. e \in BilledEvents \cup RepaidEvents
    BY OutboxParts DEF SyncInv, RowsFlow
  <1>2. CASE e \in BilledEvents
    <2>1. PICK b \in billable :
            e = [kind |-> "settlement", reservation |-> b[1], settlement |-> b[2]]
      BY <1>2 DEF BilledEvents
    <2>2. b \in Nonce \X Settlement
      BY DEF ChargeInv, TypeOK
    <2>3. b = <<b[1], b[2]>> /\ b[1] \in Nonce
      BY <2>2
    <2>4. reservations[b[1]].status = "consumed"
      BY <2>3, ChargeInvImplies DEF ChargedExactlyOnce
    <2>5. QED
      BY <2>1, <2>3, <2>4
  <1>3. CASE e \in RepaidEvents
    <2>1. PICK k \in DOMAIN repayments :
            /\ repayments[k].applied > 0
            /\ e = [kind |-> "repayment", agent |-> k[1], ref |-> k[2]]
      BY <1>3 DEF RepaidEvents, PaidRepayments
    <2>2. k \in Agent \X Ref
      BY DEF ChargeInv, TypeOK
    <2>3. k = <<k[1], k[2]>>
      BY <2>2
    <2>4. QED
      BY <2>1, <2>3
  <1>4. QED
    BY <1>1, <1>2, <1>3

\* Everything FairScale accepted is a settlement the ledger billed and consumed
\* a reservation for, or a repayment that paid a debt down: the outbox row is
\* written by the same transaction (finalizeKizunaSettlement and
\* applyKizunaRepayment), and nothing else reaches postBatch.
THEOREM ReportSafe == SyncSpec => []ReportedIsCommitted
  BY SyncInvariant, LedgerUnderSync, CommittedFacts, PTL

-----------------------------------------------------------------------------
(* The outbox columns keep their types, and no row is due twice *)

\* A member of rank k exists: the least bound up to which k members are counted.
LEMMA RankExists ==
    ASSUME NEW n \in Nat, NEW K \in SUBSET (1..n), NEW k \in 1..Cardinality(K)
    PROVE  \E i \in K : Cardinality({j \in K : j <= i}) = k
  <1> DEFINE upTo(i) == {j \in K : j <= i}
             Reached == {i \in Nat : Cardinality(upTo(i)) >= k}
  <1>1. \A j \in K : j \in Nat /\ 1 <= j /\ j <= n
    OBVIOUS
  <1>2. IsFiniteSet(K) /\ Cardinality(K) \in Nat /\ k \in Nat /\ k # 0
    <2>1. IsFiniteSet(1..n)
      BY FS_Interval
    <2>2. IsFiniteSet(K)
      BY <2>1, FS_Subset
    <2>3. Cardinality(K) \in Nat
      BY <2>2, FS_CardinalityType
    <2>4. QED
      BY <2>2, <2>3
  <1>3. \A i \in Nat : IsFiniteSet(upTo(i)) /\ Cardinality(upTo(i)) \in Nat
    <2> SUFFICES ASSUME NEW i \in Nat
                 PROVE  IsFiniteSet(upTo(i)) /\ Cardinality(upTo(i)) \in Nat
      OBVIOUS
    <2>1. upTo(i) \in SUBSET K
      OBVIOUS
    <2> HIDE DEF upTo
    <2>2. QED
      BY <1>2, <2>1, FS_Subset, FS_CardinalityType
  <1>4. n \in Reached
    <2>1. upTo(n) = K
      BY <1>1
    <2>2. Cardinality(upTo(n)) >= k
      BY <1>2, <2>1
    <2> HIDE DEF upTo
    <2>3. QED
      BY <2>2
  <1>5. PICK i \in Reached : \A m \in Reached : i <= m
    <2>1. Reached \subseteq Nat /\ Reached # {}
      BY <1>4
    <2> HIDE DEF Reached
    <2>2. QED
      BY <2>1, LeastNatural
  <1>6. upTo(0) = {} /\ Cardinality(upTo(0)) = 0
    <2>1. \A j \in K : ~(j <= 0)
      BY <1>1
    <2>2. upTo(0) = {}
      BY <2>1
    <2>3. QED
      BY <2>2, FS_EmptySet
  <1>7. i \in Nat /\ i # 0 /\ Cardinality(upTo(i)) >= k
    BY <1>2, <1>6
  <1>8. Cardinality(upTo(i - 1)) < k
    <2>1. i - 1 \in Nat /\ ~(i <= i - 1)
      BY <1>7
    <2>2. i - 1 \in Nat /\ i - 1 \notin Reached
      <3> HIDE DEF Reached
      <3>1. QED
        BY <1>5, <2>1
    <2>3. Cardinality(upTo(i - 1)) \in Nat
      BY <1>3, <2>2
    <2> HIDE DEF upTo
    <2>4. ~(Cardinality(upTo(i - 1)) >= k)
      BY <2>2
    <2>5. QED
      BY <1>2, <2>3, <2>4
  <1>9. i \in K
    <2> SUFFICES ASSUME i \notin K PROVE FALSE
      OBVIOUS
    <2>1. \A j \in K : j <= i <=> j <= i - 1
      BY <1>1, <1>7
    <2>2. upTo(i) = upTo(i - 1)
      BY <2>1
    <2> HIDE DEF upTo
    <2>3. QED
      BY <1>2, <1>3, <1>7, <1>8, <2>2
  <1>10. Cardinality(upTo(i)) = Cardinality(upTo(i - 1)) + 1
    <2>1. \A j \in K : j <= i <=> j <= i - 1 \/ j = i
      BY <1>1, <1>7
    <2>2. ~(i <= i - 1) /\ i - 1 \in Nat
      BY <1>7
    <2>3. upTo(i) = upTo(i - 1) \cup {i} /\ i \notin upTo(i - 1) /\ i - 1 \in Nat
      BY <1>9, <2>1, <2>2
    <2>4. IsFiniteSet(upTo(i - 1))
      BY <1>3, <2>3
    <2> HIDE DEF upTo
    <2>5. QED
      BY <2>3, <2>4, FS_AddElement
  <1>11. i - 1 \in Nat
    BY <1>7
  <1>12. Cardinality(upTo(i)) = k
    <2>1. Cardinality(upTo(i - 1)) \in Nat
      BY <1>3, <1>11
    <2> HIDE DEF upTo
    <2>2. QED
      BY <1>2, <1>7, <1>8, <1>10, <2>1
  <1>13. QED
    BY <1>9, <1>12

\* Rows of the outbox, each due at most once.
DueRows(s) ==
    /\ s \in Seq(TrustEvent)
    /\ IsInjective(s)
    /\ \A i \in 1..Len(s) : s[i] \in outbox

\* Putting rows off leaves the others due once, and none of those put off.
LEMMA WithoutRows ==
    ASSUME NEW S, DueRows(due)
    PROVE  /\ DueRows(Without(S))
           /\ \A k \in 1..Len(Without(S)) : Without(S)[k] \notin S
  <1> DEFINE kept == {i \in 1..Len(due) : due[i] \notin S}
             rank(i) == Cardinality({j \in kept : j <= i})
             nth(k) == CHOOSE i \in kept : rank(i) = k
             w == [k \in 1..Cardinality(kept) |-> due[nth(k)]]
  <1>1. Len(due) \in Nat /\ kept \subseteq 1..Len(due) /\ due \in Seq(TrustEvent)
    BY DEF DueRows
  <1>2. Cardinality(kept) \in Nat
    <2>1. kept \in SUBSET (1..Len(due)) /\ IsFiniteSet(1..Len(due))
      BY <1>1, FS_Interval
    <2> HIDE DEF kept
    <2>2. IsFiniteSet(kept)
      BY <2>1, FS_Subset
    <2>3. QED
      BY <2>2, FS_CardinalityType
  <1>3. \A k \in 1..Cardinality(kept) : nth(k) \in kept /\ rank(nth(k)) = k
    <2> SUFFICES ASSUME NEW k \in 1..Cardinality(kept)
                 PROVE  nth(k) \in kept /\ rank(nth(k)) = k
      OBVIOUS
    <2>1. \E i \in kept : rank(i) = k
      <3>1. kept \in SUBSET (1..Len(due))
        BY <1>1
      <3> HIDE DEF kept
      <3>2. QED
        BY <1>1, <3>1, RankExists
    <2> HIDE DEF kept, rank
    <2>2. QED
      BY <2>1
  <1>4. Without(S) = w
    BY DEF Without
  <1>5. \A i \in kept : i \in 1..Len(due) /\ due[i] \notin S
    OBVIOUS
  <1> HIDE DEF kept, rank, nth
  <1>6. w \in Seq(TrustEvent) /\ Len(w) = Cardinality(kept)
    <2>1. \A k \in 1..Cardinality(kept) : due[nth(k)] \in TrustEvent
      BY <1>1, <1>3, <1>5, ElementOfSeq
    <2>2. w \in [1..Cardinality(kept) -> TrustEvent]
      BY <2>1
    <2> HIDE DEF w
    <2>3. QED
      BY <1>2, <2>2
  <1>7. \A k \in 1..Len(w) : w[k] = due[nth(k)] /\ nth(k) \in kept /\ rank(nth(k)) = k
    BY <1>3, <1>6
  <1>8. DOMAIN w = 1..Len(w)
    BY <1>6
  <1> HIDE DEF w
  <1>9. IsInjective(w)
    <2> SUFFICES ASSUME NEW a \in 1..Len(w), NEW b \in 1..Len(w), w[a] = w[b]
                 PROVE  a = b
      BY <1>8 DEF IsInjective
    <2>1. /\ w[a] = due[nth(a)] /\ nth(a) \in 1..Len(due)
          /\ w[b] = due[nth(b)] /\ nth(b) \in 1..Len(due)
          /\ rank(nth(a)) = a /\ rank(nth(b)) = b
      BY <1>5, <1>7
    <2>2. DOMAIN due = 1..Len(due)
      BY <1>1, LenProperties
    <2>3. nth(a) = nth(b)
      BY <2>1, <2>2 DEF DueRows, IsInjective
    <2>4. QED
      BY <2>1, <2>3
  <1>10. QED
    BY <1>4, <1>5, <1>6, <1>7, <1>9 DEF DueRows

\* Rows that become due go behind the others.
LEMMA QueuedRows ==
    ASSUME NEW s, DueRows(s), NEW D, IsFiniteSet(D), D \subseteq TrustEvent,
           D \subseteq outbox', outbox \subseteq outbox',
           \A i \in 1..Len(s) : s[i] \notin D,
           NEW rows \in SetToSeqs(D), due' = s \o rows
    PROVE  DueRows(due)'
  <1>1. Cardinality(D) \in Nat
    BY FS_CardinalityType
  <1>2. /\ rows \in [1..Cardinality(D) -> D]
        /\ \A i, j \in 1..Cardinality(D) : i # j => rows[i] # rows[j]
    BY DEF SetToSeqs
  <1>3. rows \in Seq(TrustEvent) /\ Len(rows) = Cardinality(D)
    BY <1>1, <1>2
  <1>4. s \in Seq(TrustEvent) /\ Len(s) \in Nat /\ DOMAIN s = 1..Len(s)
    BY DEF DueRows
  <1>5. /\ due' \in Seq(TrustEvent) /\ Len(due') = Len(s) + Len(rows)
        /\ DOMAIN due' = 1..Len(due')
        /\ \A i \in 1..Len(due') : due'[i] = IF i <= Len(s) THEN s[i] ELSE rows[i - Len(s)]
    <2>1. /\ s \o rows \in Seq(TrustEvent) /\ Len(s \o rows) = Len(s) + Len(rows)
          /\ \A i \in 1..(Len(s) + Len(rows)) :
                (s \o rows)[i] = IF i <= Len(s) THEN s[i] ELSE rows[i - Len(s)]
      BY <1>3, <1>4, ConcatProperties
    <2>2. QED
      BY <2>1, LenProperties
  <1>6. \A i \in 1..Len(due') : IF i <= Len(s) THEN i \in 1..Len(s)
                                ELSE i - Len(s) \in 1..Len(rows)
    BY <1>1, <1>3, <1>4, <1>5
  <1>7. IsInjective(due')
    <2> SUFFICES ASSUME NEW a \in 1..Len(due'), NEW b \in 1..Len(due'), due'[a] = due'[b]
                 PROVE  a = b
      BY <1>5 DEF IsInjective
    <2>1. CASE a <= Len(s) /\ b <= Len(s)
      BY <1>4, <1>5, <1>6, <2>1 DEF DueRows, IsInjective
    <2>2. CASE a > Len(s) /\ b > Len(s)
      <3>1. /\ a - Len(s) \in 1..Cardinality(D) /\ due'[a] = rows[a - Len(s)]
            /\ b - Len(s) \in 1..Cardinality(D) /\ due'[b] = rows[b - Len(s)]
        BY <1>1, <1>3, <1>4, <1>5, <1>6, <2>2
      <3>2. a - Len(s) = b - Len(s)
        BY <1>2, <3>1
      <3>3. QED
        BY <1>1, <1>3, <1>4, <1>5, <3>2
    <2>3. CASE a <= Len(s) /\ b > Len(s)
      <3>1. /\ a \in 1..Len(s) /\ due'[a] = s[a]
            /\ b - Len(s) \in 1..Cardinality(D) /\ due'[b] = rows[b - Len(s)]
        BY <1>1, <1>3, <1>4, <1>5, <1>6, <2>3
      <3>2. QED
        BY <1>2, <3>1
    <2>4. CASE a > Len(s) /\ b <= Len(s)
      <3>1. /\ b \in 1..Len(s) /\ due'[b] = s[b]
            /\ a - Len(s) \in 1..Cardinality(D) /\ due'[a] = rows[a - Len(s)]
        BY <1>1, <1>3, <1>4, <1>5, <1>6, <2>4
      <3>2. QED
        BY <1>2, <3>1
    <2>5. QED
      BY <1>1, <1>3, <1>4, <1>5, <2>1, <2>2, <2>3, <2>4
  <1>8. \A i \in 1..Len(due') : due'[i] \in outbox'
    BY <1>2, <1>3, <1>5, <1>6 DEF DueRows
  <1>9. QED
    BY <1>5, <1>7, <1>8 DEF DueRows

-----------------------------------------------------------------------------
(* The columns *)

ColumnsOK ==
    /\ leased \subseteq TrustEvent
    /\ attempted \subseteq TrustEvent
    /\ delivered \subseteq TrustEvent
    /\ flush \in [Flusher -> FlushState]
    /\ received \subseteq TrustEvent
    /\ excused \subseteq TrustEvent

\* The inductive invariant: what is due is a finite outbox's.
DueInv == ColumnsOK /\ DueRows(due) /\ IsFiniteSet(outbox)

\* A flush keeps its type wherever it goes.
LEMMA BecomeTyped ==
    ASSUME ColumnsOK, NEW f \in Flusher, NEW pc \in {"idle", "posting", "marking", "failing"},
           NEW batch \in SUBSET TrustEvent, Become(f, pc, batch)
    PROVE  flush' \in [Flusher -> FlushState]
  <1> DEFINE row == [pc |-> IF batch = {} THEN "idle" ELSE pc, batch |-> batch]
  <1>1. row \in FlushState
    BY DEF FlushState
  <1>2. flush' = [flush EXCEPT ![f] = row] /\ flush \in [Flusher -> FlushState]
    BY DEF Become, ColumnsOK
  <1> HIDE DEF row
  <1>3. QED
    BY <1>1, <1>2

\* The outbox stays finite: a transaction of the ledger queues at most one event.
LEMMA OutboxFinite ==
    ASSUME IsFiniteSet(outbox), Next PROVE IsFiniteSet(outbox')
  <1>1. ASSUME NEW n, NEW a, NEW l, NEW p, NEW amount, NEW mode,
               createKizunaReservation(n, a, l, p, amount, mode)
        PROVE  outbox' = outbox
    BY <1>1 DEF createKizunaReservation
  <1>2. ASSUME NEW n, Lapse(n) PROVE outbox' = outbox
    BY <1>2 DEF Lapse
  <1>3. ASSUME NEW n, NEW st, releaseKizunaReservation(n, st) PROVE outbox' = outbox
    BY <1>3 DEF releaseKizunaReservation
  <1>4. ASSUME NEW s, NEW n, NEW st, insertSettlement(s, n, st) PROVE outbox' = outbox
    BY <1>4 DEF insertSettlement
  <1>5. ASSUME NEW s, NEW st, updateSettlementStatus(s, st) PROVE outbox' = outbox
    BY <1>5 DEF updateSettlementStatus
  <1>6. ASSUME NEW n, NEW s, finalizeKizunaSettlement(n, s)
        PROVE  \E e : outbox' = outbox \cup {e}
    BY <1>6 DEF finalizeKizunaSettlement
  <1>7. ASSUME NEW a, NEW ref, NEW l, NEW p, NEW amount,
               applyKizunaRepayment(a, ref, l, p, amount)
        PROVE  outbox' = outbox \/ \E e : outbox' = outbox \cup {e}
    <2>1. outbox' = outbox \cup RepaymentEvent(a, ref, Applied(a, l, p, amount))
      BY <1>7 DEF applyKizunaRepayment
    <2>2. QED
      BY <2>1 DEF RepaymentEvent
  <1>8. ASSUME NEW a, NEW p, NEW ref, NEW type, NEW amount,
               FundingRequest(a, p, ref, type, amount)
        PROVE  outbox' = outbox
    BY <1>8 DEF FundingRequest, applyKizunaFundingEvent
  <1>9. outbox' = outbox \/ \E e : outbox' = outbox \cup {e}
    BY <1>1, <1>2, <1>3, <1>4, <1>5, <1>6, <1>7, <1>8 DEF Next
  <1>10. QED
    BY <1>9, FS_AddElement

\* A transaction of the ledger queues events that were not due before.
LEMMA LedgerDue ==
    ASSUME DueInv, TypeOK', LedgerStep PROVE DueInv'
  <1>1. outbox \subseteq outbox' /\ IsFiniteSet(outbox')
    BY LedgerOutbox, OutboxFinite DEF LedgerStep, DueInv
  <1> DEFINE D == outbox' \ outbox
  <1>2. PICK rows \in SetToSeqs(D) : due' = due \o rows
    BY DEF LedgerStep, QueueEvents
  <1>3. IsFiniteSet(D)
    BY <1>1, FS_Difference
  <1>4. D \subseteq TrustEvent
    BY DEF TypeOK
  <1>5. D \subseteq outbox' /\ \A i \in 1..Len(due) : due[i] \notin D
    BY DEF DueInv, DueRows
  <1>6. DueRows(due)
    BY DEF DueInv
  <1> HIDE DEF D
  <1>7. DueRows(due)'
    BY <1>1, <1>2, <1>3, <1>4, <1>5, <1>6, QueuedRows
  <1>8. ColumnsOK'
    BY DEF DueInv, ColumnsOK, LedgerStep
  <1>9. QED
    BY <1>1, <1>7, <1>8 DEF DueInv

\* A step that leaves the outbox alone.
LEMMA ColumnStep ==
    ASSUME DueInv, UNCHANGED outbox, UNCHANGED due \/ DueRows(due)',
           leased' \subseteq TrustEvent, attempted' \subseteq TrustEvent,
           delivered' \subseteq TrustEvent, flush' \in [Flusher -> FlushState],
           received' \subseteq TrustEvent, excused' \subseteq TrustEvent
    PROVE  DueInv'
  BY DEF DueInv, ColumnsOK, DueRows

\* The steps of a flush keep the types; a failed attempt puts its row off.
LEMMA FlushDue ==
    ASSUME DueInv, TypeOK, NEW f \in Flusher, FlushStep(f) \/ Crash(f)
    PROVE  DueInv'
  <1>1. /\ flush[f].batch \in SUBSET TrustEvent /\ outbox \subseteq TrustEvent
        /\ leased \subseteq TrustEvent /\ attempted \subseteq TrustEvent
        /\ delivered \subseteq TrustEvent /\ received \subseteq TrustEvent
        /\ excused \subseteq TrustEvent /\ ColumnsOK
    BY DEF DueInv, ColumnsOK, FlushState, TypeOK
  <1>2. CASE LeaseBatch(f)
    <2>1. PICK batch : /\ batch \in SUBSET outbox
                       /\ Become(f, "posting", batch)
                       /\ leased' = leased \cup batch
      BY <1>2 DEF LeaseBatch, IsLeasable
    <2>2. UNCHANGED <<outbox, due, attempted, delivered, received, excused>>
      BY <1>2 DEF LeaseBatch, vars
    <2>3. flush' \in [Flusher -> FlushState]
      BY <1>1, <2>1, BecomeTyped
    <2>4. QED
      BY <1>1, <2>1, <2>2, <2>3, ColumnStep
  <1>3. CASE PostAccepted(f) \/ PostFailed(f)
    <2>1. /\ UNCHANGED <<outbox, due, leased, attempted, delivered, excused>>
          /\ received' \subseteq TrustEvent
      BY <1>1, <1>3 DEF PostAccepted, PostFailed, vars, rowVars
    <2>2. flush' \in [Flusher -> FlushState]
      BY <1>1, <1>3, BecomeTyped DEF PostAccepted, PostFailed
    <2>3. QED
      BY <1>1, <2>1, <2>2, ColumnStep
  <1>4. CASE MarkDelivered(f)
    <2>1. /\ UNCHANGED <<outbox, due, attempted, received, excused>>
          /\ delivered' \subseteq TrustEvent /\ leased' \subseteq TrustEvent
      BY <1>1, <1>4 DEF MarkDelivered, vars
    <2>2. flush' \in [Flusher -> FlushState]
      BY <1>1, <1>4, BecomeTyped DEF MarkDelivered
    <2>3. QED
      BY <1>1, <2>1, <2>2, ColumnStep
  <1>5. CASE MarkDeliveredFailed(f) \/ Crash(f)
    <2>1. UNCHANGED <<outbox, due, leased, attempted, delivered, received, excused>>
      BY <1>5 DEF MarkDeliveredFailed, Crash, vars, rowVars
    <2>2. flush' \in [Flusher -> FlushState]
      BY <1>1, <1>5, BecomeTyped DEF MarkDeliveredFailed, Crash
    <2>3. QED
      BY <1>1, <2>1, <2>2, ColumnStep
  <1>6. ASSUME NEW e \in flush[f].batch, MarkAttemptFailed(f, e) PROVE DueInv'
    <2>1. /\ UNCHANGED <<outbox, delivered, received, excused>>
          /\ attempted' \subseteq TrustEvent /\ leased' \subseteq TrustEvent
          /\ UNCHANGED due \/ due' = Without({e})
      BY <1>1, <1>6 DEF MarkAttemptFailed, vars
    <2>2. flush' \in [Flusher -> FlushState]
      BY <1>1, <1>6, BecomeTyped DEF MarkAttemptFailed
    <2>3. DueRows(Without({e}))
      BY WithoutRows DEF DueInv
    <2>4. UNCHANGED due \/ DueRows(due)'
      BY <2>1, <2>3 DEF DueRows
    <2>5. QED
      BY <1>1, <2>1, <2>2, <2>4, ColumnStep
  <1>7. QED
    BY <1>2, <1>3, <1>4, <1>5, <1>6 DEF FlushStep

\* A row becomes due only if it is not, and a requeue moves its rows to the end.
LEMMA ClockDue ==
    ASSUME DueInv, TypeOK,
           \/ \E e \in outbox : BecomeDue(e) \/ LeaseEnds(e)
           \/ \E failedOnly \in BOOLEAN : Requeue(failedOnly)
    PROVE  DueInv'
  <1>1. /\ outbox \subseteq TrustEvent /\ leased \subseteq TrustEvent
        /\ attempted \subseteq TrustEvent /\ delivered \subseteq TrustEvent
        /\ received \subseteq TrustEvent /\ excused \subseteq TrustEvent
        /\ flush \in [Flusher -> FlushState] /\ DueRows(due) /\ IsFiniteSet(outbox)
    BY DEF DueInv, ColumnsOK, TypeOK
  <1>2. ASSUME NEW e \in outbox, BecomeDue(e) PROVE DueInv'
    <2>1. /\ UNCHANGED <<outbox, leased, attempted, delivered, flush, received, excused>>
          /\ due' = Append(due, e) /\ \A i \in 1..Len(due) : due[i] # e
      BY <1>2 DEF BecomeDue, vars, IsDue, Contains
    <2>2. DueRows(due)'
      <3>1. due \in Seq(TrustEvent) /\ Len(due) \in Nat /\ DOMAIN due = 1..Len(due)
        BY <1>1, LenProperties DEF DueRows
      <3>2. /\ due' \in Seq(TrustEvent) /\ Len(due') = Len(due) + 1
            /\ DOMAIN due' = 1..(Len(due) + 1)
            /\ due'[Len(due) + 1] = e
            /\ \A i \in 1..Len(due) : due'[i] = due[i]
        BY <1>1, <2>1, <3>1
      <3>3. \A i \in 1..(Len(due) + 1) : i \in 1..Len(due) \/ i = Len(due) + 1
        BY <3>1
      <3>4. QED
        BY <1>1, <2>1, <3>1, <3>2, <3>3 DEF DueRows, IsInjective
    <2>3. QED
      BY <1>1, <2>1, <2>2, ColumnStep
  <1>3. ASSUME NEW e \in outbox, LeaseEnds(e) PROVE DueInv'
    <2>1. /\ UNCHANGED <<outbox, due, attempted, delivered, flush, received>>
          /\ leased' \subseteq TrustEvent /\ excused' \subseteq TrustEvent
      BY <1>1, <1>3 DEF LeaseEnds, vars
    <2>2. QED
      BY <1>1, <2>1, ColumnStep
  <1>4. ASSUME NEW failedOnly, Requeue(failedOnly) PROVE DueInv'
    <2>1. UNCHANGED <<outbox, attempted, delivered, flush, received>>
      BY <1>4 DEF Requeue, vars
    <2>2. PICK S \in SUBSET outbox :
             /\ \E order \in SetToSeqs(S) : due' = Without(S) \o order
             /\ leased' = leased \ S
             /\ excused' = excused \cup {e \in S : IsHeld(e)}
      BY <1>4 DEF Requeue
    <2>3. PICK order \in SetToSeqs(S) : due' = Without(S) \o order
      BY <2>2
    <2>4. IsFiniteSet(S) /\ S \subseteq TrustEvent /\ S \subseteq outbox'
          /\ outbox \subseteq outbox'
      BY <1>1, <2>1, FS_Subset
    <2>5. /\ DueRows(Without(S))
          /\ \A k \in 1..Len(Without(S)) : Without(S)[k] \notin S
      BY <1>1, WithoutRows
    <2>6. DueRows(due)'
      BY <2>3, <2>4, <2>5, QueuedRows
    <2>7. leased' \subseteq TrustEvent /\ excused' \subseteq TrustEvent
      BY <1>1, <2>2
    <2>8. QED
      BY <1>1, <2>1, <2>6, <2>7, ColumnStep
  <1>5. QED
    BY <1>2, <1>3, <1>4

\* The outbox columns keep their types, and no row of the outbox is ever due
\* twice, so no batch of leaseFairscaleTrustEventBatch counts a row for two.
THEOREM SyncTypeCorrect == SyncSpec => []SyncTypeOK
  <1>1. SyncInit => DueInv
    BY FS_EmptySet DEF SyncInit, Init, DueInv, ColumnsOK, DueRows, FlushState, IsInjective
  <1>2. ChargeInv /\ ChargeInv' /\ DueInv /\ [SyncNext]_syncVars => DueInv'
    <2> SUFFICES ASSUME ChargeInv, ChargeInv', DueInv, [SyncNext]_syncVars PROVE DueInv'
      OBVIOUS
    <2>1. TypeOK /\ TypeOK'
      BY DEF ChargeInv
    <2>2. CASE UNCHANGED syncVars
      BY <2>2 DEF syncVars, rowVars, vars, DueInv, ColumnsOK, DueRows
    <2>3. QED
      BY <2>1, <2>2, LedgerDue, FlushDue, ClockDue DEF SyncNext
  <1>3. DueInv => SyncTypeOK
    BY DEF DueInv, ColumnsOK, DueRows, SyncTypeOK
  <1>4. QED
    BY <1>1, <1>2, <1>3, LedgerUnderSync, PTL DEF SyncSpec

=============================================================================
