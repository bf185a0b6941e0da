---------------------------- MODULE FairscaleSync ----------------------------
(***************************************************************************)
(* The FairScale trust sync of services/x402-facilitator                   *)
(* (src/services/fairscale-trust-sync.ts over the outbox table of          *)
(* src/db/queries.ts), composed with the ledger whose transactions queue   *)
(* the events.  A Flusher is one run of flushFairscaleTrustEventsOnce: the *)
(* timer's tick or a POST /trust-sync/flush, in any process.  Runs share   *)
(* nothing but the outbox rows, and a row does not say who leased it.      *)
(***************************************************************************)
EXTENDS KizunaLedger, SequencesExt

CONSTANTS
    Flusher,      \* concurrent runs of flushFairscaleTrustEventsOnce
    BatchSize,    \* FAIRSCALE_TRUST_EVENTS_BATCH_SIZE of each process
    Fault         \* which of the Faults below may happen

Faults ==
    {"slow",      \* a flush is still running when its lease ends
     "requeue",   \* POST /trust-sync/requeue
     "db",        \* an UPDATE of the outbox fails
     "crash"}     \* the process dies during a flush

ASSUME BatchSizeAssumption == BatchSize \in [Flusher -> Nat \ {0}]
ASSUME FaultAssumption == Fault \subseteq Faults

VARIABLES
    due,        \* rows whose next_attempt_at has passed, in its order
    leased,     \* rows whose leased_until has not passed
    attempted,  \* rows with attempt_count > 0
    delivered,  \* rows with delivered_at
    flush,      \* the state of each flusher
    received,   \* events FairScale has accepted
    excused     \* rows freed under a flush: its lease ended or was cleared

rowVars == <<due, leased, attempted, delivered>>
syncVars == <<vars, rowVars, flush, received, excused>>

FlushState ==
    [pc: {"idle", "posting", "marking", "failing"}, batch: SUBSET TrustEvent]

\* The type of the outbox columns and of the flushers; a row is due once.
SyncTypeOK ==
    /\ due \in Seq(TrustEvent) /\ IsInjective(due)
    /\ leased \subseteq TrustEvent
    /\ attempted \subseteq TrustEvent
    /\ delivered \subseteq TrustEvent
    /\ flush \in [Flusher -> FlushState]
    /\ received \subseteq TrustEvent
    /\ excused \subseteq TrustEvent

SyncInit ==
    /\ Init
    /\ due = <<>>
    /\ leased = {}
    /\ attempted = {}
    /\ delivered = {}
    /\ flush = [f \in Flusher |-> [pc |-> "idle", batch |-> {}]]
    /\ received = {}
    /\ excused = {}

-----------------------------------------------------------------------------
(* Helpers *)

May(fault) == fault \in Fault

IsDue(e) == Contains(due, e)

\* ORDER BY next_attempt_at: a row that is due comes before one that is not.
Before(e, o) == \E i \in 1..Len(due) : due[i] = e /\ \A j \in 1..i : due[j] # o

\* ... LIMIT: no row that is left out comes before one that is taken.
IsFirstOf(S, rows) == S \subseteq rows /\ \A e \in S, o \in rows \ S : ~Before(o, e)

Without_KeepsRows(S) == due

\* The rows of S get a later next_attempt_at; the others keep their order.
Without(S) ==
    LET kept == {i \in 1..Len(due) : due[i] \notin S}
    IN  [k \in 1..Cardinality(kept) |->
           due[CHOOSE i \in kept : Cardinality({j \in kept : j <= i}) = k]]

\* Flusher f has the events of batch left to handle.
Become(f, pc, batch) ==
    flush' = [flush EXCEPT ![f] =
                [pc |-> IF batch = {} THEN "idle" ELSE pc, batch |-> batch]]

IsHeld(e) == \E f \in Flusher : e \in flush[f].batch

-----------------------------------------------------------------------------
(* The transactions of the ledger insert their events with them *)

\* queueFairscaleTrustEventOutbox, as part of a transaction of the ledger: the
\* row is due at once (next_attempt_at DEFAULT NOW()).
QueueEvents ==
    \E rows \in SetToSeqs(outbox' \ outbox) : due' = due \o rows

LedgerStep ==
    /\ Next
    /\ QueueEvents
    /\ UNCHANGED <<leased, attempted, delivered, flush, received, excused>>

-----------------------------------------------------------------------------
(* flushFairscaleTrustEventsOnce *)

IsLeasable_IgnoringLease(e) == IsDue(e) /\ e \notin delivered

IsLeasable_FirstAttempt(e) == IsDue(e) /\ e \notin delivered \cup leased \cup attempted

\* The WHERE clause of the lease.
IsLeasable(e) == IsDue(e) /\ e \notin delivered \cup leased

\* leaseFairscaleTrustEventBatch; an empty batch ends the flush and is no step.
LeaseBatch(f) ==
    LET rows == {e \in outbox : IsLeasable(e)}
    IN  /\ flush[f].pc = "idle"
        /\ \E batch \in SUBSET rows \ {{}} :
              /\ IsFirstOf(batch, rows)
              /\ Cardinality(batch) = Min({BatchSize[f], Cardinality(rows)})
              /\ Become(f, "posting", batch)
              /\ leased' = leased \cup batch
        /\ UNCHANGED <<vars, due, attempted, delivered, received, excused>>

PostBatch_AnyStatus(f) ==
    /\ flush[f].pc = "posting"
    /\ Become(f, "marking", flush[f].batch)
    /\ received' \in {received, received \cup flush[f].batch}
    /\ UNCHANGED <<vars, rowVars, excused>>

PostAccepted(f) ==
    /\ flush[f].pc = "posting"
    /\ Become(f, "marking", flush[f].batch)
    /\ received' = received \cup flush[f].batch
    /\ UNCHANGED <<vars, rowVars, excused>>

\* postBatch throws: FairScale refused the batch, or its answer was not seen
\* before FAIRSCALE_TRUST_EVENTS_TIMEOUT_MS.
PostFailed(f) ==
    /\ flush[f].pc = "posting"
    /\ Become(f, "failing", flush[f].batch)
    /\ received' \in {received, received \cup flush[f].batch}
    /\ UNCHANGED <<vars, rowVars, excused>>

\* markFairscaleTrustEventsDelivered: one UPDATE for the whole batch, whoever
\* holds its rows by now.
MarkDelivered(f) ==
    /\ flush[f].pc = "marking"
    /\ delivered' = delivered \cup flush[f].batch
    /\ leased' = leased \ flush[f].batch
    /\ Become(f, "idle", {})
    /\ UNCHANGED <<vars, due, attempted, received, excused>>

\* An UPDATE that fails there lands in the same catch as a failed post.
MarkDeliveredFailed(f) ==
    /\ May("db")
    /\ flush[f].pc = "marking"
    /\ Become(f, "failing", flush[f].batch)
    /\ UNCHANGED <<vars, rowVars, received, excused>>

\* markFairscaleTrustEventAttemptFailed, one statement per event, run together:
\* next_attempt_at moves into the future.
MarkAttemptFailed(f, e) ==
    /\ flush[f].pc = "failing"
    /\ e \in flush[f].batch
    /\ Become(f, "failing", flush[f].batch \ {e})
    /\ \/ /\ attempted' = attempted \cup {e}
          /\ leased' = leased \ {e}
          /\ due' = Without({e})
       \/ May("db") /\ UNCHANGED <<attempted, leased, due>>
    /\ UNCHANGED <<vars, delivered, received, excused>>

Crash(f) ==
    /\ May("crash")
    /\ flush[f].pc # "idle"
    /\ Become(f, "idle", {})
    /\ UNCHANGED <<vars, rowVars, received, excused>>

FlushStep(f) ==
    \/ LeaseBatch(f)
    \/ PostAccepted(f)
    \/ PostFailed(f)
    \/ MarkDelivered(f)
    \/ MarkDeliveredFailed(f)
    \/ \E e \in flush[f].batch : MarkAttemptFailed(f, e)

-----------------------------------------------------------------------------
(* The clock and the operator *)

\* next_attempt_at passes.  (Nothing reads that of a delivered row.)
BecomeDue(e) ==
    /\ e \in outbox \ delivered
    /\ ~IsDue(e)
    /\ due' = Append(due, e)
    /\ UNCHANGED <<vars, leased, attempted, delivered, flush, received, excused>>

\* leased_until passes.
LeaseEnds(e) ==
    /\ e \in leased
    /\ IsHeld(e) => May("slow")
    /\ leased' = leased \ {e}
    /\ excused' = IF IsHeld(e) THEN excused \cup {e} ELSE excused
    /\ UNCHANGED <<vars, due, attempted, delivered, flush, received>>

\* requeueFairscaleTrustEvents: any limit of the undelivered rows, or of the
\* failed ones, due now and free of any lease.
Requeue(failedOnly) ==
    LET rows == {e \in outbox \ delivered : failedOnly => e \in attempted}
    IN  /\ May("requeue")
        /\ \E S \in SUBSET rows \ {{}} :
              /\ IsFirstOf(S, rows)
              /\ \E order \in SetToSeqs(S) : due' = Without(S) \o order
              /\ leased' = leased \ S
              /\ excused' = excused \cup {e \in S : IsHeld(e)}
        /\ UNCHANGED <<vars, attempted, delivered, flush, received>>

SyncNext ==
    \/ LedgerStep
    \/ \E f \in Flusher : FlushStep(f) \/ Crash(f)
    \/ \E e \in outbox : BecomeDue(e) \/ LeaseEnds(e)
    \/ \E failedOnly \in BOOLEAN : Requeue(failedOnly)

SyncSpec == SyncInit /\ [][SyncNext]_syncVars

\* Time passes, the timer starts a flush every FLUSH_INTERVAL_MS and every await
\* of it ends.  What depends on others is only fair in the strong sense: FairScale
\* accepts a batch, and the database an update, if tried again and again.
SyncFairness ==
    /\ \A e \in TrustEvent : WF_syncVars(BecomeDue(e)) /\ WF_syncVars(LeaseEnds(e))
    /\ \A f \in Flusher : /\ WF_syncVars(FlushStep(f))
                          /\ SF_syncVars(PostAccepted(f))
                          /\ SF_syncVars(MarkDelivered(f))

FairSyncSpec == SyncSpec /\ SyncFairness

-----------------------------------------------------------------------------
(* Properties *)

\* An event is marked delivered only if FairScale accepted it, whichever flush
\* marks it and whatever happened to its lease in between.
DeliveredIsReported == delivered \subseteq received

\* FairScale hears of nothing but what the ledger committed: a settlement that
\* is billed and whose reservation is consumed by it, or a repayment that paid
\* a debt down.
ReportedIsCommitted ==
    \A e \in received :
       IF e.kind = "settlement"
       THEN /\ <<e.reservation, e.settlement>> \in billable
            /\ reservations[e.reservation].status = "consumed"
       ELSE /\ <<e.agent, e.ref>> \in DOMAIN repayments
            /\ repayments[<<e.agent, e.ref>>].applied > 0

\* Two flushes work on one event only after its lease was taken away under the
\* first: a lease ended during a slow flush, or an operator requeued the row.
OneFlushPerEvent ==
    \A f, g \in Flusher :
       f # g => flush[f].batch \cap flush[g].batch \subseteq excused

\* Every queued event is delivered in the end, through failed posts, lost
\* answers, failed updates, crashes and leases that end too early.
EveryEventDelivered ==
    \A e \in TrustEvent : e \in outbox ~> e \in delivered
=============================================================================
