--------------------------- MODULE RequestPipeline ---------------------------
(***************************************************************************)
(* One request from its request_submitted event to its terminal status:    *)
(* the consumer's handlers, the reconciler's tick and the two operator     *)
(* actions of the admin API, running concurrently on one table, with the   *)
(* host, the upstream and the disturbances around them.                    *)
(***************************************************************************)
EXTENDS Consumer, Reconciler

vars == <<storeVars, envVars, handler, reconcilerVars>>

Init == StoreInit /\ EnvInit /\ ConsumerInit /\ ReconcilerInit

-----------------------------------------------------------------------------
(* internal/server: the operations of the admin API that change a row. *)

\* POST /requests/{id}/retry
AdminRetry(r) ==
    /\ Disturb("retry")
    /\ RetryRequest(r)
    /\ UNCHANGED <<pending, told, jobs, handler, reconcilerVars>>

\* POST /requests/{id}/mark-failed
AdminMarkFailed(r) ==
    /\ Disturb("markfailed")
    /\ MarkFailedManually(r)
    /\ UNCHANGED <<pending, told, jobs, handler, reconcilerVars>>

-----------------------------------------------------------------------------
(* The process dies and is started and configured again.  Handlers and the *)
(* tick are gone, and with them all that Reconciler keeps in memory; the   *)
(* host delivers again what was never acknowledged.                        *)
Crash ==
    /\ Disturb("crash")
    /\ pending' = pending \cup InHand
    /\ handler' = [h \in Handlers |-> Idle]
    /\ tickPc' = "idle" /\ answer' = NoAnswer
    /\ batch' = [r \in Requests |-> NoRow]
    /\ expired' = FALSE /\ firstErr' = FALSE
    /\ lastError' = [r \in Requests |-> NoError]
    /\ parked' = FALSE
    /\ lastStatus' = [skipped |-> FALSE, error |-> FALSE]
    /\ UNCHANGED <<storeVars, told, jobs>>

-----------------------------------------------------------------------------
HostStep     == \E r \in Requests : Redeliver(r)
UpstreamStep == \E j \in JobIds : UpstreamProgress(j)
AdminStep    == \E r \in Requests : AdminRetry(r) \/ AdminMarkFailed(r)

ConsumerStep == \E h \in Handlers : HandlerStep(h) \/ \E r \in Requests : Receive(h, r)

Next ==
    \/ ConsumerStep /\ UNCHANGED reconcilerVars
    \/ TickStep /\ UNCHANGED handler
    \/ (HostStep \/ UpstreamStep) /\ UNCHANGED <<handler, reconcilerVars>>
    \/ AdminStep
    \/ Crash

Spec == Init /\ [][Next]_vars

(***************************************************************************)
(* Fairness.  The host goes on delivering what is pending to idle handlers *)
(* (at-least-once delivery) and the Go scheduler runs every started        *)
(* handler and tick on; the scheduler task fires every minute, so a tick   *)
(* begins again after each that ended; the Retry-After window passes.      *)
(* Nothing is assumed of the upstream's jobs, and no disturbance is ever   *)
(* forced to happen.                                                       *)
(***************************************************************************)
Deliver(r) == \E h \in Handlers : Receive(h, r) /\ UNCHANGED reconcilerVars
RunHandler(h) == HandlerStep(h) /\ UNCHANGED reconcilerVars
RunTick ==
    /\ \/ TickFinish \/ TickBegin
       \/ \E r \in Requests :
             Poll(r) \/ RecordError(r) \/ MarkPolledRow(r) \/ PublishTransition(r)
    /\ UNCHANGED handler
LeaveBackoff == BackoffElapsed /\ UNCHANGED handler

Fairness ==
    /\ \A r \in Requests : WF_vars(Deliver(r))
    /\ \A h \in Handlers : WF_vars(RunHandler(h))
    /\ WF_vars(RunTick)
    /\ WF_vars(LeaveBackoff)

FairSpec == Spec /\ Fairness
-----------------------------------------------------------------------------
(* Type invariant. *)

\* Every variable of the pipeline has the values its component declares.
TypeOK == StoreTypeOK /\ EnvTypeOK /\ ConsumerTypeOK /\ ReconcilerTypeOK

-----------------------------------------------------------------------------
(* Invariants. *)

Owed == pending \cup InHand

\* A request whose event the host no longer owes is never forgotten: either
\* the row holds a job the reconciler polls, or it is terminal.  This is what
\* the consumer's nacks are for (consumer/handler.go:80-84, 136-142).
NoLostRequest == \A r \in Requests : r \in Owed \/ Tracked(r) \/ IsTerminal(r)

\* Where NoLostRequest does not hold, the damage is bounded: an answer without
\* an id, or a statement that fails where its error is only logged, loses the
\* request it is about and no other (ebookdb/monitoring.go:84-97,
\* consumer/handler.go:97-103).
OneLossEach ==
    Cardinality({r \in Requests : r \notin Owed /\ ~Tracked(r) /\ ~IsTerminal(r)})
        <= disturbances

\* The portal is told that a request was acknowledged only when the row holds
\* a job: publish comes after the statement that stores external_id
\* (consumer/handler.go:134-148).
AcknowledgedIsTracked ==
    \A r \in Requests : "request_acknowledged" \in told[r] => Tracked(r)

\* A row is imported, or the portal is told it was fulfilled, only if a job
\* started for this very request completed, however stale the snapshot of the
\* tick and however often the job was replaced (reconciler.go:205-267).
FulfilmentIsGenuine ==
    \A r \in Requests :
        \/ rows[r].status = "imported"
        \/ "request_fulfilled" \in told[r]
        => \E j \in JobIds : r \in jobs[j].owners /\ jobs[j].status \in Completed

\* An imported row was announced, unless the tick is about to: the event is
\* published even when MarkPolled returned an error (reconciler.go:255-267),
\* since a statement that was applied all the same is never polled again.
ImportedIsAnnounced ==
    \A r \in Requests :
        rows[r].status = "imported" =>
            \/ "request_fulfilled" \in told[r]
            \/ tickPc = "publish" /\ Current(r)

\* A terminal row whose outcome the portal was not told, and will not be.  A
\* request without metadata is rejected, and told so, each time it is delivered.
Untold ==
    {r \in Requests :
        /\ IsTerminal(r)
        /\ (IF rows[r].status = "imported" THEN "request_fulfilled"
                                           ELSE "request_failed") \notin told[r]
        /\ ~(tickPc = "publish" /\ Current(r))
        /\ r \notin NoMetadata \cap Owed
        /\ \A h \in Handlers : ~(At(h, "tellFailed") /\ handler[h].req = r)}

\* Recording an outcome and publishing it are two steps, and nothing repeats
\* the second.  Each misfortune or operator's act costs at most one
\* announcement, a crash in mid-tick and mid-delivery too
\* (reconciler.go:255-275, consumer/handler.go:119-132, publisher.go:20-31).
LossesAreCounted == Cardinality(Untold) <= disturbances

\* An open row that does not show the error its last poll ended with, and will
\* not while the same error comes again: the reconciler believes it is written
Silent ==
    {r \in Requests :
        /\ ~IsTerminal(r)
        /\ lastError[r] \notin {NoError, rows[r].err}
        /\ ~(tickPc = "record" /\ Current(r))}

\* The deduplication of errors compares with what it remembers, not with the
\* row.  A statement that fails after the text was remembered, or a retry that
\* clears error_text, silences a row; each such misfortune silences one row,
\* and nothing else does (reconciler.go:105-118, 227-240, store/request.go:273).
SilencesAreCounted == Cardinality(Silent) <= disturbances

\* The status table of the lifecycle doc: an acknowledged row has its
\* external_id, so that the reconciler polls it.
AcknowledgedRowHasJob ==
    \A r \in Requests : rows[r].status = "acknowledged" => Tracked(r)

-----------------------------------------------------------------------------
(* Action properties. *)

\* No redelivery, late answer or stale tick moves a row out of a terminal
\* status; only the two operator actions do (store/request.go:66-72, 106-109).
TerminalIsFinal ==
    [][\A r \in Requests :
         IsTerminal(r) => \/ rows'[r].status = rows[r].status
                          \/ AdminRetry(r) \/ AdminMarkFailed(r)]_vars

\* A tick never takes a row back from a status the upstream reported to one
\* the plugin started with, though it writes back the status of an old
\* snapshot after a failed poll (reconciler.go:235-239, 315-319).
TickNeverRegresses ==
    [][\A r \in Requests :
         /\ rows[r].status \in PolledStatuses
         /\ rows'[r].status \in LocalStatuses
         => UNCHANGED tickVars]_vars

\* Between a 429 and the end of its window the reconciler makes no upstream
\* call, in the rest of its batch or in later ticks (reconciler.go:59-64).
ParkedMeansQuiet ==
    [][parked => \A r \in Requests : ~Poll(r)]_vars

\* The portal hears of a fulfilment at most once (status-translation.md:55-61).
FulfilledOnce ==
    [][\A r \in Requests :
         PublishTransition(r) /\ answer = "imported"
            => "request_fulfilled" \notin told[r]]_vars

\* A redelivered event does not cost more than an orphaned upstream job: it
\* does not fail a request that is being polled (request-lifecycle.md:85-90).
RedeliveryIsHarmless ==
    [][\A h \in Handlers, r \in Requests :
         /\ RecordFailed(h) /\ handler[h].req = r
         /\ Tracked(r) /\ ~IsTerminal(r)
         => rows'[r].status # "failed"]_vars

-----------------------------------------------------------------------------
(* The pipeline implements the ledger. *)

LedgerStatus == [r \in Requests |->
                    IF IsTerminal(r) THEN rows[r].status ELSE "open"]

Ledger == INSTANCE RequestLedger WITH
            status  <- LedgerStatus,
            tracked <- {r \in Requests : Tracked(r)},
            owed    <- Owed

\* Every step of the pipeline is a step of the ledger or leaves it unchanged:
\* the request is settled only once it is tracked or decided, by whichever
\* handler; the tick decides only tracked requests; a crash loses nothing.
ImplementsLedger == Ledger!Spec

-----------------------------------------------------------------------------
(* Liveness, under FairSpec: disturbances are finitely many. *)

\* A request whose event is owed ends up with a job or in a terminal status.
EventuallySettled ==
    \A r \in Requests :
        r \in Owed ~> (r \notin Owed /\ (Tracked(r) \/ IsTerminal(r)))

Done(r) == Tracked(r) /\ jobs[rows[r].ext].status \in Completed

\* The reconciler notices that the job of a row completed, even when the batch
\* has no room for every row (reconciler.go:189-193, store/request.go:145-151).
CompletedIsNoticed ==
    \A r \in Requests : (Done(r) /\ ~IsTerminal(r)) ~> (IsTerminal(r) \/ ~Done(r))

\* The error of a failed poll does not stick to a row that can be polled
\* (store/request.go:83-89).
PollErrorsAreTransient ==
    \A r \in Requests :
        rows[r].err \in PollErrors
            ~> \/ rows[r].err \notin PollErrors
               \/ IsTerminal(r)
               \/ jobs[rows[r].ext].status = Gone
=============================================================================
