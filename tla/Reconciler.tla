----------------------------- MODULE Reconciler -----------------------------
(***************************************************************************)
(* internal/reconciler: one Reconciler and its Tick, one step per remote   *)
(* call or statement.  tickPc # "idle" is tickMu being held.  A tick works *)
(* on the snapshot it listed at its start (batch), while handlers and      *)
(* operators go on changing the rows.                                      *)
(*                                                                         *)
(* Rows without an external_id are listed, use up the limit, and are       *)
(* skipped without any effect, so TickBegin leaves them out of batch.      *)
(* Time is abstracted: parked says that backoffUntil lies in the future    *)
(* (its value is in module Backoff), expired that the context of the       *)
(* running tick is done.                                                   *)
(***************************************************************************)
EXTENDS Environment

VARIABLES
    tickPc,      \* where Tick is
    batch,       \* batch[r]: the listed row still to be processed, pos 0 if none
    answer,      \* what the poll of the current row gave
    expired,     \* ctx.Err() # nil
    firstErr,    \* firstErr # nil
    lastError,   \* the deduplication map lastError, NoError for no entry
    parked,      \* backoffRemaining() > 0
    lastStatus   \* the snapshot LastStatus returns

tickVars == <<tickPc, batch, answer, expired, firstErr>>
reconcilerVars == <<tickVars, lastError, parked, lastStatus>>

TickPcs == { "idle",      \* no tick
             "row",       \* at the head of the loop
             "record",    \* about to record the error of a poll
             "mark",      \* about to MarkPolled
             "publish" }  \* about to publish the transition

NoAnswer == ""
NoRow    == [status |-> "absent", ext |-> NoJob, pos |-> 0]
BatchRow == [status : Statuses \cup {"absent"}, ext : MaybeJob, pos : Nat]

ReconcilerTypeOK ==
    /\ tickPc \in TickPcs
    /\ batch \in [Requests -> BatchRow]
    /\ answer \in CASE tickPc \in {"idle", "row"} -> {NoAnswer}
                     [] tickPc = "record"          -> PollErrors
                     [] tickPc = "mark"            -> Statuses \cup {NoAnswer}
                     [] tickPc = "publish"         -> Statuses
    /\ expired \in BOOLEAN /\ firstErr \in BOOLEAN
    /\ lastError \in [Requests -> PollErrors \cup {NoError}]
    /\ parked \in BOOLEAN
    /\ lastStatus \in [skipped : BOOLEAN, error : BOOLEAN]

NoTick ==
    /\ tickPc = "idle" /\ answer = NoAnswer
    /\ batch = [r \in Requests |-> NoRow]
    /\ expired = FALSE /\ firstErr = FALSE

ReconcilerInit ==
    /\ NoTick
    /\ lastError = [r \in Requests |-> NoError]
    /\ parked = FALSE
    /\ lastStatus = [skipped |-> FALSE, error |-> FALSE]

InBatch    == {r \in Requests : batch[r].pos > 0}
Current(r) == r \in InBatch /\ \A q \in InBatch : batch[r].pos <= batch[q].pos

-----------------------------------------------------------------------------
\* Mutants of TranslateStatus: an unknown status becomes acknowledged, as it
\* once did (debugging-runbook.md:80-83); or it counts as completed.
TranslateToAcknowledged(s) ==
    CASE s \in {"monitored", "searching", "searching_now"} -> "searching"
      [] s \in {"completed", "imported"}                   -> "imported"
      [] OTHER                                             -> "acknowledged"

TranslateToImported(s) ==
    IF s \in {"monitored", "searching", "searching_now"} THEN "searching" ELSE "imported"

\* Mutant of TranslateStatus: the upstream status is stored untranslated.
Untranslated(s) == s

\* translateStatus; NoAnswer for an upstream status it does not know
TranslateStatus(s) ==
    CASE s \in {"monitored", "searching", "searching_now"} -> "searching"
      [] s \in {"found", "found_pending"}                  -> "found"
      [] s \in {"grabbed", "downloading"}                  -> "downloading"
      [] s \in {"completed", "imported"}                   -> "imported"
      [] s \in {"failed", "not_found", "error"}            -> "failed"
      [] OTHER                                             -> NoAnswer

\* Mutant of EventFor: only a failure has an event of its own.
EventForOpen(status) ==
    IF status = "failed" THEN "request_failed" ELSE "request_status_changed"

\* The event a transition to a status is published as
EventFor(status) ==
    CASE status = "imported" -> "request_fulfilled"
      [] status = "failed"   -> "request_failed"
      [] OTHER               -> "request_status_changed"

\* "" or the status the snapshot already has: no transition, no event
NoTransition(r) == answer \in {NoAnswer, batch[r].status}
MarkedStatus(r) == IF NoTransition(r) THEN batch[r].status ELSE answer

NextRow(r) == /\ tickPc' = "row" /\ answer' = NoAnswer
              /\ batch' = [batch EXCEPT ![r] = NoRow]
\* Mutant of BreakLoop: the loop goes on with the next row.
ContinueLoop == \E r \in Requests : Current(r) /\ NextRow(r)

BreakLoop  == /\ tickPc' = "row" /\ answer' = NoAnswer
              /\ batch' = [r \in Requests |-> NoRow]

\* A statement of the tick: it succeeds, or returns an error, applied or not.
\* On an expired context it always returns an error.
Succeeds(statement) == ~expired /\ Undisturbed /\ statement
Fails(statement)    ==
    /\ IF expired THEN Undisturbed ELSE Disturb("db")
    /\ statement \/ UNCHANGED storeVars

-----------------------------------------------------------------------------
\* The scheduler or the admin's "run now" calls Tick.
TickBegin ==
    /\ tickPc = "idle" /\ ~parked
    /\ batch' = [r \in Requests |->
            IF r \in ListNonTerminal /\ Tracked(r)
            THEN [status |-> rows[r].status, ext |-> rows[r].ext,
                  pos |-> PollPosition(r)]
            ELSE NoRow]
    /\ tickPc' = "row"
    /\ UNCHANGED <<answer, expired, firstErr, lastError, parked, lastStatus,
                   storeVars, envVars>>

\* ListNonTerminal fails
TickFailsToList ==
    /\ tickPc = "idle" /\ ~parked
    /\ Disturb("db")
    /\ lastStatus' = [skipped |-> FALSE, error |-> TRUE]
    /\ UNCHANGED <<tickVars, lastError, parked, storeVars, pending, told, jobs>>

\* backoffRemaining() > 0
TickParked ==
    /\ tickPc = "idle" /\ parked
    /\ lastStatus' = [skipped |-> TRUE, error |-> TRUE]
    /\ UNCHANGED <<tickVars, lastError, parked, storeVars, envVars>>

\* TryLock fails: the call is dropped
TickSkipped ==
    /\ tickPc # "idle"
    /\ lastStatus' = [skipped |-> TRUE, error |-> FALSE]
    /\ UNCHANGED <<tickVars, lastError, parked, storeVars, envVars>>

TickTimeout ==
    /\ tickPc # "idle" /\ ~expired
    /\ Disturb("timeout")
    /\ expired' = TRUE
    /\ UNCHANGED <<tickPc, batch, answer, firstErr, lastError, parked, lastStatus,
                   storeVars, pending, told, jobs>>

-----------------------------------------------------------------------------
PollSucceeds(r) ==
    LET s == jobs[batch[r].ext].status IN
    /\ s # Gone
    /\ Undisturbed
    /\ lastError' = [lastError EXCEPT ![r] = NoError]           \* clearError
    /\ tickPc' = "mark" /\ answer' = TranslateStatus(s)
    /\ UNCHANGED <<batch, expired, firstErr, parked>>

\* Mutant of PollFails: compared after it is remembered, no text is new.
PollFailsUnrecorded(r, text) ==
    /\ lastError' = [lastError EXCEPT ![r] = text]
    /\ NextRow(r)
    /\ UNCHANGED <<firstErr, parked>>

\* recordErrorChanged: the same text as last time is not written again
PollFails(r, text) ==
    /\ lastError' = [lastError EXCEPT ![r] = text]
    /\ IF lastError[r] = text
       THEN NextRow(r)
       ELSE tickPc' = "record" /\ answer' = text /\ UNCHANGED batch
    /\ UNCHANGED <<firstErr, parked>>

\* 429: park, record it on this row, leave the loop
PollRateLimited(r) ==
    /\ Disturb("ratelimit")
    /\ parked' = TRUE /\ firstErr' = TRUE
    /\ lastError' = [lastError EXCEPT ![r] = "rate limited"]
    /\ IF lastError[r] = "rate limited"
       THEN BreakLoop
       ELSE tickPc' = "record" /\ answer' = "rate limited" /\ UNCHANGED batch
    /\ UNCHANGED expired

\* GetMonitoring on the current row, unless the context is done
Poll(r) ==
    /\ tickPc = "row" /\ ~expired
    /\ Current(r)
    /\ \/ PollSucceeds(r)
       \/ /\ jobs[batch[r].ext].status = Gone
          /\ Undisturbed /\ PollFails(r, "gone") /\ UNCHANGED expired
       \/ Disturb("upstream") /\ PollFails(r, "unreachable") /\ UNCHANGED expired
       \/ Disturb("timeout") /\ PollFails(r, "unreachable") /\ expired' = TRUE
       \/ PollRateLimited(r)
    /\ UNCHANGED <<lastStatus, storeVars, pending, told, jobs>>

\* The status written back is the one of the snapshot.
RecordError(r) ==
    LET persist == UpsertPolled(r, batch[r].ext, batch[r].status, answer) IN
    /\ tickPc = "record" /\ Current(r)
    /\ IF answer = "rate limited" THEN BreakLoop ELSE NextRow(r)
    /\ \/ Succeeds(persist) /\ UNCHANGED firstErr
       \/ Fails(persist) /\ firstErr' = TRUE
    /\ UNCHANGED <<expired, lastError, parked, lastStatus, pending, told, jobs>>

\* Mutant of MarkPolledRow: no event if MarkPolled returned an error.
MarkPolledOrSkip(r) ==
    LET persist == MarkPolled(r, batch[r].ext, MarkedStatus(r)) IN
    /\ tickPc = "mark" /\ Current(r)
    /\ \/ /\ Succeeds(persist) /\ UNCHANGED firstErr
          /\ IF NoTransition(r)
             THEN NextRow(r)
             ELSE tickPc' = "publish" /\ UNCHANGED <<answer, batch>>
       \/ Fails(persist) /\ firstErr' = TRUE /\ NextRow(r)
    /\ UNCHANGED <<expired, lastError, parked, lastStatus, pending, told, jobs>>

\* An error of MarkPolled does not stop the event from being published.
MarkPolledRow(r) ==
    LET persist == MarkPolled(r, batch[r].ext, MarkedStatus(r)) IN
    /\ tickPc = "mark" /\ Current(r)
    /\ IF NoTransition(r)
       THEN NextRow(r)
       ELSE tickPc' = "publish" /\ UNCHANGED <<answer, batch>>
    /\ \/ Succeeds(persist) /\ UNCHANGED firstErr
       \/ Fails(persist) /\ firstErr' = TRUE
    /\ UNCHANGED <<expired, lastError, parked, lastStatus, pending, told, jobs>>

\* Publish uses the tick's context: once that is done the event is lost.
PublishTransition(r) ==
    /\ tickPc = "publish" /\ Current(r)
    /\ IF expired THEN Undisturbed /\ UNCHANGED told
                  ELSE Publish(r, EventFor(answer))
    /\ NextRow(r)
    /\ UNCHANGED <<expired, firstErr, lastError, parked, lastStatus,
                   storeVars, pending, jobs>>

\* The batch is exhausted, or the context is done
TickFinish ==
    /\ tickPc = "row"
    /\ expired \/ InBatch = {}
    /\ lastStatus' = [skipped |-> FALSE, error |-> firstErr]
    /\ tickPc' = "idle" /\ answer' = NoAnswer
    /\ batch' = [r \in Requests |-> NoRow]
    /\ expired' = FALSE /\ firstErr' = FALSE
    /\ UNCHANGED <<lastError, parked, storeVars, envVars>>

\* The Retry-After window has passed.
BackoffElapsed ==
    /\ parked
    /\ parked' = FALSE
    /\ UNCHANGED <<tickVars, lastError, lastStatus, storeVars, envVars>>

TickStep ==
    \/ TickBegin \/ TickFailsToList \/ TickParked \/ TickSkipped
    \/ TickTimeout \/ TickFinish \/ BackoffElapsed
    \/ \E r \in Requests :
          Poll(r) \/ RecordError(r) \/ MarkPolledRow(r) \/ PublishTransition(r)
=============================================================================
