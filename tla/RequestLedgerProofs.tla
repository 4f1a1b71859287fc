------------------------- MODULE RequestLedgerProofs -------------------------
(***************************************************************************)
(* RequestPipeline implements RequestLedger: a proof that every step of    *)
(* the pipeline is a step of the ledger or leaves the ledger unchanged.    *)
(***************************************************************************)
EXTENDS RequestPipelineProofs

\* The ledger's view of one row, and of all of them.
View(r)     == IF IsTerminal(r) THEN rows[r].status ELSE "open"
TrackedRows == {r \in Requests : Tracked(r)}

\* What the ledger's step must be shown to be.
LedgerStep == [Ledger!Next]_(Ledger!ledger)

LEMMA ViewIsStatus ==
    ASSUME NEW r \in Requests
    PROVE  LedgerStatus[r] = View(r) /\ LedgerStatus'[r] = View(r)'
  BY DEF LedgerStatus, View, IsTerminal

\* Rows that look the same leave the ledger's rows unchanged.
LEMMA SameRows ==
    ASSUME \A q \in Requests : View(q)' = View(q) /\ Tracked(q)' = Tracked(q)
    PROVE  LedgerStatus' = LedgerStatus /\ TrackedRows' = TrackedRows
  BY DEF LedgerStatus, View, TrackedRows, IsTerminal

LEMMA UnchangedRows ==
    ASSUME UNCHANGED rows
    PROVE  LedgerStatus' = LedgerStatus /\ TrackedRows' = TrackedRows
  BY DEF LedgerStatus, TrackedRows, IsTerminal, Tracked

\* One row that changes changes the ledger at that row.
LEMMA OneRow ==
    ASSUME NEW r \in Requests, \A q \in Requests \ {r} : rows'[q] = rows[q]
    PROVE  /\ LedgerStatus' = [LedgerStatus EXCEPT ![r] = View(r)']
           /\ Tracked(r)' => TrackedRows' = TrackedRows \cup {r}
           /\ Tracked(r)' = Tracked(r) => TrackedRows' = TrackedRows
<1>1. \A q \in Requests \ {r} : View(q)' = View(q) /\ Tracked(q)' = Tracked(q)
  BY DEF View, IsTerminal, Tracked
<1>2. LedgerStatus = [q \in Requests |-> View(q)]
      /\ LedgerStatus' = [q \in Requests |-> View(q)']
  BY DEF LedgerStatus, View, IsTerminal
<1> HIDE DEF View
<1>3. LedgerStatus' = [LedgerStatus EXCEPT ![r] = View(r)']
  BY <1>1, <1>2
<1>4. QED
  BY <1>1, <1>3 DEF TrackedRows

LEMMA Stutter ==
    ASSUME LedgerStatus' = LedgerStatus, TrackedRows' = TrackedRows, Owed' = Owed
    PROVE  LedgerStep
  BY DEF LedgerStep, Ledger!ledger, TrackedRows

-----------------------------------------------------------------------------
(* The statements. *)

\* An upsert with an open status changes no status; one without a job, or on a
\* row that has one, no tracking.
LEMMA UpsertView ==
    ASSUME StoreTypeOK, NEW r \in Requests, NEW ext \in MaybeJob,
           NEW status \in Statuses, NEW err \in ErrorTexts,
           \/ UpsertForwardedRequest(r, ext, status, err)
           \/ UpsertPolled(r, ext, status, err)
    PROVE  /\ View(r)' = IF View(r) # "open" THEN View(r)
                         ELSE IF status \in Terminal THEN status ELSE "open"
           /\ ext = NoJob \/ Tracked(r) => Tracked(r)' = Tracked(r)
           /\ ext # NoJob => Tracked(r)'
<1>1. /\ rows'[r].status = TerminalGuard(rows[r].status, status)
      /\ rows'[r].ext = Coalesce(ext, rows[r].ext, NoJob)
  BY UpsertFacts
<1>2. QED
  BY <1>1 DEF View, IsTerminal, Tracked, TerminalGuard, Coalesce, Terminal

\* Recording a failure rejects an open request, and is nothing for a decided one.
LEMMA FailedIsReject ==
    ASSUME StoreTypeOK, NEW r \in Requests, NEW err \in ErrorTexts,
           UpsertForwardedRequest(r, NoJob, "failed", err),
           r \in Owed, Owed' = Owed
    PROVE  LedgerStep
<1>1. NoJob \in MaybeJob /\ "failed" \in Statuses /\ "failed" \in Terminal
  BY DEF MaybeJob, Statuses, Terminal
<1>2. /\ View(r)' = IF View(r) # "open" THEN View(r) ELSE "failed"
      /\ Tracked(r)' = Tracked(r)
  BY <1>1, UpsertView
<1>3. \A q \in Requests \ {r} : rows'[q] = rows[q]
  BY <1>1, UpsertFacts
<1>4. TrackedRows' = TrackedRows
  BY <1>2, <1>3, OneRow
<1>5. LedgerStatus' = [LedgerStatus EXCEPT ![r] = View(r)']
  BY <1>3, OneRow
<1>6. CASE View(r) = "open"
  <2>1. Ledger!Reject(r)
    BY <1>2, <1>4, <1>5, <1>6, ViewIsStatus DEF Ledger!Reject, TrackedRows
  <2>2. QED
    BY <2>1 DEF LedgerStep, Ledger!Next
<1>7. CASE View(r) # "open"
  <2>1. LedgerStatus' = LedgerStatus
    BY <1>2, <1>5, <1>7, ViewIsStatus DEF LedgerStatus
  <2>2. QED
    BY <1>4, <2>1, Stutter
<1>8. QED
  BY <1>6, <1>7

\* Storing a job tracks the request, decided or not.
LEMMA AcknowledgedIsTrack ==
    ASSUME StoreTypeOK, NEW r \in Requests, NEW job \in JobIds,
           UpsertForwardedRequest(r, job, "acknowledged", NoError),
           r \in Owed, Owed' = Owed
    PROVE  LedgerStep
<1>1. /\ job \in MaybeJob /\ job # NoJob /\ NoError \in ErrorTexts
      /\ "acknowledged" \in Statuses /\ "acknowledged" \notin Terminal
  BY NoJobAssumption DEF MaybeJob, Statuses, LocalStatuses, Terminal, ErrorTexts
<1>2. View(r)' = View(r) /\ Tracked(r)'
  BY <1>1, UpsertView
<1>3. \A q \in Requests \ {r} : rows'[q] = rows[q]
  BY <1>1, UpsertFacts
<1>4. TrackedRows' = TrackedRows \cup {r}
  BY <1>2, <1>3, OneRow
<1>5. LedgerStatus' = LedgerStatus
  BY <1>2, <1>3, OneRow, ViewIsStatus DEF LedgerStatus
<1>6. Ledger!Track(r)
  BY <1>4, <1>5 DEF Ledger!Track, TrackedRows
<1>7. QED
  BY <1>6 DEF LedgerStep, Ledger!Next

-----------------------------------------------------------------------------
(* The tick lists open rows only, so a status of its snapshot decides none. *)

BatchIsOpen == \A r \in InBatch : batch[r].status \notin Terminal

LedgerInv == Recorded /\ BatchIsOpen

LEMMA BatchIsOpenNext ==
    ASSUME Base, BatchIsOpen, [Next]_vars
    PROVE  BatchIsOpen'
<1>1. ASSUME UNCHANGED batch PROVE BatchIsOpen'
  BY <1>1 DEF BatchIsOpen, InBatch
<1>2. ASSUME NEW r \in Requests, NextRow(r) \/ BreakLoop PROVE BatchIsOpen'
  <2>1. InBatch' \subseteq InBatch /\ \A q \in InBatch' : batch'[q] = batch[q]
    BY <1>2 DEF NextRow, BreakLoop, InBatch, NoRow, Base, TypeOK, ReconcilerTypeOK
  <2>2. QED
    BY <2>1 DEF BatchIsOpen
<1>3. ASSUME batch' = [r \in Requests |-> NoRow] PROVE BatchIsOpen'
  BY <1>3 DEF BatchIsOpen, InBatch, NoRow
<1>4. CASE TickBegin
  <2>1. ASSUME NEW r \in Requests, batch'[r].pos > 0
        PROVE  batch'[r].status \notin Terminal
    <3>1. batch'[r] = IF r \in ListNonTerminal /\ Tracked(r)
                      THEN [status |-> rows[r].status, ext |-> rows[r].ext,
                            pos |-> PollPosition(r)]
                      ELSE NoRow
      BY <1>4 DEF TickBegin
    <3>2. r \in ListNonTerminal /\ batch'[r].status = rows[r].status
      BY <2>1, <3>1 DEF NoRow
    <3>3. QED
      BY <3>2 DEF ListNonTerminal, NonTerminal, IsTerminal
  <2>2. QED
    BY <2>1 DEF BatchIsOpen, InBatch
<1>5. CASE \/ TickFailsToList \/ TickParked \/ TickSkipped
           \/ TickTimeout \/ TickFinish \/ BackoffElapsed
  BY <1>1, <1>3, <1>5 DEF TickFailsToList, TickParked, TickSkipped, TickTimeout,
                          TickFinish, BackoffElapsed, tickVars
<1>6. ASSUME NEW r \in Requests,
             Poll(r) \/ RecordError(r) \/ MarkPolledRow(r) \/ PublishTransition(r)
      PROVE  BatchIsOpen'
  <2>1. UNCHANGED batch \/ NextRow(r) \/ BreakLoop
    BY <1>6 DEF Poll, PollSucceeds, PollFails, PollRateLimited, RecordError,
                MarkPolledRow, PublishTransition
  <2>2. QED
    BY <1>1, <1>2, <2>1
<1>7. CASE UNCHANGED reconcilerVars \/ UNCHANGED vars
  BY <1>1, <1>7 DEF reconcilerVars, tickVars, vars
<1>8. CASE AdminStep
  BY <1>1, <1>8 DEF AdminStep, AdminRetry, AdminMarkFailed, reconcilerVars, tickVars
<1>9. CASE Crash
  BY <1>3, <1>9 DEF Crash
<1>10. QED
  BY <1>4, <1>5, <1>6, <1>7, <1>8, <1>9 DEF Next, TickStep

LEMMA LedgerInvInit == Init => LedgerInv
<1> SUFFICES ASSUME Init PROVE LedgerInv
  OBVIOUS
<1>1. BatchIsOpen
  BY DEF Init, ReconcilerInit, NoTick, NoRow, BatchIsOpen, InBatch
<1>2. QED
  BY <1>1, RecordedInit DEF LedgerInv

LEMMA LedgerInvNext ==
    ASSUME Reliable
    PROVE  LedgerInv /\ [Next]_vars => LedgerInv'
  BY RecordedNext, BatchIsOpenNext DEF LedgerInv, Recorded

-----------------------------------------------------------------------------
(* The initial states and the steps. *)

LEMMA LedgerInit == Init => Ledger!Init
<1> SUFFICES ASSUME Init PROVE Ledger!Init
  OBVIOUS
<1>1. rows = [r \in Requests |-> AbsentRow]
  BY DEF Init, StoreInit
<1>2. \A r \in Requests : ~IsTerminal(r) /\ ~Tracked(r)
  BY <1>1 DEF AbsentRow, IsTerminal, Tracked, Terminal
<1>3. Owed = Requests
  BY NoRequestAssumption DEF Init, EnvInit, ConsumerInit, Idle, Owed, InHand
<1>4. LedgerStatus = [r \in Requests |-> "open"]
  BY <1>2 DEF LedgerStatus
<1>5. QED
  BY <1>2, <1>3, <1>4 DEF Ledger!Init

LEMMA HandlerLedger ==
    ASSUME Reliable, LedgerInv, NEW h \in Handlers,
           HandlerStep(h) \/ \E r \in Requests : Receive(h, r)
    PROVE  LedgerStep
<1> USE DEF LedgerInv, Recorded
<1> DEFINE req == handler[h].req
<1>1. ~At(h, "idle") => req \in Requests /\ req \in Owed
  BY NoRequestAssumption
     DEF Base, BusyOK, At, TypeOK, ConsumerTypeOK, Handler, Owed, InHand
<1>2. StoreTypeOK
  BY DEF Base, TypeOK
<1>3. ASSUME NEW pc \in HandlerPcs, MoveTo(h, pc), UNCHANGED pending, ~At(h, "idle")
      PROVE  Owed' = Owed
  BY <1>1, <1>3, OwedFacts
<1>4. ASSUME Nack(h), ~At(h, "idle") PROVE Owed' = Owed
  BY <1>1, <1>4, OwedFacts
<1>5. CASE \E r \in Requests : Receive(h, r)
  <2>1. PICK r \in Requests : Receive(h, r)
    BY <1>5
  <2>2. Owed' = Owed
    BY <2>1, ReceiveOwed
  <2>3. CASE UNCHANGED storeVars
    BY <2>2, <2>3, UnchangedRows, Stutter DEF storeVars
  <2>4. CASE UpsertForwardedRequest(r, NoJob, "submitted", NoError)
    <3>1. /\ NoJob \in MaybeJob /\ NoError \in ErrorTexts
          /\ "submitted" \in Statuses \ Terminal
      BY DEF MaybeJob, Statuses, LocalStatuses, Terminal, ErrorTexts
    <3>2. View(r)' = View(r) /\ Tracked(r)' = Tracked(r)
      BY <1>2, <2>4, <3>1, UpsertView
    <3>3. \A q \in Requests \ {r} : View(q)' = View(q) /\ Tracked(q)' = Tracked(q)
      BY <1>2, <2>4, <3>1, UpsertFacts DEF View, IsTerminal, Tracked
    <3>4. QED
      BY <2>2, <3>2, <3>3, SameRows, Stutter
  <2>5. QED
    BY <2>1, <2>3, <2>4 DEF Receive
<1>6. CASE RejectMissingMetadata(h)
  <2>1. At(h, "reject") /\ MoveTo(h, "tellFailed") /\ UNCHANGED pending
    BY <1>6 DEF RejectMissingMetadata
  <2>2. req \in NoMetadata
    BY <2>1 DEF HandlersOK, At
  <2>3. UpsertForwardedRequest(req, NoJob, "failed", "no metadata")
    BY <1>6, <2>2 DEF RejectMissingMetadata, Disturb, Reliable
  <2>4. Owed' = Owed /\ req \in Requests /\ req \in Owed
    BY <1>1, <1>3, <2>1 DEF At, HandlerPcs
  <2>5. QED
    BY <1>2, <2>3, <2>4, FailedIsReject DEF ErrorTexts
<1>7. CASE AddMonitoring(h)
  <2>1. At(h, "add") /\ UNCHANGED <<pending, rows>>
    BY <1>7 DEF AddMonitoring, storeVars
  <2>2. Owed' = Owed
    <3>1. CASE \E j \in JobIds : handler' =
                [handler EXCEPT ![h].pc = "recordAck", ![h].job = j]
      <4>1. \A g \in Handlers : handler'[g].req = handler[g].req
        BY <3>1 DEF Base, TypeOK, ConsumerTypeOK, Handler
      <4>2. QED
        BY <2>1, <4>1 DEF Owed, InHand
    <3>2. CASE MoveTo(h, "recordAck") \/ MoveTo(h, "recordFailed")
      BY <1>3, <2>1, <3>2 DEF At, HandlerPcs
    <3>3. QED
      BY <1>7, <3>1, <3>2 DEF AddMonitoring
  <2>3. QED
    BY <2>1, <2>2, UnchangedRows, Stutter
<1>8. CASE RecordFailed(h)
  <2>1. At(h, "recordFailed")
    BY <1>8 DEF RecordFailed
  <2>2. Nack(h) \/ (MoveTo(h, "tellFailed") /\ UNCHANGED pending)
    BY <1>8 DEF RecordFailed
  <2>3. Owed' = Owed /\ req \in Requests /\ req \in Owed
    BY <1>1, <1>3, <1>4, <2>1, <2>2 DEF At, HandlerPcs
  <2>4. \/ UpsertForwardedRequest(req, NoJob, "failed", "not accepted")
        \/ UNCHANGED storeVars
    BY <1>8 DEF RecordFailed
  <2>5. CASE UNCHANGED storeVars
    BY <2>3, <2>5, UnchangedRows, Stutter DEF storeVars
  <2>6. QED
    BY <1>2, <2>3, <2>4, <2>5, FailedIsReject DEF ErrorTexts
<1>9. CASE RecordAck(h)
  <2>1. At(h, "recordAck")
    BY <1>9 DEF RecordAck
  <2>2. Nack(h) \/ (MoveTo(h, "tellAck") /\ UNCHANGED pending)
    BY <1>9 DEF RecordAck
  <2>3. Owed' = Owed /\ req \in Requests /\ req \in Owed
    BY <1>1, <1>3, <1>4, <2>1, <2>2 DEF At, HandlerPcs
  <2>4. CASE UNCHANGED storeVars
    BY <2>3, <2>4, UnchangedRows, Stutter DEF storeVars
  <2>5. CASE UpsertForwardedRequest(req, handler[h].job, "acknowledged", NoError)
    <3>1. handler[h].job \in MaybeJob /\ handler[h].job # NoJob
      BY <2>1 DEF At, HandlersOK, Base, TypeOK, ConsumerTypeOK, Handler
    <3>2. handler[h].job \in JobIds
      BY <3>1 DEF MaybeJob
    <3>3. QED
      BY <1>2, <2>3, <2>5, <3>2, AcknowledgedIsTrack
  <2>6. QED
    BY <1>9, <2>4, <2>5 DEF RecordAck
<1>10. CASE TellFailed(h) \/ TellAck(h)
  <2>1. Ack(h) /\ UNCHANGED rows /\ (At(h, "tellFailed") \/ At(h, "tellAck"))
    BY <1>10 DEF TellFailed, TellAck, storeVars
  <2>2. req \in Requests /\ Safe(req)
    BY <1>1, <2>1 DEF HandlersOK, At
  <2>3. Owed' = Owed \/ Owed' = Owed \ {req}
    BY <2>1, <2>2, OwedFacts
  <2>4. LedgerStatus' = LedgerStatus /\ TrackedRows' = TrackedRows
    BY <2>1, UnchangedRows
  <2>5. CASE Owed' = Owed \ {req}
    <3>1. req \in TrackedRows \/ LedgerStatus[req] # "open"
      BY <2>2, ViewIsStatus DEF Safe, View, IsTerminal, Terminal, TrackedRows
    <3>2. Ledger!Settle(req)
      BY <2>4, <2>5, <3>1 DEF Ledger!Settle, TrackedRows
    <3>3. QED
      BY <2>2, <3>2 DEF LedgerStep, Ledger!Next
  <2>6. QED
    BY <2>3, <2>4, <2>5, Stutter
<1>11. QED
  BY <1>5, <1>6, <1>7, <1>8, <1>9, <1>10 DEF HandlerStep

LEMMA TickLedger ==
    ASSUME LedgerInv, TickStep, UNCHANGED handler
    PROVE  LedgerStep
<1> USE DEF LedgerInv, Recorded
<1>1. UNCHANGED pending
  BY DEF TickStep, TickBegin, TickFailsToList, TickParked, TickSkipped, TickTimeout,
         TickFinish, BackoffElapsed, Poll, RecordError, MarkPolledRow,
         PublishTransition, envVars
<1>2. Owed' = Owed
  BY <1>1 DEF Owed, InHand
<1>3. StoreTypeOK
  BY DEF Base, TypeOK
<1>4. ASSUME NEW r \in Requests, Current(r)
      PROVE  /\ batch[r].status \in Statuses \ Terminal
             /\ batch[r].ext \in MaybeJob /\ Tracked(r)
  BY <1>4 DEF Current, BatchOK, BatchIsOpen, Base, TypeOK, ReconcilerTypeOK, BatchRow
<1>5. CASE UNCHANGED rows
  BY <1>2, <1>5, UnchangedRows, Stutter
<1>6. ASSUME NEW r \in Requests, RecordError(r), ~UNCHANGED rows
      PROVE  LedgerStep
  <2>1. Current(r) /\ answer \in ErrorTexts
    BY <1>6 DEF RecordError, Base, TypeOK, ReconcilerTypeOK, ErrorTexts
  <2>2. UpsertPolled(r, batch[r].ext, batch[r].status, answer)
    BY <1>6 DEF RecordError, Succeeds, Fails, storeVars
  <2>3. View(r)' = View(r) /\ Tracked(r)' = Tracked(r)
    BY <1>3, <1>4, <2>1, <2>2, UpsertView
  <2>4. \A q \in Requests \ {r} : View(q)' = View(q) /\ Tracked(q)' = Tracked(q)
    BY <1>3, <1>4, <2>1, <2>2, UpsertFacts DEF View, IsTerminal, Tracked
  <2>5. QED
    BY <1>2, <2>3, <2>4, SameRows, Stutter
<1>7. ASSUME NEW r \in Requests, MarkPolledRow(r), ~UNCHANGED rows
      PROVE  LedgerStep
  <2>1. Current(r)
    BY <1>7 DEF MarkPolledRow
  <2>2. MarkedStatus(r) \in Statuses
    BY <1>4, <1>7, <2>1, MarkPolledRowType DEF Base
  <2>3. MarkPolled(r, batch[r].ext, MarkedStatus(r)) /\ Exists(r)
    BY <1>7 DEF MarkPolledRow, Succeeds, Fails, storeVars, MarkPolled
  <2>4. /\ rows'[r].status = TerminalGuard(rows[r].status, MarkedStatus(r))
        /\ rows'[r].ext = Coalesce(batch[r].ext, rows[r].ext, NoJob)
    BY <1>3, <2>3 DEF MarkPolled, StoreTypeOK
  <2>5. \A q \in Requests \ {r} : rows'[q] = rows[q]
    BY <1>3, <1>4, <2>1, <2>2, <2>3, MarkPolledFacts
  <2>6. Tracked(r) /\ Tracked(r)'
    BY <1>4, <2>1, <2>4 DEF Tracked, Coalesce
  <2>7. View(r)' = IF View(r) # "open" THEN View(r)
                   ELSE IF MarkedStatus(r) \in Terminal THEN MarkedStatus(r) ELSE "open"
    BY <2>4 DEF View, IsTerminal, TerminalGuard, Terminal
  <2>8. /\ TrackedRows' = TrackedRows
        /\ LedgerStatus' = [LedgerStatus EXCEPT ![r] = View(r)']
    BY <2>5, <2>6, OneRow
  <2>9. CASE View(r) = "open" /\ MarkedStatus(r) \in Terminal
    <3>1. View(r)' \in {"imported", "failed"}
      BY <2>7, <2>9 DEF Terminal
    <3>2. r \in TrackedRows /\ LedgerStatus[r] = "open"
      BY <2>6, <2>9, ViewIsStatus DEF TrackedRows
    <3>3. Ledger!Decide(r)
      BY <1>2, <2>8, <3>1, <3>2 DEF Ledger!Decide, TrackedRows
    <3>4. QED
      BY <3>3 DEF LedgerStep, Ledger!Next
  <2>10. CASE ~(View(r) = "open" /\ MarkedStatus(r) \in Terminal)
    <3>1. View(r)' = View(r)
      BY <2>7, <2>10
    <3>2. LedgerStatus' = LedgerStatus
      BY <2>8, <3>1, ViewIsStatus DEF LedgerStatus
    <3>3. QED
      BY <1>2, <2>8, <3>2, Stutter
  <2>11. QED
    BY <2>9, <2>10
<1>8. CASE ~UNCHANGED rows
  <2>1. \E r \in Requests : RecordError(r) \/ MarkPolledRow(r)
    BY <1>8 DEF TickStep, TickBegin, TickFailsToList, TickParked, TickSkipped, TickTimeout,
                TickFinish, BackoffElapsed, Poll, PublishTransition, storeVars
  <2>2. QED
    BY <1>6, <1>7, <1>8, <2>1
<1>9. QED
  BY <1>5, <1>8

LEMMA OutsideLedger ==
    ASSUME LedgerInv,
           \/ (HostStep \/ UpstreamStep) /\ UNCHANGED <<handler, reconcilerVars>>
           \/ AdminStep \/ Crash
    PROVE  LedgerStep
<1> USE DEF LedgerInv, Recorded
<1>1. StoreTypeOK
  BY DEF Base, TypeOK
<1>2. ASSUME NEW r \in Requests, Redeliver(r), UNCHANGED handler
      PROVE  LedgerStep
  <2>1. UNCHANGED rows /\ Owed' = Owed \cup {r}
    BY <1>2 DEF Redeliver, Owed, InHand, storeVars
  <2>2. Ledger!Redeliver(r)
    BY <2>1, UnchangedRows DEF Ledger!Redeliver, TrackedRows
  <2>3. QED
    BY <2>2 DEF LedgerStep, Ledger!Next
<1>3. CASE UpstreamStep /\ UNCHANGED handler
  BY <1>3, UnchangedRows, Stutter
     DEF UpstreamStep, UpstreamProgress, storeVars, Owed, InHand
<1>4. ASSUME NEW r \in Requests, AdminRetry(r) PROVE LedgerStep
  <2>1. /\ rows'[r].status = "acknowledged" /\ rows'[r].ext = rows[r].ext /\ Tracked(r)
        /\ \A q \in Requests \ {r} : rows'[q] = rows[q]
    BY <1>1, <1>4, RetryFacts DEF AdminRetry, RetryRequest
  <2>2. Owed' = Owed
    BY <1>4 DEF AdminRetry, Owed, InHand
  <2>3. View(r)' = "open" /\ Tracked(r)' = Tracked(r) /\ r \in TrackedRows
    BY <2>1 DEF View, IsTerminal, Terminal, Tracked, TrackedRows
  <2>4. Ledger!OperatorRetry(r)
    BY <2>1, <2>2, <2>3, OneRow DEF Ledger!OperatorRetry, TrackedRows
  <2>5. QED
    BY <2>4 DEF LedgerStep, Ledger!Next
<1>5. ASSUME NEW r \in Requests, AdminMarkFailed(r) PROVE LedgerStep
  <2>1. /\ rows'[r].status = "failed" /\ rows'[r].ext = rows[r].ext
        /\ \A q \in Requests \ {r} : rows'[q] = rows[q]
    BY <1>1, <1>5, MarkFailedFacts DEF AdminMarkFailed
  <2>2. Owed' = Owed
    BY <1>5 DEF AdminMarkFailed, Owed, InHand
  <2>3. View(r)' = "failed" /\ Tracked(r)' = Tracked(r)
    BY <2>1 DEF View, IsTerminal, Terminal, Tracked
  <2>4. Ledger!OperatorFail(r)
    BY <2>1, <2>2, <2>3, OneRow DEF Ledger!OperatorFail, TrackedRows
  <2>5. QED
    BY <2>4 DEF LedgerStep, Ledger!Next
<1>6. CASE Crash
  <2>1. UNCHANGED rows /\ pending' = pending \cup InHand
        /\ handler' = [h \in Handlers |-> Idle]
    BY <1>6 DEF Crash, storeVars
  <2>2. InHand' = {}
    BY <2>1 DEF InHand, Idle
  <2>3. Owed' = Owed
    BY <2>1, <2>2 DEF Owed
  <2>4. QED
    BY <2>1, <2>3, UnchangedRows, Stutter
<1>7. QED
  BY <1>2, <1>3, <1>4, <1>5, <1>6 DEF HostStep, AdminStep

LEMMA LedgerNext ==
    ASSUME Reliable
    PROVE  LedgerInv /\ [Next]_vars => LedgerStep
<1> SUFFICES ASSUME LedgerInv, [Next]_vars PROVE LedgerStep
  OBVIOUS
<1>1. CASE UNCHANGED vars
  BY <1>1, UnchangedRows, Stutter DEF vars, storeVars, envVars, Owed, InHand
<1>2. CASE Next
  BY <1>2, HandlerLedger, TickLedger, OutsideLedger DEF Next, ConsumerStep
<1>3. QED
  BY <1>1, <1>2

\* The pipeline keeps the promise of the ledger, if the upstream names its jobs
\* and missing metadata can be recorded: whatever handlers, ticks, operators
\* and crashes do, a request is settled only once it is tracked or decided, only
\* tracked requests are decided by the tick, and only an operator undoes that
\* (consumer/handler.go:80-148, reconciler.go:205-267).
THEOREM PipelineImplementsLedger ==
    ASSUME Reliable
    PROVE  Spec => ImplementsLedger
<1>1. Spec => []LedgerInv
  BY LedgerInvInit, LedgerInvNext, PTL DEF Spec
<1>2. QED
  BY <1>1, LedgerInit, LedgerNext, PTL DEF Spec, ImplementsLedger, Ledger!Spec, LedgerStep
=============================================================================
