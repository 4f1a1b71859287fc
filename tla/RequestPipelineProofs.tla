------------------------ MODULE RequestPipelineProofs ------------------------
(***************************************************************************)
(* Theorems about RequestPipeline, for every set of requests, jobs and     *)
(* handlers, every batch limit and any number of disturbances.             *)
(*                                                                         *)
(* The statements of RequestStore come first: what each does to the type   *)
(* of the table and to the two facts everything rests on, that a row       *)
(* keeps holding a job and that a safe row stays safe.                     *)
(***************************************************************************)
EXTENDS RequestPipeline, TLAPS, FiniteSetTheorems

\* The reconciler will poll the row, or nothing is left to be done for it.
Safe(r) == Tracked(r) \/ IsTerminal(r)

\* A step of any kind keeps tracked rows tracked and safe rows safe.
RowsKept == \A r \in Requests :
                /\ Tracked(r) => rows'[r].ext # NoJob
                /\ Safe(r) => rows'[r].ext # NoJob \/ rows'[r].status \in Terminal

-----------------------------------------------------------------------------
LEMMA StampType ==
    ASSUME NEW order, order \subseteq Requests \X Requests, NEW r \in Requests
    PROVE  /\ Stamp(order, r) \subseteq Requests \X Requests
           /\ WithoutStamp(order, r) \subseteq Requests \X Requests
<1>1. WithoutStamp(order, r) \subseteq Requests \X Requests
  BY DEF WithoutStamp
<1>2. Stamped(order) \subseteq Requests
  BY DEF Stamped
<1>3. \A q \in Stamped(order) \cup {r} : <<q, r>> \in Requests \X Requests
  BY <1>2
<1>4. QED
  BY <1>1, <1>3, Zenon DEF Stamp

LEMMA PollPositionType ==
    ASSUME NEW r \in Requests
    PROVE  PollPosition(r) \in Nat
<1> DEFINE ahead == {q \in NonTerminal : Before(q, r)}
<1>1. IsFiniteSet(ahead)
  <2>1. ahead \subseteq Requests
    BY DEF NonTerminal
  <2>2. QED
    BY <2>1, RequestsAssumption, FS_Subset
<1>2. Cardinality(ahead) \in Nat
  BY <1>1, FS_CardinalityType
<1>3. QED
  BY <1>2 DEF PollPosition

LEMMA UpsertedRowFacts ==
    ASSUME StoreTypeOK, NEW r \in Requests, NEW ext \in MaybeJob,
           NEW status \in Statuses, NEW err \in ErrorTexts
    PROVE  LET row == UpsertedRow(r, ext, status, err) IN
           /\ row \in Row
           /\ row.status = TerminalGuard(rows[r].status, status)
           /\ row.ext = Coalesce(ext, rows[r].ext, NoJob)
           /\ Tracked(r) => row.ext # NoJob
           /\ IsTerminal(r) => row.status \in Terminal
  BY DEF StoreTypeOK, Row, UpsertedRow, TerminalGuard, Coalesce, MaybeJob, Tracked,
         IsTerminal, Statuses, Terminal

\* The upsert of the consumer and the one of the reconciler.
LEMMA UpsertFacts ==
    ASSUME StoreTypeOK, NEW r \in Requests, NEW ext \in MaybeJob,
           NEW status \in Statuses, NEW err \in ErrorTexts,
           \/ UpsertForwardedRequest(r, ext, status, err)
           \/ UpsertPolled(r, ext, status, err)
    PROVE  /\ StoreTypeOK' /\ RowsKept
           /\ rows'[r].status = TerminalGuard(rows[r].status, status)
           /\ rows'[r].ext = Coalesce(ext, rows[r].ext, NoJob)
           /\ \A q \in Requests \ {r} : rows'[q] = rows[q]
<1> DEFINE row == UpsertedRow(r, ext, status, err)
<1>1. rows' = [rows EXCEPT ![r] = row]
  BY DEF UpsertForwardedRequest, UpsertPolled
<1>2. pollOrder' \subseteq Requests \X Requests
  BY StampType DEF UpsertForwardedRequest, UpsertPolled, StoreTypeOK
<1>3. rows'[r] = row /\ \A q \in Requests \ {r} : rows'[q] = rows[q]
  BY <1>1 DEF StoreTypeOK
<1> HIDE DEF row
<1>4. /\ row \in Row
      /\ row.status = TerminalGuard(rows[r].status, status)
      /\ row.ext = Coalesce(ext, rows[r].ext, NoJob)
      /\ Tracked(r) => row.ext # NoJob
      /\ IsTerminal(r) => row.status \in Terminal
  BY UpsertedRowFacts DEF row
<1>5. StoreTypeOK'
  BY <1>1, <1>2, <1>4 DEF StoreTypeOK
<1>6. RowsKept
  BY <1>3, <1>4 DEF RowsKept, Safe, Tracked, IsTerminal
<1>7. QED
  BY <1>3, <1>4, <1>5, <1>6

LEMMA MarkPolledFacts ==
    ASSUME StoreTypeOK, NEW r \in Requests, NEW ext \in MaybeJob,
           NEW status \in Statuses, MarkPolled(r, ext, status)
    PROVE  /\ StoreTypeOK' /\ RowsKept
           /\ \A q \in Requests \ {r} : rows'[q] = rows[q]
           /\ IsTerminal(r) => rows'[r].status = rows[r].status
<1>1. CASE Exists(r)
  <2> DEFINE row == [status |-> TerminalGuard(rows[r].status, status),
                     ext    |-> Coalesce(ext, rows[r].ext, NoJob),
                     err    |-> NoError]
  <2>1. rows' = [rows EXCEPT ![r] = row] /\ pollOrder' = Stamp(pollOrder, r)
    BY <1>1 DEF MarkPolled
  <2>2. /\ row \in Row
        /\ Tracked(r) => row.ext # NoJob
        /\ IsTerminal(r) => row.status = rows[r].status /\ row.status \in Terminal
    BY DEF StoreTypeOK, Row, TerminalGuard, Coalesce, MaybeJob, Tracked, IsTerminal,
           Statuses, Terminal, ErrorTexts
  <2>3. rows'[r] = row /\ \A q \in Requests \ {r} : rows'[q] = rows[q]
    BY <2>1 DEF StoreTypeOK
  <2> HIDE DEF row
  <2>4. StoreTypeOK'
    BY <2>1, <2>2, StampType DEF StoreTypeOK
  <2>5. QED
    BY <2>2, <2>3, <2>4 DEF RowsKept, Safe, Tracked, IsTerminal
<1>2. CASE ~Exists(r)
  BY <1>2 DEF MarkPolled, storeVars, StoreTypeOK, RowsKept, Safe, Tracked, IsTerminal
<1>3. QED
  BY <1>1, <1>2

LEMMA RetryFacts ==
    ASSUME StoreTypeOK, NEW r \in Requests, RetryRequest(r)
    PROVE  /\ StoreTypeOK' /\ RowsKept
           /\ rows'[r].status = "acknowledged" /\ rows'[r].ext = rows[r].ext
           /\ \A q \in Requests \ {r} : rows'[q] = rows[q]
<1>1. /\ rows' = [rows EXCEPT ![r] =
                    [status |-> "acknowledged", ext |-> rows[r].ext, err |-> NoError]]
      /\ rows[r].ext # NoJob /\ pollOrder' = WithoutStamp(pollOrder, r)
  BY DEF RetryRequest, Tracked
<1>2. pollOrder' \subseteq Requests \X Requests
  BY <1>1, StampType DEF StoreTypeOK
<1>3. StoreTypeOK'
  BY <1>1, <1>2 DEF StoreTypeOK, Row, Statuses, LocalStatuses, ErrorTexts, MaybeJob
<1>4. QED
  BY <1>1, <1>3 DEF StoreTypeOK, RowsKept, Safe, Tracked, IsTerminal

LEMMA MarkFailedFacts ==
    ASSUME StoreTypeOK, NEW r \in Requests, MarkFailedManually(r)
    PROVE  /\ StoreTypeOK' /\ RowsKept
           /\ rows'[r].status = "failed" /\ rows'[r].ext = rows[r].ext
           /\ \A q \in Requests \ {r} : rows'[q] = rows[q]
<1>1. /\ rows' = [rows EXCEPT ![r] =
                    [status |-> "failed", ext |-> rows[r].ext, err |-> "by admin"]]
      /\ pollOrder' = pollOrder
  BY DEF MarkFailedManually
<1>2. StoreTypeOK'
  BY <1>1 DEF StoreTypeOK, Row, Statuses, Terminal, ErrorTexts
<1>3. QED
  BY <1>1, <1>2 DEF StoreTypeOK, RowsKept, Safe, Tracked, IsTerminal, Terminal

LEMMA StoreUnchanged ==
    ASSUME StoreTypeOK, UNCHANGED storeVars
    PROVE  /\ StoreTypeOK' /\ RowsKept
           /\ \A q \in Requests : rows'[q] = rows[q]
  BY DEF StoreTypeOK, storeVars, RowsKept, Safe, Tracked, IsTerminal

-----------------------------------------------------------------------------
(* What the small operators of the components do to their variables. *)

LEMMA MoveFacts ==
    ASSUME ConsumerTypeOK, NEW h \in Handlers, NEW pc \in HandlerPcs, MoveTo(h, pc)
    PROVE  /\ ConsumerTypeOK'
           /\ handler'[h].pc = pc
           /\ handler'[h].req = handler[h].req
           /\ handler'[h].job = handler[h].job
           /\ \A g \in Handlers \ {h} : handler'[g] = handler[g]
  BY DEF ConsumerTypeOK, MoveTo, Handler

LEMMA ReleaseFacts ==
    ASSUME ConsumerTypeOK, NEW h \in Handlers, Release(h)
    PROVE  /\ ConsumerTypeOK'
           /\ handler'[h] = Idle
           /\ \A g \in Handlers \ {h} : handler'[g] = handler[g]
  BY DEF ConsumerTypeOK, Release, Handler, Idle, HandlerPcs, MaybeJob

LEMMA StartJobType ==
    ASSUME EnvTypeOK, NEW r \in Requests, NEW j \in JobIds, StartJob(r, j)
    PROVE  jobs' \in [JobIds -> Job]
  BY DEF EnvTypeOK, StartJob, Job

LEMMA PublishType ==
    ASSUME EnvTypeOK, NEW r \in Requests, NEW event \in EventNames, Publish(r, event)
    PROVE  told' \in [Requests -> SUBSET EventNames] /\ disturbances' \in Nat
  BY DEF EnvTypeOK, Publish, Undisturbed, Disturb

-----------------------------------------------------------------------------
(* Type correctness, and RowsKept, action by action: the consumer. *)

LEMMA ReceiveType ==
    ASSUME TypeOK, NEW h \in Handlers, NEW r \in Requests, Receive(h, r)
    PROVE  StoreTypeOK' /\ EnvTypeOK' /\ ConsumerTypeOK' /\ RowsKept
<1>1. StoreTypeOK' /\ RowsKept
  BY UpsertFacts, StoreUnchanged
     DEF TypeOK, Receive, MaybeJob, Statuses, LocalStatuses, ErrorTexts
<1>2. EnvTypeOK'
  BY DEF TypeOK, EnvTypeOK, Receive, Undisturbed, Disturb
<1>3. ConsumerTypeOK'
  BY DEF TypeOK, ConsumerTypeOK, Receive, Handler, HandlerPcs, MaybeJob
<1>4. QED
  BY <1>1, <1>2, <1>3

LEMMA RejectMissingMetadataType ==
    ASSUME TypeOK, NEW h \in Handlers, handler[h].req \in Requests,
           RejectMissingMetadata(h)
    PROVE  StoreTypeOK' /\ EnvTypeOK' /\ ConsumerTypeOK' /\ RowsKept
<1>1. StoreTypeOK' /\ RowsKept
  BY UpsertFacts, StoreUnchanged
     DEF TypeOK, RejectMissingMetadata, MaybeJob, Statuses, Terminal, ErrorTexts
<1>2. EnvTypeOK'
  <2>0. Undisturbed \/ Disturb("db")
    BY DEF RejectMissingMetadata
  <2>1. disturbances' \in Nat
    BY <2>0 DEF TypeOK, EnvTypeOK, Undisturbed, Disturb
  <2>2. UNCHANGED <<pending, told, jobs>>
    BY DEF RejectMissingMetadata
  <2>3. QED
    BY <2>1, <2>2 DEF TypeOK, EnvTypeOK
<1>3. ConsumerTypeOK'
  BY MoveFacts DEF TypeOK, RejectMissingMetadata, HandlerPcs
<1>4. QED
  BY <1>1, <1>2, <1>3

LEMMA AddMonitoringType ==
    ASSUME TypeOK, NEW h \in Handlers, handler[h].req \in Requests, AddMonitoring(h)
    PROVE  StoreTypeOK' /\ EnvTypeOK' /\ ConsumerTypeOK' /\ RowsKept
<1>1. StoreTypeOK' /\ RowsKept
  <2>1. UNCHANGED storeVars
    BY DEF AddMonitoring, storeVars
  <2>2. QED
    BY <2>1, StoreUnchanged DEF TypeOK
<1>2. disturbances' \in Nat
  BY DEF TypeOK, EnvTypeOK, AddMonitoring, Undisturbed, Disturb
<1>3. jobs' \in [JobIds -> Job]
  <2>1. CASE UNCHANGED jobs
    BY <2>1 DEF TypeOK, EnvTypeOK
  <2>2. CASE \E j \in JobIds : StartJob(handler[h].req, j)
    BY <2>2, StartJobType DEF TypeOK
  <2>3. QED
    BY <2>1, <2>2 DEF AddMonitoring
<1>4. EnvTypeOK'
  BY <1>2, <1>3 DEF TypeOK, EnvTypeOK, AddMonitoring
<1>5. ConsumerTypeOK'
  <2>1. CASE MoveTo(h, "recordAck") \/ MoveTo(h, "recordFailed")
    BY <2>1, MoveFacts DEF TypeOK, HandlerPcs
  <2>2. CASE \E j \in JobIds : handler' =
              [handler EXCEPT ![h].pc = "recordAck", ![h].job = j]
    BY <2>2 DEF TypeOK, ConsumerTypeOK, Handler, HandlerPcs, MaybeJob
  <2>3. QED
    BY <2>1, <2>2 DEF AddMonitoring
<1>6. QED
  BY <1>1, <1>4, <1>5

LEMMA RecordFailedType ==
    ASSUME TypeOK, NEW h \in Handlers, handler[h].req \in Requests, RecordFailed(h)
    PROVE  StoreTypeOK' /\ EnvTypeOK' /\ ConsumerTypeOK' /\ RowsKept
<1>1. StoreTypeOK' /\ RowsKept
  BY UpsertFacts, StoreUnchanged
     DEF TypeOK, RecordFailed, MaybeJob, Statuses, Terminal, ErrorTexts
<1>2. EnvTypeOK'
  <2>0. Undisturbed \/ Disturb("db")
    BY DEF RecordFailed
  <2>1. disturbances' \in Nat
    BY <2>0 DEF TypeOK, EnvTypeOK, Undisturbed, Disturb
  <2>2. pending' \subseteq Requests /\ UNCHANGED <<told, jobs>>
    BY DEF TypeOK, EnvTypeOK, RecordFailed, Nack
  <2>3. QED
    BY <2>1, <2>2 DEF TypeOK, EnvTypeOK
<1>3. ConsumerTypeOK'
  BY MoveFacts, ReleaseFacts DEF TypeOK, RecordFailed, Nack, HandlerPcs
<1>4. QED
  BY <1>1, <1>2, <1>3

LEMMA RecordAckType ==
    ASSUME TypeOK, NEW h \in Handlers, handler[h].req \in Requests, RecordAck(h)
    PROVE  StoreTypeOK' /\ EnvTypeOK' /\ ConsumerTypeOK' /\ RowsKept
<1>0. handler[h].job \in MaybeJob
  BY DEF TypeOK, ConsumerTypeOK, Handler
<1>1. StoreTypeOK' /\ RowsKept
  BY <1>0, UpsertFacts, StoreUnchanged
     DEF TypeOK, RecordAck, Statuses, LocalStatuses, ErrorTexts
<1>2. EnvTypeOK'
  BY DEF TypeOK, EnvTypeOK, RecordAck, Nack, Undisturbed, Disturb
<1>3. ConsumerTypeOK'
  BY MoveFacts, ReleaseFacts DEF TypeOK, RecordAck, Nack, HandlerPcs
<1>4. QED
  BY <1>1, <1>2, <1>3

LEMMA TellType ==
    ASSUME TypeOK, NEW h \in Handlers, handler[h].req \in Requests,
           TellFailed(h) \/ TellAck(h)
    PROVE  StoreTypeOK' /\ EnvTypeOK' /\ ConsumerTypeOK' /\ RowsKept
<1>1. StoreTypeOK' /\ RowsKept
  <2>1. UNCHANGED storeVars
    BY DEF TellFailed, TellAck, storeVars
  <2>2. QED
    BY <2>1, StoreUnchanged DEF TypeOK
<1>2. told' \in [Requests -> SUBSET EventNames] /\ disturbances' \in Nat
  BY PublishType DEF TypeOK, TellFailed, TellAck, EventNames
<1>3. EnvTypeOK'
  BY <1>2 DEF TypeOK, EnvTypeOK, TellFailed, TellAck, Ack
<1>4. ConsumerTypeOK'
  BY ReleaseFacts DEF TypeOK, TellFailed, TellAck, Ack
<1>5. QED
  BY <1>1, <1>3, <1>4

-----------------------------------------------------------------------------
(* The same for the reconciler.  A row in the batch was listed with its job, *)
(* and its status was not terminal then.                                     *)

LEMMA NextRowType ==
    ASSUME batch \in [Requests -> BatchRow], NEW r \in Requests, NextRow(r) \/ BreakLoop
    PROVE  /\ batch' \in [Requests -> BatchRow]
           /\ tickPc' = "row" /\ answer' = NoAnswer
  BY DEF NextRow, BreakLoop, BatchRow, NoRow, MaybeJob

LEMMA TranslateStatusType ==
    ASSUME NEW s
    PROVE  TranslateStatus(s) \in Statuses \cup {NoAnswer}
  BY DEF TranslateStatus, Statuses, PolledStatuses, Terminal

LEMMA EventForType ==
    ASSUME NEW s
    PROVE  EventFor(s) \in EventNames
  BY DEF EventFor, EventNames

LEMMA TickBeginType ==
    ASSUME TypeOK, TickBegin
    PROVE  ReconcilerTypeOK'
<1>1. batch' \in [Requests -> BatchRow]
  <2>1. \A r \in Requests : rows[r].status \in Statuses \cup {"absent"}
                            /\ rows[r].ext \in MaybeJob /\ PollPosition(r) \in Nat
    BY PollPositionType DEF TypeOK, StoreTypeOK, Row
  <2>2. NoRow \in BatchRow
    BY DEF NoRow, BatchRow, MaybeJob
  <2>3. \A r \in Requests :
            [status |-> rows[r].status, ext |-> rows[r].ext,
             pos |-> PollPosition(r)] \in BatchRow
    BY <2>1 DEF BatchRow
  <2>4. QED
    BY <2>2, <2>3 DEF TickBegin
<1>2. QED
  BY <1>1 DEF TypeOK, ReconcilerTypeOK, TickBegin, TickPcs

LEMMA QuietTickType ==
    ASSUME TypeOK,
           \/ TickFailsToList \/ TickParked \/ TickSkipped
           \/ TickTimeout \/ TickFinish \/ BackoffElapsed
    PROVE  ReconcilerTypeOK'
<1>1. CASE TickFailsToList \/ TickParked \/ TickSkipped
  <2>1. UNCHANGED <<tickPc, batch, answer, expired, firstErr, lastError, parked>>
    BY <1>1 DEF TickFailsToList, TickParked, TickSkipped, tickVars
  <2>2. lastStatus' \in [skipped : BOOLEAN, error : BOOLEAN]
    <3>1. \E s, e \in BOOLEAN : lastStatus' = [skipped |-> s, error |-> e]
      BY <1>1, Zenon DEF TickFailsToList, TickParked, TickSkipped
    <3>2. QED
      BY <3>1
  <2>3. QED
    BY <2>1, <2>2 DEF TypeOK, ReconcilerTypeOK
<1>2. CASE TickTimeout
  BY <1>2 DEF TypeOK, ReconcilerTypeOK, TickTimeout
<1>3. CASE BackoffElapsed
  BY <1>3 DEF TypeOK, ReconcilerTypeOK, BackoffElapsed, tickVars
<1>4. CASE TickFinish
  BY <1>4 DEF TypeOK, ReconcilerTypeOK, TickFinish, TickPcs, BatchRow, NoRow, MaybeJob
<1>5. QED
  BY <1>1, <1>2, <1>3, <1>4

LEMMA PollType ==
    ASSUME TypeOK, NEW r \in Requests, Poll(r)
    PROVE  ReconcilerTypeOK'
<1> USE DEF TypeOK, ReconcilerTypeOK
<1>1. CASE PollSucceeds(r) /\ UNCHANGED lastStatus
  BY <1>1, TranslateStatusType DEF PollSucceeds, TickPcs
<1>2. ASSUME NEW text \in PollErrors, PollFails(r, text),
             expired' \in BOOLEAN, UNCHANGED lastStatus
      PROVE  ReconcilerTypeOK'
  <2>1. CASE NextRow(r)
    BY <1>2, <2>1, NextRowType DEF PollFails, TickPcs
  <2>2. CASE ~NextRow(r)
    BY <1>2, <2>2 DEF PollFails, TickPcs
  <2>3. QED
    BY <2>1, <2>2
<1>3. CASE PollRateLimited(r) /\ UNCHANGED lastStatus
  <2>0. "rate limited" \in PollErrors
    BY DEF PollErrors
  <2>1. CASE BreakLoop
    BY <1>3, <2>0, <2>1, NextRowType DEF PollRateLimited, TickPcs
  <2>2. CASE ~BreakLoop
    BY <1>3, <2>0, <2>2 DEF PollRateLimited, TickPcs
  <2>3. QED
    BY <2>1, <2>2
<1>4. UNCHANGED lastStatus
  BY DEF Poll
<1>5. \/ PollSucceeds(r) \/ PollRateLimited(r)
      \/ \E text \in PollErrors : PollFails(r, text) /\ expired' \in BOOLEAN
  BY DEF Poll, PollErrors
<1>6. QED
  BY <1>1, <1>2, <1>3, <1>4, <1>5

LEMMA RecordErrorType ==
    ASSUME TypeOK, NEW r \in Requests, RecordError(r)
    PROVE  ReconcilerTypeOK'
<1>1. firstErr' \in BOOLEAN /\ UNCHANGED <<expired, lastError, parked, lastStatus>>
  BY DEF RecordError, TypeOK, ReconcilerTypeOK
<1>2. NextRow(r) \/ BreakLoop
  BY DEF RecordError
<1>3. QED
  BY <1>1, <1>2, NextRowType DEF TypeOK, ReconcilerTypeOK, TickPcs

LEMMA MarkPolledRowType ==
    ASSUME TypeOK, NEW r \in Requests, batch[r].status \in Statuses, MarkPolledRow(r)
    PROVE  ReconcilerTypeOK' /\ MarkedStatus(r) \in Statuses
<1>1. firstErr' \in BOOLEAN /\ UNCHANGED <<expired, lastError, parked, lastStatus>>
  BY DEF MarkPolledRow, TypeOK, ReconcilerTypeOK
<1>2. answer \in Statuses \cup {NoAnswer}
  BY DEF MarkPolledRow, TypeOK, ReconcilerTypeOK
<1>3. CASE NextRow(r)
  BY <1>1, <1>2, <1>3, NextRowType
     DEF TypeOK, ReconcilerTypeOK, TickPcs, MarkedStatus, NoTransition
<1>4. CASE ~NoTransition(r) /\ tickPc' = "publish" /\ UNCHANGED <<answer, batch>>
  BY <1>1, <1>2, <1>4 DEF TypeOK, ReconcilerTypeOK, TickPcs, MarkedStatus, NoTransition
<1>5. QED
  BY <1>3, <1>4 DEF MarkPolledRow

LEMMA PublishTransitionType ==
    ASSUME TypeOK, NEW r \in Requests, PublishTransition(r)
    PROVE  ReconcilerTypeOK'
<1>1. NextRow(r) /\ UNCHANGED <<expired, firstErr, lastError, parked, lastStatus>>
  BY DEF PublishTransition
<1>2. QED
  BY <1>1, NextRowType DEF TypeOK, ReconcilerTypeOK, TickPcs

-----------------------------------------------------------------------------
(* TypeOK is not inductive by itself: a handler must be known to work on a *)
(* request, and a listed row to have had a status and a job.               *)

BusyOK == \A h \in Handlers : handler[h].pc = "idle" <=> handler[h].req = NoRequest

BatchOK == \A r \in InBatch :
              batch[r].status \in Statuses /\ batch[r].ext # NoJob /\ Tracked(r)

Base == TypeOK /\ BusyOK /\ BatchOK

LEMMA BatchKept ==
    ASSUME BatchOK, RowsKept, UNCHANGED batch
    PROVE  BatchOK'
  BY DEF BatchOK, RowsKept, InBatch, Tracked

LEMMA BatchShrinks ==
    ASSUME TypeOK, BatchOK, RowsKept, NEW r \in Requests, NextRow(r) \/ BreakLoop
    PROVE  BatchOK'
<1>1. InBatch' \subseteq InBatch /\ \A q \in InBatch' : batch'[q] = batch[q]
  BY DEF NextRow, BreakLoop, InBatch, NoRow, TypeOK, ReconcilerTypeOK
<1>2. QED
  BY <1>1 DEF BatchOK, RowsKept, InBatch, Tracked

LEMMA BaseInit == Init => Base
<1> SUFFICES ASSUME Init PROVE Base
  OBVIOUS
<1> USE DEF Init
<1>1. StoreTypeOK
  BY DEF StoreInit, StoreTypeOK, Row, AbsentRow, MaybeJob, ErrorTexts
<1>2. EnvTypeOK
  BY DEF EnvInit, EnvTypeOK, Job, RawStatuses
<1>3. ConsumerTypeOK /\ BusyOK
  BY DEF ConsumerInit, ConsumerTypeOK, BusyOK, Handler, HandlerPcs, Idle, MaybeJob
<1>4. ReconcilerTypeOK /\ BatchOK
  <2>1. batch \in [Requests -> BatchRow] /\ BatchOK
    BY DEF ReconcilerInit, NoTick, BatchRow, NoRow, MaybeJob, BatchOK, InBatch
  <2>2. lastStatus \in [skipped : BOOLEAN, error : BOOLEAN]
    BY DEF ReconcilerInit
  <2>3. QED
    BY <2>1, <2>2 DEF ReconcilerInit, NoTick, ReconcilerTypeOK, TickPcs
<1>5. QED
  BY <1>1, <1>2, <1>3, <1>4 DEF Base, TypeOK

\* A step of a handler.
LEMMA ConsumerBase ==
    ASSUME Base, ConsumerStep, UNCHANGED reconcilerVars
    PROVE  Base' /\ RowsKept
<1> USE DEF Base
<1>1. PICK h \in Handlers : HandlerStep(h) \/ \E r \in Requests : Receive(h, r)
  BY DEF ConsumerStep
<1>2. ~At(h, "idle") => handler[h].req \in Requests
  BY DEF BusyOK, At, TypeOK, ConsumerTypeOK, Handler
<1>3. ReconcilerTypeOK' /\ UNCHANGED batch
  BY DEF TypeOK, ReconcilerTypeOK, reconcilerVars, tickVars
<1>4. SUFFICES StoreTypeOK' /\ EnvTypeOK' /\ ConsumerTypeOK' /\ RowsKept /\ BusyOK'
  BY <1>3, BatchKept DEF TypeOK
<1>5. ASSUME NEW r \in Requests, Receive(h, r)
      PROVE  StoreTypeOK' /\ EnvTypeOK' /\ ConsumerTypeOK' /\ RowsKept /\ BusyOK'
  <2>1. BusyOK'
    <3>1. CASE UNCHANGED handler
      BY <3>1 DEF BusyOK
    <3>2. CASE ~UNCHANGED handler
      BY <1>5, <3>2, NoRequestAssumption DEF Receive, BusyOK, TypeOK, ConsumerTypeOK
    <3>3. QED
      BY <3>1, <3>2
  <2>2. QED
    BY <1>5, <2>1, ReceiveType
<1>6. ASSUME NEW pc \in HandlerPcs \ {"idle"}, MoveTo(h, pc), ~At(h, "idle")
      PROVE  BusyOK'
  BY <1>6, MoveFacts DEF BusyOK, At, TypeOK
<1>7. ASSUME Release(h)
      PROVE  BusyOK'
  BY <1>7, ReleaseFacts DEF BusyOK, Idle, TypeOK
<1>8. CASE RejectMissingMetadata(h)
  <2>1. At(h, "reject") /\ MoveTo(h, "tellFailed")
    BY <1>8 DEF RejectMissingMetadata
  <2>2. BusyOK'
    BY <1>6, <2>1 DEF At, HandlerPcs
  <2>3. QED
    BY <1>2, <1>8, <2>1, <2>2, RejectMissingMetadataType DEF At
<1>9. CASE AddMonitoring(h)
  <2>1. At(h, "add")
    BY <1>9 DEF AddMonitoring
  <2>2. CASE \E j \in JobIds : handler' =
              [handler EXCEPT ![h].pc = "recordAck", ![h].job = j]
    <3>1. /\ handler'[h].pc = "recordAck" /\ handler'[h].req = handler[h].req
          /\ \A g \in Handlers \ {h} : handler'[g] = handler[g]
      BY <2>2 DEF TypeOK, ConsumerTypeOK, Handler
    <3>2. BusyOK'
      BY <2>1, <3>1 DEF BusyOK, At
    <3>3. QED
      BY <1>2, <1>9, <2>1, <3>2, AddMonitoringType DEF At
  <2>3. CASE MoveTo(h, "recordAck") \/ MoveTo(h, "recordFailed")
    <3>1. BusyOK'
      BY <1>6, <2>1, <2>3 DEF At, HandlerPcs
    <3>2. QED
      BY <1>2, <1>9, <2>1, <3>1, AddMonitoringType DEF At
  <2>4. QED
    BY <1>9, <2>2, <2>3 DEF AddMonitoring
<1>10. CASE RecordFailed(h)
  <2>1. At(h, "recordFailed") /\ (MoveTo(h, "tellFailed") \/ Release(h))
    BY <1>10 DEF RecordFailed, Nack
  <2>2. BusyOK'
    BY <1>6, <1>7, <2>1 DEF At, HandlerPcs
  <2>3. QED
    BY <1>2, <1>10, <2>1, <2>2, RecordFailedType DEF At
<1>11. CASE RecordAck(h)
  <2>1. At(h, "recordAck") /\ (MoveTo(h, "tellAck") \/ Release(h))
    BY <1>11 DEF RecordAck, Nack
  <2>2. BusyOK'
    BY <1>6, <1>7, <2>1 DEF At, HandlerPcs
  <2>3. QED
    BY <1>2, <1>11, <2>1, <2>2, RecordAckType DEF At
<1>12. CASE TellFailed(h) \/ TellAck(h)
  <2>1. ~At(h, "idle") /\ Release(h)
    BY <1>12 DEF TellFailed, TellAck, Ack, At
  <2>2. QED
    BY <1>2, <1>7, <1>12, <2>1, TellType
<1>13. QED
  BY <1>1, <1>5, <1>8, <1>9, <1>10, <1>11, <1>12 DEF HandlerStep

\* A step of the tick.
LEMMA TickBase ==
    ASSUME Base, TickStep, UNCHANGED handler
    PROVE  Base' /\ RowsKept
<1> USE DEF Base
<1>1. ConsumerTypeOK' /\ BusyOK'
  BY DEF TypeOK, ConsumerTypeOK, BusyOK
<1>2. SUFFICES StoreTypeOK' /\ EnvTypeOK' /\ ReconcilerTypeOK' /\ RowsKept /\ BatchOK'
  BY <1>1 DEF TypeOK
<1>3. CASE TickBegin
  <2>1. UNCHANGED <<storeVars, envVars>>
    BY <1>3 DEF TickBegin
  <2>2. StoreTypeOK' /\ RowsKept /\ UNCHANGED rows
    BY <2>1, StoreUnchanged DEF TypeOK, storeVars
  <2>3. EnvTypeOK'
    BY <2>1 DEF TypeOK, EnvTypeOK, envVars
  <2>4. BatchOK'
    <3>1. SUFFICES ASSUME NEW r \in Requests, batch'[r].pos > 0
                   PROVE  /\ batch'[r].status \in Statuses
                          /\ batch'[r].ext # NoJob /\ Tracked(r)'
      BY DEF BatchOK, InBatch
    <3>2. batch'[r] = IF r \in ListNonTerminal /\ Tracked(r)
                      THEN [status |-> rows[r].status, ext |-> rows[r].ext,
                            pos |-> PollPosition(r)]
                      ELSE NoRow
      BY <1>3 DEF TickBegin
    <3>3. r \in ListNonTerminal /\ Tracked(r)
      BY <3>1, <3>2 DEF NoRow
    <3>4. rows[r].status # "absent" /\ rows[r].ext # NoJob
      BY <3>3 DEF ListNonTerminal, NonTerminal, Exists, Tracked
    <3>5. QED
      BY <2>2, <3>2, <3>3, <3>4 DEF TypeOK, StoreTypeOK, Row, Tracked
  <2>5. QED
    BY <1>3, <2>2, <2>3, <2>4, TickBeginType
<1>4. CASE \/ TickFailsToList \/ TickParked \/ TickSkipped
           \/ TickTimeout \/ TickFinish \/ BackoffElapsed
  <2>1. UNCHANGED <<storeVars, pending, told, jobs>> /\ disturbances' \in Nat
    <3>1. UNCHANGED <<storeVars, pending, told, jobs>>
      BY <1>4 DEF TickFailsToList, TickParked, TickSkipped, TickTimeout, TickFinish,
                  BackoffElapsed, envVars
    <3>2. Undisturbed \/ Disturb("db") \/ Disturb("timeout")
      BY <1>4 DEF TickFailsToList, TickParked, TickSkipped, TickTimeout, TickFinish,
                  BackoffElapsed, envVars, Undisturbed
    <3>3. QED
      BY <3>1, <3>2 DEF TypeOK, EnvTypeOK, Undisturbed, Disturb
  <2>2. StoreTypeOK' /\ RowsKept
    BY <2>1, StoreUnchanged DEF TypeOK
  <2>3. EnvTypeOK'
    BY <2>1 DEF TypeOK, EnvTypeOK
  <2>4. BatchOK'
    <3>1. UNCHANGED batch \/ batch' = [r \in Requests |-> NoRow]
      BY <1>4 DEF TickFailsToList, TickParked, TickSkipped, TickTimeout, TickFinish,
                  BackoffElapsed, tickVars
    <3>2. CASE batch' = [r \in Requests |-> NoRow]
      BY <3>2 DEF BatchOK, InBatch, NoRow
    <3>3. QED
      BY <2>2, <3>1, <3>2, BatchKept
  <2>5. QED
    BY <1>4, <2>2, <2>3, <2>4, QuietTickType
<1>5. ASSUME NEW r \in Requests, Poll(r)
      PROVE  StoreTypeOK' /\ EnvTypeOK' /\ ReconcilerTypeOK' /\ RowsKept /\ BatchOK'
  <2>1. UNCHANGED <<storeVars, pending, told, jobs>>
    BY <1>5 DEF Poll
  <2>2. \/ Undisturbed \/ Disturb("upstream") \/ Disturb("timeout")
        \/ Disturb("ratelimit")
    BY <1>5 DEF Poll, PollSucceeds, PollRateLimited
  <2>3. EnvTypeOK'
    BY <2>1, <2>2 DEF TypeOK, EnvTypeOK, Undisturbed, Disturb
  <2>4. StoreTypeOK' /\ RowsKept
    BY <2>1, StoreUnchanged DEF TypeOK
  <2>5. UNCHANGED batch \/ NextRow(r) \/ BreakLoop
    BY <1>5 DEF Poll, PollSucceeds, PollFails, PollRateLimited
  <2>6. QED
    BY <1>5, <2>3, <2>4, <2>5, PollType, BatchKept, BatchShrinks
<1>6. ASSUME NEW r \in Requests, Current(r)
      PROVE  batch[r].status \in Statuses /\ batch[r].ext \in MaybeJob
  BY <1>6 DEF Current, BatchOK, TypeOK, ReconcilerTypeOK, BatchRow
<1>7. ASSUME NEW r \in Requests, RecordError(r)
      PROVE  StoreTypeOK' /\ EnvTypeOK' /\ ReconcilerTypeOK' /\ RowsKept /\ BatchOK'
  <2>1. answer \in ErrorTexts
    BY <1>7 DEF RecordError, TypeOK, ReconcilerTypeOK, ErrorTexts
  <2>2. \/ UpsertPolled(r, batch[r].ext, batch[r].status, answer)
        \/ UNCHANGED storeVars
    BY <1>7 DEF RecordError, Succeeds, Fails
  <2>3. Current(r) /\ UNCHANGED <<pending, told, jobs>>
    BY <1>7 DEF RecordError
  <2>4. StoreTypeOK' /\ RowsKept
    BY <1>6, <2>1, <2>2, <2>3, UpsertFacts, StoreUnchanged DEF TypeOK
  <2>5. Undisturbed \/ Disturb("db")
    BY <1>7 DEF RecordError, Succeeds, Fails
  <2>6. EnvTypeOK'
    BY <2>3, <2>5 DEF TypeOK, EnvTypeOK, Undisturbed, Disturb
  <2>7. NextRow(r) \/ BreakLoop
    BY <1>7 DEF RecordError
  <2>8. QED
    BY <1>7, <2>4, <2>6, <2>7, RecordErrorType, BatchShrinks
<1>8. ASSUME NEW r \in Requests, MarkPolledRow(r)
      PROVE  StoreTypeOK' /\ EnvTypeOK' /\ ReconcilerTypeOK' /\ RowsKept /\ BatchOK'
  <2>1. Current(r) /\ UNCHANGED <<pending, told, jobs>>
    BY <1>8 DEF MarkPolledRow
  <2>2. ReconcilerTypeOK' /\ MarkedStatus(r) \in Statuses
    BY <1>6, <1>8, <2>1, MarkPolledRowType
  <2>3. MarkPolled(r, batch[r].ext, MarkedStatus(r)) \/ UNCHANGED storeVars
    BY <1>8 DEF MarkPolledRow, Succeeds, Fails
  <2>4. StoreTypeOK' /\ RowsKept
    BY <1>6, <2>1, <2>2, <2>3, MarkPolledFacts, StoreUnchanged DEF TypeOK
  <2>5. Undisturbed \/ Disturb("db")
    BY <1>8 DEF MarkPolledRow, Succeeds, Fails
  <2>6. EnvTypeOK'
    BY <2>1, <2>5 DEF TypeOK, EnvTypeOK, Undisturbed, Disturb
  <2>7. NextRow(r) \/ UNCHANGED batch
    BY <1>8 DEF MarkPolledRow
  <2>8. QED
    BY <2>2, <2>4, <2>6, <2>7, BatchKept, BatchShrinks
<1>9. ASSUME NEW r \in Requests, PublishTransition(r)
      PROVE  StoreTypeOK' /\ EnvTypeOK' /\ ReconcilerTypeOK' /\ RowsKept /\ BatchOK'
  <2>1. UNCHANGED <<storeVars, pending, jobs>> /\ NextRow(r)
    BY <1>9 DEF PublishTransition
  <2>2. \/ Undisturbed /\ UNCHANGED told
        \/ Publish(r, EventFor(answer))
    BY <1>9 DEF PublishTransition
  <2>3. told' \in [Requests -> SUBSET EventNames] /\ disturbances' \in Nat
    BY <2>2, PublishType, EventForType DEF TypeOK, EnvTypeOK, Undisturbed
  <2>4. EnvTypeOK'
    BY <2>1, <2>3 DEF TypeOK, EnvTypeOK
  <2>5. StoreTypeOK' /\ RowsKept
    BY <2>1, StoreUnchanged DEF TypeOK
  <2>6. QED
    BY <1>9, <2>1, <2>4, <2>5, PublishTransitionType, BatchShrinks
<1>10. QED
  BY <1>3, <1>4, <1>5, <1>7, <1>8, <1>9 DEF TickStep

\* A step of the host, the upstream or an operator, and a crash.
LEMMA OutsideBase ==
    ASSUME Base,
           \/ (HostStep \/ UpstreamStep) /\ UNCHANGED <<handler, reconcilerVars>>
           \/ AdminStep \/ Crash
    PROVE  Base' /\ RowsKept
<1> USE DEF Base
<1>1. ASSUME UNCHANGED <<handler, reconcilerVars>>, RowsKept, StoreTypeOK', EnvTypeOK'
      PROVE  Base'
  <2>1. ConsumerTypeOK' /\ BusyOK'
    BY <1>1 DEF TypeOK, ConsumerTypeOK, BusyOK
  <2>2. ReconcilerTypeOK' /\ BatchOK'
    BY <1>1, BatchKept DEF TypeOK, ReconcilerTypeOK, reconcilerVars, tickVars
  <2>3. QED
    BY <1>1, <2>1, <2>2 DEF TypeOK
<1>2. ASSUME NEW r \in Requests, Redeliver(r), UNCHANGED <<handler, reconcilerVars>>
      PROVE  Base' /\ RowsKept
  <2>1. UNCHANGED storeVars /\ EnvTypeOK'
    BY <1>2 DEF Redeliver, Disturb, TypeOK, EnvTypeOK
  <2>2. QED
    BY <1>1, <1>2, <2>1, StoreUnchanged DEF TypeOK
<1>3. ASSUME NEW j \in JobIds, UpstreamProgress(j), UNCHANGED <<handler, reconcilerVars>>
      PROVE  Base' /\ RowsKept
  <2>1. UNCHANGED storeVars /\ UNCHANGED <<pending, told, disturbances>>
    BY <1>3 DEF UpstreamProgress
  <2>2. jobs' \in [JobIds -> Job]
    BY <1>3, UpstreamAssumption DEF UpstreamProgress, TypeOK, EnvTypeOK, Job
  <2>3. EnvTypeOK'
    BY <2>1, <2>2 DEF TypeOK, EnvTypeOK
  <2>4. QED
    BY <1>1, <1>3, <2>1, <2>3, StoreUnchanged DEF TypeOK
<1>4. ASSUME NEW r \in Requests, AdminRetry(r) \/ AdminMarkFailed(r)
      PROVE  Base' /\ RowsKept
  <2>1. StoreTypeOK' /\ RowsKept
    BY <1>4, RetryFacts, MarkFailedFacts DEF AdminRetry, AdminMarkFailed, TypeOK
  <2>2. /\ UNCHANGED <<pending, told, jobs>> /\ UNCHANGED <<handler, reconcilerVars>>
        /\ disturbances' = disturbances + 1
    BY <1>4 DEF AdminRetry, AdminMarkFailed, Disturb
  <2>3. EnvTypeOK'
    BY <2>2 DEF TypeOK, EnvTypeOK
  <2>4. QED
    BY <1>1, <2>1, <2>2, <2>3
<1>5. CASE Crash
  <2>1. UNCHANGED storeVars /\ UNCHANGED <<told, jobs>> /\ disturbances' = disturbances + 1
    BY <1>5 DEF Crash, Disturb
  <2>2. InHand \subseteq Requests
    BY DEF InHand, TypeOK, ConsumerTypeOK, Handler
  <2>3. EnvTypeOK'
    BY <1>5, <2>1, <2>2 DEF Crash, TypeOK, EnvTypeOK
  <2>4. ConsumerTypeOK' /\ BusyOK'
    BY <1>5 DEF Crash, TypeOK, ConsumerTypeOK, BusyOK, Handler, HandlerPcs, Idle, MaybeJob
  <2>5. batch' \in [Requests -> BatchRow] /\ BatchOK'
    BY <1>5 DEF Crash, BatchOK, InBatch, BatchRow, NoRow, MaybeJob
  <2>6. lastStatus' \in [skipped : BOOLEAN, error : BOOLEAN]
    BY <1>5 DEF Crash
  <2>7. ReconcilerTypeOK'
    BY <1>5, <2>5, <2>6 DEF Crash, ReconcilerTypeOK, TickPcs
  <2>8. QED
    BY <2>1, <2>3, <2>4, <2>5, <2>7, StoreUnchanged DEF TypeOK
<1>6. QED
  BY <1>2, <1>3, <1>4, <1>5 DEF HostStep, UpstreamStep, AdminStep

LEMMA BaseNext == Base /\ [Next]_vars => Base' /\ RowsKept
<1> SUFFICES ASSUME Base, [Next]_vars PROVE Base' /\ RowsKept
  OBVIOUS
<1>1. CASE UNCHANGED vars
  BY <1>1 DEF vars, Base, TypeOK, StoreTypeOK, EnvTypeOK, ConsumerTypeOK, ReconcilerTypeOK,
              BusyOK, BatchOK, InBatch, Tracked, storeVars, envVars, reconcilerVars,
              tickVars, RowsKept, Safe, IsTerminal
<1>2. CASE Next
  BY <1>2, ConsumerBase, TickBase, OutsideBase DEF Next
<1>3. QED
  BY <1>1, <1>2

\* Type correctness of the whole pipeline.
THEOREM TypeCorrect == Spec => []TypeOK
<1>1. Init => Base
  BY BaseInit
<1>2. Base /\ [Next]_vars => Base'
  BY BaseNext
<1>3. Base => TypeOK
  BY DEF Base
<1>4. QED
  BY <1>1, <1>2, <1>3, PTL DEF Spec

-----------------------------------------------------------------------------
(* No request is lost.  The inductive invariant follows a handler through   *)
(* its program: when it is about to publish, and so to acknowledge the      *)
(* event, its row is already safe; that it holds a job to record makes the  *)
(* next statement store one.  A row that is safe stays safe whatever the    *)
(* tick, the operator or another handler does to it (RowsKept).             *)

HandlersOK ==
    \A h \in Handlers :
        /\ handler[h].pc = "reject" => handler[h].req \in NoMetadata
        /\ handler[h].pc = "recordAck" => handler[h].job # NoJob
        /\ handler[h].pc \in {"tellFailed", "tellAck"} => Safe(handler[h].req)

Recorded == Base /\ HandlersOK /\ NoLostRequest

\* The upstream names the jobs it starts; and either every payload has
\* metadata or no statement fails, because the handler acknowledges an event
\* without metadata even when it could not record the failure.
Reliable == "noid" \notin Disturbances /\ (NoMetadata = {} \/ "db" \notin Disturbances)

LEMMA RecordedInit == Init => Recorded
<1> SUFFICES ASSUME Init PROVE HandlersOK /\ NoLostRequest
  BY BaseInit DEF Recorded
<1>1. HandlersOK
  BY DEF Init, ConsumerInit, HandlersOK, Idle
<1>2. NoLostRequest
  BY DEF Init, EnvInit, NoLostRequest, Owed
<1>3. QED
  BY <1>1, <1>2

\* Owed shrinks only by a request that is safe.
LEMMA OwedKept ==
    ASSUME RowsKept, NoLostRequest, Owed \ Owed' \subseteq {r \in Requests : Safe(r)}
    PROVE  NoLostRequest'
  BY DEF RowsKept, NoLostRequest, Safe, Tracked, IsTerminal

\* The handlers that did not move are as safe as they were.
LEMMA OthersOK ==
    ASSUME Base, HandlersOK, RowsKept, NEW h \in Handlers,
           \A g \in Handlers \ {h} : handler'[g] = handler[g],
           /\ handler'[h].pc = "reject" => handler'[h].req \in NoMetadata
           /\ handler'[h].pc = "recordAck" => handler'[h].job # NoJob
           /\ handler'[h].pc \in {"tellFailed", "tellAck"} => Safe(handler[h].req)'
    PROVE  HandlersOK'
<1> DEFINE OK(g) ==
              /\ handler[g].pc = "reject" => handler[g].req \in NoMetadata
              /\ handler[g].pc = "recordAck" => handler[g].job # NoJob
              /\ handler[g].pc \in {"tellFailed", "tellAck"} => Safe(handler[g].req)
<1>1. ASSUME NEW g \in Handlers, g # h
      PROVE  OK(g)'
  <2>1. handler'[g] = handler[g]
    BY <1>1
  <2>2. OK(g)
    BY DEF HandlersOK
  <2>3. handler[g].pc # "idle" => handler[g].req \in Requests
    BY DEF Base, BusyOK, TypeOK, ConsumerTypeOK, Handler
  <2>5. handler[g].req \in Requests /\ Safe(handler[g].req) => Safe(handler[g].req)'
    BY <2>1 DEF RowsKept, Safe, Tracked, IsTerminal
  <2>6. QED
    BY <2>1, <2>2, <2>3, <2>5
<1>2. OK(h)'
  OBVIOUS
<1>3. \A g \in Handlers : OK(g)'
  BY <1>1, <1>2
<1>4. QED
  BY <1>3 DEF HandlersOK

\* A handler that moves on or finishes: what becomes of the owed requests.
LEMMA OwedFacts ==
    ASSUME Base, NEW h \in Handlers, handler[h].req \in Requests
    PROVE  /\ \A pc \in HandlerPcs :
                MoveTo(h, pc) /\ UNCHANGED pending => Owed' = Owed
           /\ Nack(h) => Owed' = Owed
           /\ Ack(h) => Owed' \subseteq Owed /\ Owed \ Owed' \subseteq {handler[h].req}
<1>1. ASSUME NEW pc \in HandlerPcs, MoveTo(h, pc), UNCHANGED pending
      PROVE  Owed' = Owed
  <2>1. \A g \in Handlers : handler'[g].req = handler[g].req
    BY <1>1, MoveFacts DEF Base, TypeOK
  <2>2. QED
    BY <1>1, <2>1 DEF Owed, InHand
<1>2. ASSUME Release(h)
      PROVE  /\ InHand' \subseteq InHand
             /\ InHand \ InHand' \subseteq {handler[h].req}
  <2>1. /\ handler'[h].req = NoRequest
        /\ \A g \in Handlers \ {h} : handler'[g] = handler[g]
    BY <1>2, ReleaseFacts DEF Base, TypeOK, Idle
  <2>2. QED
    BY <2>1 DEF InHand
<1>3. handler[h].req \in InHand
  BY NoRequestAssumption DEF InHand
<1>4. Nack(h) => Owed' = Owed
  BY <1>2, <1>3 DEF Nack, Owed
<1>5. Ack(h) => Owed' \subseteq Owed /\ Owed \ Owed' \subseteq {handler[h].req}
  BY <1>2 DEF Ack, Owed
<1>6. QED
  BY <1>1, <1>4, <1>5

\* Receiving moves the request from pending to the handler.
LEMMA ReceiveOwed ==
    ASSUME Base, NEW h \in Handlers, NEW r \in Requests, Receive(h, r)
    PROVE  Owed' = Owed
<1>1. CASE UNCHANGED <<pending, handler>>
  BY <1>1 DEF Owed, InHand
<1>2. CASE ~UNCHANGED <<pending, handler>>
  <2>1. /\ pending' = pending \ {r} /\ r \in pending
        /\ handler' = [handler EXCEPT ![h] =
              [pc |-> IF r \in NoMetadata THEN "reject" ELSE "add",
               req |-> r, job |-> NoJob]]
    BY <1>2, Zenon DEF Receive
  <2>2. handler'[h].req = r /\ \A g \in Handlers \ {h} : handler'[g] = handler[g]
    BY <2>1 DEF Base, TypeOK, ConsumerTypeOK
  <2>3. handler[h].req = NoRequest
    BY DEF Receive, At, Base, BusyOK
  <2>4. InHand' = InHand \cup {r}
    BY <2>2, <2>3, NoRequestAssumption DEF InHand
  <2>5. QED
    BY <2>1, <2>4 DEF Owed
<1>3. QED
  BY <1>1, <1>2

\* Writing "failed" leaves a terminal row, imported if it was.
LEMMA FailedUpsert ==
    ASSUME StoreTypeOK, NEW r \in Requests, NEW err \in ErrorTexts,
           UpsertForwardedRequest(r, NoJob, "failed", err)
    PROVE  rows'[r].status \in Terminal
<1>1. NoJob \in MaybeJob /\ "failed" \in Statuses
  BY DEF MaybeJob, Statuses, Terminal
<1>2. rows'[r].status = TerminalGuard(rows[r].status, "failed")
  BY <1>1, UpsertFacts
<1>3. QED
  BY <1>2 DEF TerminalGuard, Terminal

LEMMA ConsumerRecorded ==
    ASSUME Reliable, Recorded, ConsumerStep, UNCHANGED reconcilerVars
    PROVE  Recorded'
<1> USE DEF Recorded
<1>1. Base' /\ RowsKept
  BY ConsumerBase
<1>2. PICK h \in Handlers : HandlerStep(h) \/ \E r \in Requests : Receive(h, r)
  BY DEF ConsumerStep
<1>3. ~At(h, "idle") => handler[h].req \in Requests
  BY DEF Base, BusyOK, At, TypeOK, ConsumerTypeOK, Handler
<1>4. SUFFICES HandlersOK' /\ NoLostRequest'
  BY <1>1
<1>5. Owed' = Owed => NoLostRequest'
  BY <1>1, OwedKept
<1>6. ASSUME Release(h) PROVE HandlersOK'
  BY <1>1, <1>6, ReleaseFacts, OthersOK DEF Base, TypeOK, Idle
<1>7. ASSUME NEW r \in Requests, Receive(h, r)
      PROVE  HandlersOK' /\ NoLostRequest'
  <2>1. CASE UNCHANGED handler
    <3>1. HandlersOK'
      BY <1>1, <2>1, OthersOK, <1>7 DEF HandlersOK, Receive, At
    <3>2. QED
      BY <1>5, <1>7, <3>1, ReceiveOwed
  <2>2. CASE ~UNCHANGED handler
    <3>1. handler' = [handler EXCEPT ![h] =
              [pc |-> IF r \in NoMetadata THEN "reject" ELSE "add",
               req |-> r, job |-> NoJob]]
      BY <1>7, <2>2, Zenon DEF Receive
    <3>2. /\ handler'[h].pc = IF r \in NoMetadata THEN "reject" ELSE "add"
          /\ handler'[h].req = r
          /\ \A g \in Handlers \ {h} : handler'[g] = handler[g]
      BY <3>1 DEF Base, TypeOK, ConsumerTypeOK
    <3>3. HandlersOK'
      BY <1>1, <3>2, OthersOK
    <3>4. QED
      BY <1>5, <1>7, <3>3, ReceiveOwed
  <2>3. QED
    BY <2>1, <2>2
<1>8. CASE RejectMissingMetadata(h)
  <2>1. At(h, "reject") /\ MoveTo(h, "tellFailed") /\ UNCHANGED pending
    BY <1>8 DEF RejectMissingMetadata
  <2>2. UpsertForwardedRequest(handler[h].req, NoJob, "failed", "no metadata")
    <3>1. handler[h].req \in NoMetadata
      BY <2>1 DEF HandlersOK, At
    <3>2. "db" \notin Disturbances
      BY <3>1 DEF Reliable
    <3>3. QED
      BY <1>8, <3>2 DEF RejectMissingMetadata, Disturb
  <2>3. handler[h].req \in Requests
    BY <1>3, <2>1 DEF At
  <2>4. rows'[handler[h].req].status \in Terminal
    BY <2>2, <2>3, FailedUpsert DEF Base, TypeOK, ErrorTexts
  <2>5. Safe(handler[h].req)' /\ HandlersOK'
    BY <1>1, <2>1, <2>4, MoveFacts, OthersOK
       DEF Base, TypeOK, HandlerPcs, Safe, IsTerminal
  <2>6. QED
    BY <1>5, <2>1, <2>3, <2>5, OwedFacts DEF HandlerPcs
<1>9. CASE AddMonitoring(h)
  <2>1. At(h, "add") /\ UNCHANGED pending
    BY <1>9 DEF AddMonitoring
  <2>2. CASE \E j \in JobIds : handler' =
              [handler EXCEPT ![h].pc = "recordAck", ![h].job = j]
    <3>1. PICK j \in JobIds : handler' =
              [handler EXCEPT ![h].pc = "recordAck", ![h].job = j]
      BY <2>2
    <3>2. /\ handler'[h].pc = "recordAck" /\ handler'[h].job = j
          /\ handler'[h].req = handler[h].req
          /\ \A g \in Handlers \ {h} : handler'[g] = handler[g]
      BY <3>1 DEF Base, TypeOK, ConsumerTypeOK, Handler
    <3>3. HandlersOK'
      BY <1>1, <3>2, OthersOK, NoJobAssumption
    <3>4. Owed' = Owed
      BY <2>1, <3>2 DEF Owed, InHand
    <3>5. QED
      BY <1>5, <3>3, <3>4
  <2>3. CASE MoveTo(h, "recordFailed")
    <3>1. HandlersOK'
      BY <1>1, <2>3, MoveFacts, OthersOK DEF Base, TypeOK, HandlerPcs
    <3>2. QED
      BY <1>3, <1>5, <2>1, <2>3, <3>1, OwedFacts DEF At, HandlerPcs
  <2>4. QED
    BY <1>9, <2>2, <2>3 DEF AddMonitoring, Reliable, Disturb
<1>10. CASE RecordFailed(h)
  <2>1. At(h, "recordFailed") /\ handler[h].req \in Requests
    BY <1>3, <1>10 DEF RecordFailed, At
  <2>2. CASE Nack(h)
    BY <1>5, <1>6, <2>1, <2>2, OwedFacts DEF Nack
  <2>3. CASE /\ UpsertForwardedRequest(handler[h].req, NoJob, "failed", "not accepted")
             /\ MoveTo(h, "tellFailed") /\ UNCHANGED pending
    <3>1. rows'[handler[h].req].status \in Terminal
      BY <2>1, <2>3, FailedUpsert DEF Base, TypeOK, ErrorTexts
    <3>2. HandlersOK'
      BY <1>1, <2>3, <3>1, MoveFacts, OthersOK
         DEF Base, TypeOK, HandlerPcs, Safe, IsTerminal
    <3>3. QED
      BY <1>5, <2>1, <2>3, <3>2, OwedFacts DEF HandlerPcs
  <2>4. QED
    BY <1>10, <2>2, <2>3 DEF RecordFailed
<1>11. CASE RecordAck(h)
  <2>1. At(h, "recordAck") /\ handler[h].req \in Requests
    BY <1>3, <1>11 DEF RecordAck, At
  <2>2. CASE Nack(h)
    BY <1>5, <1>6, <2>1, <2>2, OwedFacts DEF Nack
  <2>3. CASE /\ UpsertForwardedRequest(handler[h].req, handler[h].job,
                                       "acknowledged", NoError)
             /\ MoveTo(h, "tellAck") /\ UNCHANGED pending
    <3>1. handler[h].job \in JobIds
      BY <2>1 DEF At, HandlersOK, Base, TypeOK, ConsumerTypeOK, Handler, MaybeJob
    <3>2. rows'[handler[h].req].ext = handler[h].job
      BY <2>1, <2>3, <3>1, UpsertFacts, NoJobAssumption
         DEF Base, TypeOK, Coalesce, MaybeJob, Statuses, LocalStatuses, ErrorTexts
    <3>3. HandlersOK'
      BY <1>1, <2>3, <3>1, <3>2, NoJobAssumption, MoveFacts, OthersOK
         DEF Base, TypeOK, HandlerPcs, Safe, Tracked
    <3>4. QED
      BY <1>5, <2>1, <2>3, <3>3, OwedFacts DEF HandlerPcs
  <2>4. QED
    BY <1>11, <2>2, <2>3 DEF RecordAck
<1>12. CASE TellFailed(h) \/ TellAck(h)
  <2>1. Ack(h) /\ (At(h, "tellFailed") \/ At(h, "tellAck"))
    BY <1>12 DEF TellFailed, TellAck
  <2>2. Safe(handler[h].req) /\ handler[h].req \in Requests
    BY <1>3, <2>1 DEF HandlersOK, At
  <2>3. NoLostRequest'
    BY <1>1, <2>1, <2>2, OwedFacts, OwedKept
  <2>4. QED
    BY <1>6, <2>1, <2>3 DEF Ack
<1>13. QED
  BY <1>2, <1>7, <1>8, <1>9, <1>10, <1>11, <1>12 DEF HandlerStep

LEMMA RecordedNext ==
    ASSUME Reliable
    PROVE  Recorded /\ [Next]_vars => Recorded'
<1> SUFFICES ASSUME Recorded, [Next]_vars PROVE Recorded'
  OBVIOUS
<1> USE DEF Recorded
<1>1. Base' /\ RowsKept
  BY BaseNext
<1>2. ASSUME UNCHANGED handler, pending \subseteq pending'
      PROVE  Recorded'
  <2>1. Owed \subseteq Owed'
    BY <1>2 DEF Owed, InHand
  <2>2. HandlersOK'
    <3>1. CASE \E h \in Handlers : TRUE
      <4>1. PICK h \in Handlers : TRUE
        BY <3>1
      <4>2. handler[h].pc # "idle" => handler[h].req \in Requests
        BY DEF Base, BusyOK, TypeOK, ConsumerTypeOK, Handler
      <4>3. QED
        BY <1>1, <1>2, <4>2, OthersOK
           DEF HandlersOK, RowsKept, Safe, Tracked, IsTerminal
    <3>2. QED
      BY <3>1 DEF HandlersOK
  <2>3. QED
    BY <1>1, <2>1, <2>2, OwedKept
<1>3. CASE UNCHANGED vars
  BY <1>2, <1>3 DEF vars, envVars
<1>4. CASE ConsumerStep /\ UNCHANGED reconcilerVars
  BY <1>4, ConsumerRecorded
<1>5. CASE TickStep /\ UNCHANGED handler
  <2>1. UNCHANGED pending
    BY <1>5 DEF TickStep, TickBegin, TickFailsToList, TickParked, TickSkipped, TickTimeout,
                TickFinish, BackoffElapsed, Poll, RecordError, MarkPolledRow,
                PublishTransition, envVars
  <2>2. QED
    BY <1>2, <1>5, <2>1
<1>6. CASE (HostStep \/ UpstreamStep) /\ UNCHANGED <<handler, reconcilerVars>>
  <2>1. pending \subseteq pending'
    BY <1>6 DEF HostStep, UpstreamStep, Redeliver, UpstreamProgress
  <2>2. QED
    BY <1>2, <1>6, <2>1
<1>7. CASE AdminStep
  <2>1. UNCHANGED <<pending, handler>>
    BY <1>7 DEF AdminStep, AdminRetry, AdminMarkFailed
  <2>2. QED
    BY <1>2, <2>1
<1>8. CASE Crash
  <2>1. handler' = [h \in Handlers |-> Idle] /\ pending' = pending \cup InHand
    BY <1>8 DEF Crash
  <2>2. Owed \subseteq Owed'
    BY <2>1 DEF Owed
  <2>3. HandlersOK'
    BY <2>1 DEF HandlersOK, Idle
  <2>4. QED
    BY <1>1, <2>2, <2>3, OwedKept
<1>9. QED
  BY <1>3, <1>4, <1>5, <1>6, <1>7, <1>8 DEF Next

\* The nacks of HandleEvent lose no request, whatever fails, as long as the
\* upstream names its jobs and missing metadata can be recorded.
THEOREM NoRequestIsLost ==
    ASSUME Reliable
    PROVE  Spec => []NoLostRequest
<1>1. Init => Recorded
  BY RecordedInit
<1>2. Recorded /\ [Next]_vars => Recorded'
  BY RecordedNext
<1>3. Recorded => NoLostRequest
  BY DEF Recorded
<1>4. QED
  BY <1>1, <1>2, <1>3, PTL DEF Spec
=============================================================================
