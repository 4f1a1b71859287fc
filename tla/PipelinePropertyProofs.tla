------------------------ MODULE PipelinePropertyProofs ------------------------
(***************************************************************************)
(* The properties of RequestPipeline that concern more than the tick, each *)
(* with the invariant that it needs: terminal statuses are final, an       *)
(* acknowledgement is announced only for a row with a job, an acknowledged *)
(* row has one, a parked reconciler is quiet; and the three that count,    *)
(* by which nothing is lost, silenced or left untold but what a            *)
(* disturbance each accounts for.                                          *)
(***************************************************************************)
EXTENDS TickProofs

-----------------------------------------------------------------------------
(* Every change of the table is one statement of RequestStore with values   *)
(* of the columns' types, or an operator's.                                 *)

Write(r, ext, status, err) ==
    \/ UpsertForwardedRequest(r, ext, status, err)
    \/ UpsertPolled(r, ext, status, err)
    \/ MarkPolled(r, ext, status)

SomeWrite == \E r \in Requests, ext \in MaybeJob, status \in Statuses, err \in ErrorTexts :
                Write(r, ext, status, err)

LEMMA HandlerWrites ==
    ASSUME Base, ConsumerStep
    PROVE  UNCHANGED rows \/ SomeWrite
<1> USE DEF Base
<1>1. PICK h \in Handlers : HandlerStep(h) \/ \E r \in Requests : Receive(h, r)
  BY DEF ConsumerStep
<1>2. ~At(h, "idle") => handler[h].req \in Requests
  BY DEF BusyOK, At, TypeOK, ConsumerTypeOK, Handler
<1>3. /\ NoJob \in MaybeJob /\ handler[h].job \in MaybeJob
      /\ {"submitted", "acknowledged", "failed"} \subseteq Statuses
      /\ {NoError, "no metadata", "not accepted"} \subseteq ErrorTexts
  BY DEF TypeOK, ConsumerTypeOK, Handler, MaybeJob, Statuses, LocalStatuses, Terminal,
         ErrorTexts
<1>4. CASE \E r \in Requests : Receive(h, r)
  <2>1. PICK r \in Requests : Receive(h, r)
    BY <1>4
  <2>2. \/ UpsertForwardedRequest(r, NoJob, "submitted", NoError)
        \/ UNCHANGED storeVars
    BY <2>1 DEF Receive
  <2>3. QED
    BY <1>3, <2>2 DEF SomeWrite, Write, storeVars
<1>5. CASE RejectMissingMetadata(h)
  <2>1. \/ UpsertForwardedRequest(handler[h].req, NoJob, "failed", "no metadata")
        \/ UNCHANGED storeVars
    BY <1>5 DEF RejectMissingMetadata
  <2>2. QED
    BY <1>2, <1>3, <1>5, <2>1 DEF SomeWrite, Write, storeVars, RejectMissingMetadata, At
<1>6. CASE RecordFailed(h)
  <2>1. \/ UpsertForwardedRequest(handler[h].req, NoJob, "failed", "not accepted")
        \/ UNCHANGED storeVars
    BY <1>6 DEF RecordFailed
  <2>2. QED
    BY <1>2, <1>3, <1>6, <2>1 DEF SomeWrite, Write, storeVars, RecordFailed, At
<1>7. CASE RecordAck(h)
  <2>1. \/ UpsertForwardedRequest(handler[h].req, handler[h].job, "acknowledged", NoError)
        \/ UNCHANGED storeVars
    BY <1>7 DEF RecordAck
  <2>2. QED
    BY <1>2, <1>3, <1>7, <2>1 DEF SomeWrite, Write, storeVars, RecordAck, At
<1>8. CASE AddMonitoring(h) \/ TellFailed(h) \/ TellAck(h)
  BY <1>8 DEF AddMonitoring, TellFailed, TellAck, storeVars
<1>9. QED
  BY <1>1, <1>4, <1>5, <1>6, <1>7, <1>8 DEF HandlerStep

LEMMA TickWrites ==
    ASSUME Base, TickStep
    PROVE  UNCHANGED rows \/ SomeWrite
<1> USE DEF Base
<1>1. ASSUME NEW r \in Requests, RecordError(r) \/ MarkPolledRow(r)
      PROVE  UNCHANGED rows \/ SomeWrite
  <2>1. r \in InBatch
    BY <1>1 DEF RecordError, MarkPolledRow, Current
  <2>2. batch[r].status \in Statuses /\ batch[r].ext \in MaybeJob
    BY <2>1 DEF BatchOK, TypeOK, ReconcilerTypeOK, BatchRow
  <2>3. CASE RecordError(r)
    <3>1. answer \in ErrorTexts
      BY <2>3 DEF RecordError, TypeOK, ReconcilerTypeOK, ErrorTexts
    <3>2. \/ UpsertPolled(r, batch[r].ext, batch[r].status, answer)
          \/ UNCHANGED storeVars
      BY <2>3 DEF RecordError, Succeeds, Fails
    <3>3. QED
      BY <2>2, <3>1, <3>2 DEF SomeWrite, Write, storeVars
  <2>4. CASE MarkPolledRow(r)
    <3>1. MarkedStatus(r) \in Statuses
      BY <2>2, <2>4, MarkPolledRowType
    <3>2. MarkPolled(r, batch[r].ext, MarkedStatus(r)) \/ UNCHANGED storeVars
      BY <2>4 DEF MarkPolledRow, Succeeds, Fails
    <3>3. NoError \in ErrorTexts
      BY DEF ErrorTexts
    <3>4. QED
      BY <2>2, <3>1, <3>2, <3>3 DEF SomeWrite, Write, storeVars
  <2>5. QED
    BY <1>1, <2>3, <2>4
<1>2. CASE \/ TickBegin \/ TickFailsToList \/ TickParked \/ TickSkipped
           \/ TickTimeout \/ TickFinish \/ BackoffElapsed
           \/ \E r \in Requests : Poll(r) \/ PublishTransition(r)
  BY <1>2 DEF TickBegin, TickFailsToList, TickParked, TickSkipped, TickTimeout, TickFinish,
              BackoffElapsed, Poll, PublishTransition, storeVars
<1>3. QED
  BY <1>1, <1>2 DEF TickStep

\* A statement never takes a row out of a terminal status.
LEMMA WriteKeepsTerminal ==
    ASSUME StoreTypeOK, UNCHANGED rows \/ SomeWrite, NEW q \in Requests, IsTerminal(q)
    PROVE  rows'[q].status = rows[q].status
<1>1. CASE UNCHANGED rows
  BY <1>1
<1>2. CASE SomeWrite
  <2>1. PICK r \in Requests, ext \in MaybeJob, status \in Statuses, err \in ErrorTexts :
            Write(r, ext, status, err)
    BY <1>2 DEF SomeWrite
  <2>2. CASE q # r
    BY <2>1, <2>2, UpsertFacts, MarkPolledFacts DEF Write
  <2>3. CASE q = r /\ MarkPolled(r, ext, status)
    BY <2>3, MarkPolledFacts
  <2>4. CASE q = r /\ ~MarkPolled(r, ext, status)
    <3>1. rows'[r].status = TerminalGuard(rows[r].status, status)
      BY <2>1, <2>4, UpsertFacts DEF Write
    <3>2. QED
      BY <2>4, <3>1 DEF TerminalGuard, IsTerminal
  <2>5. QED
    BY <2>2, <2>3, <2>4
<1>3. QED
  BY <1>1, <1>2

\* An operator changes the row that is asked for only.
LEMMA AdminWrites ==
    ASSUME Base, AdminStep, NEW q \in Requests
    PROVE  rows'[q] = rows[q] \/ AdminRetry(q) \/ AdminMarkFailed(q)
<1>1. PICK r \in Requests : AdminRetry(r) \/ AdminMarkFailed(r)
  BY DEF AdminStep
<1>2. CASE q = r
  BY <1>1, <1>2
<1>3. CASE q # r
  BY <1>1, <1>3, RetryFacts, MarkFailedFacts DEF AdminRetry, AdminMarkFailed, Base, TypeOK
<1>4. QED
  BY <1>2, <1>3

LEMMA BaseIsInvariant == Spec => []Base
  BY BaseInit, BaseNext, PTL DEF Spec

\* No redelivery, late answer or stale tick moves a row out of a terminal status,
\* since each of these statements has the guard (store/request.go:66-72, 106-109).
THEOREM TerminalIsFinalHolds == Spec => TerminalIsFinal
<1>1. ASSUME Base, [Next]_vars
      PROVE  [\A r \in Requests :
                IsTerminal(r) => \/ rows'[r].status = rows[r].status
                                 \/ AdminRetry(r) \/ AdminMarkFailed(r)]_vars
  <2>1. SUFFICES ASSUME Next, NEW r \in Requests, IsTerminal(r)
                 PROVE  \/ rows'[r].status = rows[r].status
                        \/ AdminRetry(r) \/ AdminMarkFailed(r)
    BY <1>1
  <2>2. StoreTypeOK
    BY <1>1 DEF Base, TypeOK
  <2>3. CASE ConsumerStep \/ TickStep
    BY <1>1, <2>1, <2>2, <2>3, HandlerWrites, TickWrites, WriteKeepsTerminal
  <2>4. CASE HostStep \/ UpstreamStep \/ Crash
    BY <2>4 DEF HostStep, UpstreamStep, Crash, Redeliver, UpstreamProgress, storeVars
  <2>5. CASE AdminStep
    BY <1>1, <2>1, <2>5, AdminWrites
  <2>6. QED
    BY <2>1, <2>3, <2>4, <2>5 DEF Next
<1>2. QED
  BY <1>1, BaseIsInvariant, PTL DEF Spec, TerminalIsFinal

-----------------------------------------------------------------------------
(* The portal hears of an acknowledgement after the job is in the row.      *)

HoldsJob(h) ==
    /\ handler[h].pc = "recordAck" => handler[h].job # NoJob
    /\ handler[h].pc = "tellAck" => Tracked(handler[h].req)

AckInv == Base /\ (\A h \in Handlers : HoldsJob(h)) /\ AcknowledgedIsTracked

LEMMA AckInit == Init => AckInv
<1> SUFFICES ASSUME Init PROVE AckInv
  OBVIOUS
<1>1. \A h \in Handlers : HoldsJob(h)
  BY DEF Init, ConsumerInit, HoldsJob, Idle
<1>2. AcknowledgedIsTracked
  BY DEF Init, EnvInit, AcknowledgedIsTracked
<1>3. QED
  BY <1>1, <1>2, BaseInit DEF AckInv

\* A handler that does not move goes on holding its job.
LEMMA JobStaysHeld ==
    ASSUME Base, RowsKept, NEW g \in Handlers, HoldsJob(g), handler'[g] = handler[g]
    PROVE  HoldsJob(g)'
<1>1. handler[g].pc # "idle" => handler[g].req \in Requests
  BY DEF Base, BusyOK, TypeOK, ConsumerTypeOK, Handler
<1>2. QED
  BY <1>1 DEF HoldsJob, RowsKept, Tracked

LEMMA ToldStaysTracked ==
    ASSUME AcknowledgedIsTracked, RowsKept,
           \A r \in Requests : "request_acknowledged" \in told'[r] =>
               "request_acknowledged" \in told[r] \/ Tracked(r)
    PROVE  AcknowledgedIsTracked'
  BY DEF AcknowledgedIsTracked, RowsKept, Tracked

LEMMA AckHandler ==
    ASSUME "noid" \notin Disturbances, AckInv, RowsKept, NEW h \in Handlers,
           HandlerStep(h) \/ \E r \in Requests : Receive(h, r)
    PROVE  (\A g \in Handlers : HoldsJob(g)') /\ AcknowledgedIsTracked'
<1> USE DEF AckInv
<1>1. ~At(h, "idle") => handler[h].req \in Requests
  BY DEF Base, BusyOK, At, TypeOK, ConsumerTypeOK, Handler
<1>2. ASSUME \A g \in Handlers \ {h} : handler'[g] = handler[g], HoldsJob(h)'
      PROVE  \A g \in Handlers : HoldsJob(g)'
  BY <1>2, JobStaysHeld
<1>3. UNCHANGED told => AcknowledgedIsTracked'
  BY ToldStaysTracked
<1>4. ASSUME Release(h) PROVE \A g \in Handlers : HoldsJob(g)'
  BY <1>2, <1>4, ReleaseFacts DEF Base, TypeOK, HoldsJob, Idle
<1>5. ASSUME NEW pc \in {"tellFailed", "recordFailed"}, MoveTo(h, pc)
      PROVE  \A g \in Handlers : HoldsJob(g)'
  BY <1>2, <1>5, MoveFacts DEF Base, TypeOK, HoldsJob, HandlerPcs
<1>6. CASE \E r \in Requests : Receive(h, r)
  <2>1. PICK r \in Requests : Receive(h, r)
    BY <1>6
  <2>2. CASE UNCHANGED handler
    BY <1>2, <1>3, <2>1, <2>2, JobStaysHeld DEF Receive
  <2>3. CASE ~UNCHANGED handler
    <3>1. handler' = [handler EXCEPT ![h] =
              [pc |-> IF r \in NoMetadata THEN "reject" ELSE "add",
               req |-> r, job |-> NoJob]]
      BY <2>1, <2>3, Zenon DEF Receive
    <3>2. HoldsJob(h)' /\ \A g \in Handlers \ {h} : handler'[g] = handler[g]
      BY <3>1 DEF Base, TypeOK, ConsumerTypeOK, HoldsJob
    <3>3. QED
      BY <1>2, <1>3, <2>1, <3>2 DEF Receive
  <2>4. QED
    BY <2>2, <2>3
<1>7. CASE RejectMissingMetadata(h) \/ RecordFailed(h)
  <2>1. MoveTo(h, "tellFailed") \/ Release(h)
    BY <1>7 DEF RejectMissingMetadata, RecordFailed, Nack
  <2>2. UNCHANGED told
    BY <1>7 DEF RejectMissingMetadata, RecordFailed
  <2>3. QED
    BY <1>3, <1>4, <1>5, <2>1, <2>2
<1>8. CASE AddMonitoring(h)
  <2>1. UNCHANGED told
    BY <1>8 DEF AddMonitoring
  <2>2. CASE \E j \in JobIds : handler' =
              [handler EXCEPT ![h].pc = "recordAck", ![h].job = j]
    <3>1. /\ handler'[h].pc = "recordAck" /\ handler'[h].job # NoJob
          /\ \A g \in Handlers \ {h} : handler'[g] = handler[g]
      BY <2>2, NoJobAssumption DEF Base, TypeOK, ConsumerTypeOK, Handler
    <3>2. QED
      BY <1>2, <1>3, <2>1, <3>1 DEF HoldsJob
  <2>3. CASE MoveTo(h, "recordFailed")
    BY <1>3, <1>5, <2>1, <2>3
  <2>4. QED
    BY <1>8, <2>2, <2>3 DEF AddMonitoring, Disturb
<1>9. CASE RecordAck(h)
  <2>1. At(h, "recordAck") /\ handler[h].req \in Requests /\ UNCHANGED told
    BY <1>1, <1>9 DEF RecordAck, At
  <2>2. CASE Nack(h)
    BY <1>3, <1>4, <2>1, <2>2 DEF Nack
  <2>3. CASE /\ UpsertForwardedRequest(handler[h].req, handler[h].job,
                                       "acknowledged", NoError)
             /\ MoveTo(h, "tellAck")
    <3>1. handler[h].job \in JobIds
      BY <2>1 DEF At, HoldsJob, Base, TypeOK, ConsumerTypeOK, Handler, MaybeJob
    <3>2. rows'[handler[h].req].ext # NoJob
      <4>1. /\ handler[h].job \in MaybeJob /\ "acknowledged" \in Statuses
            /\ NoError \in ErrorTexts /\ StoreTypeOK
        BY <3>1 DEF MaybeJob, Statuses, LocalStatuses, ErrorTexts, Base, TypeOK
      <4>2. rows'[handler[h].req].ext =
                Coalesce(handler[h].job, rows[handler[h].req].ext, NoJob)
        BY <2>1, <2>3, <4>1, UpsertFacts
      <4>3. QED
        BY <3>1, <4>2, NoJobAssumption DEF Coalesce
    <3>3. /\ handler'[h].pc = "tellAck" /\ handler'[h].req = handler[h].req
          /\ \A g \in Handlers \ {h} : handler'[g] = handler[g]
      BY <2>3, MoveFacts DEF Base, TypeOK, HandlerPcs
    <3>4. QED
      BY <1>2, <1>3, <2>1, <3>2, <3>3 DEF HoldsJob, Tracked
  <2>4. QED
    BY <1>9, <2>2, <2>3 DEF RecordAck
<1>10. CASE TellFailed(h) \/ TellAck(h)
  <2>1. Release(h) /\ handler[h].req \in Requests
    BY <1>1, <1>10 DEF TellFailed, TellAck, Ack, At
  <2>2. ASSUME NEW r \in Requests, "request_acknowledged" \in told'[r]
        PROVE  "request_acknowledged" \in told[r] \/ Tracked(r)
    <3>1. CASE TellFailed(h)
      <4>1. UNCHANGED told \/ told' = [told EXCEPT ![handler[h].req] = @ \cup {"request_failed"}]
        BY <3>1 DEF TellFailed, Publish
      <4>2. QED
        BY <2>1, <2>2, <4>1 DEF Base, TypeOK, EnvTypeOK
    <3>2. CASE TellAck(h)
      <4>1. \/ UNCHANGED told
            \/ told' = [told EXCEPT ![handler[h].req] = @ \cup {"request_acknowledged"}]
        BY <3>2 DEF TellAck, Publish
      <4>2. Tracked(handler[h].req)
        BY <3>2 DEF TellAck, At, HoldsJob
      <4>3. QED
        BY <2>1, <2>2, <4>1, <4>2 DEF Base, TypeOK, EnvTypeOK
    <3>3. QED
      BY <1>10, <3>1, <3>2
  <2>3. QED
    BY <1>4, <2>1, <2>2, ToldStaysTracked
<1>11. QED
  BY <1>6, <1>7, <1>8, <1>9, <1>10 DEF HandlerStep

LEMMA AckNext ==
    ASSUME "noid" \notin Disturbances
    PROVE  AckInv /\ [Next]_vars => AckInv'
<1> SUFFICES ASSUME AckInv, [Next]_vars PROVE AckInv'
  OBVIOUS
<1>1. Base' /\ RowsKept
  BY BaseNext DEF AckInv
<1>2. CASE ConsumerStep
  BY <1>1, <1>2, AckHandler DEF ConsumerStep, AckInv
<1>3. ASSUME UNCHANGED handler,
             \A r \in Requests : "request_acknowledged" \in told'[r] =>
                                    "request_acknowledged" \in told[r]
      PROVE  AckInv'
  <2>1. \A h \in Handlers : HoldsJob(h)'
    BY <1>1, <1>3, JobStaysHeld DEF AckInv
  <2>2. QED
    BY <1>1, <1>3, <2>1, ToldStaysTracked DEF AckInv
<1>4. CASE UNCHANGED vars
  BY <1>3, <1>4 DEF vars, envVars
<1>5. CASE TickStep /\ UNCHANGED handler
  <2>1. CASE \E r \in Requests : PublishTransition(r)
    <3>1. PICK r \in Requests : PublishTransition(r)
      BY <2>1
    <3>2. UNCHANGED told \/ told' = [told EXCEPT ![r] = @ \cup {EventFor(answer)}]
      BY <3>1 DEF PublishTransition, Publish
    <3>3. EventFor(answer) # "request_acknowledged"
      BY DEF EventFor
    <3>4. QED
      BY <1>3, <1>5, <3>2, <3>3 DEF AckInv, Base, TypeOK, EnvTypeOK
  <2>2. CASE ~\E r \in Requests : PublishTransition(r)
    <3>1. UNCHANGED told
      BY <1>5, <2>2 DEF TickStep, TickBegin, TickFailsToList, TickParked, TickSkipped,
             TickTimeout, TickFinish, BackoffElapsed, Poll, RecordError, MarkPolledRow, envVars
    <3>2. QED
      BY <1>3, <1>5, <3>1
  <2>3. QED
    BY <2>1, <2>2
<1>6. CASE (HostStep \/ UpstreamStep) /\ UNCHANGED <<handler, reconcilerVars>>
  BY <1>3, <1>6 DEF HostStep, UpstreamStep, Redeliver, UpstreamProgress
<1>7. CASE AdminStep
  BY <1>3, <1>7 DEF AdminStep, AdminRetry, AdminMarkFailed
<1>8. CASE Crash
  <2>1. handler' = [h \in Handlers |-> Idle] /\ UNCHANGED told
    BY <1>8 DEF Crash
  <2>2. \A h \in Handlers : HoldsJob(h)'
    BY <2>1 DEF HoldsJob, Idle
  <2>3. QED
    BY <1>1, <2>1, <2>2, ToldStaysTracked DEF AckInv
<1>9. QED
  BY <1>2, <1>4, <1>5, <1>6, <1>7, <1>8 DEF Next

\* The portal is told of an acknowledgement only when the row holds a job, as
\* long as the upstream names its jobs (consumer/handler.go:134-148).
THEOREM AcknowledgedIsTrackedHolds ==
    ASSUME "noid" \notin Disturbances
    PROVE  Spec => []AcknowledgedIsTracked
<1>1. AckInv => AcknowledgedIsTracked
  BY DEF AckInv
<1>2. QED
  BY <1>1, AckInit, AckNext, PTL DEF Spec

-----------------------------------------------------------------------------
(* An acknowledged row has a job.                                           *)

AcknowledgedInv == TickInv /\ AckInv /\ AcknowledgedRowHasJob

\* The status table of the request-lifecycle doc holds of every row, also of one
\* that a tick writes back as acknowledged or that an operator retries, as long
\* as the upstream names its jobs (consumer/handler.go:134-142, store/request.go:263-275).
THEOREM AcknowledgedRowHasJobHolds ==
    ASSUME "noid" \notin Disturbances
    PROVE  Spec => []AcknowledgedRowHasJob
<1>1. Init => AcknowledgedInv
  BY TickInvInit, AckInit DEF Init, StoreInit, AbsentRow, AcknowledgedRowHasJob, AcknowledgedInv
<1>2. AcknowledgedInv /\ [Next]_vars => AcknowledgedInv'
  <2> SUFFICES ASSUME AcknowledgedInv, [Next]_vars,
                      NEW r \in Requests, rows'[r].status = "acknowledged"
               PROVE  rows'[r].ext # NoJob
    BY TickInvNext, AckNext DEF AcknowledgedInv, AcknowledgedRowHasJob, Tracked
  <2>1. TickInv /\ Base /\ RowsKept /\ \A h \in Handlers : HoldsJob(h)
    BY TickInvNext DEF AcknowledgedInv, AckInv, TickInv
  <2>2. CASE Tracked(r)
    BY <2>1, <2>2 DEF RowsKept
  <2>3. CASE rows[r].status = "acknowledged"
    BY <2>2, <2>3 DEF AcknowledgedInv, AcknowledgedRowHasJob
  <2>4. CASE ConsumerStep
    <3>1. \/ rows[r].status = "acknowledged"
          \/ \E h \in Handlers : /\ At(h, "recordAck")
                                 /\ handler[h].job # NoJob => rows'[r].ext # NoJob
      BY <2>1, <2>4, ConsumerRows
    <3> QED
      BY <2>1, <2>3, <3>1 DEF At, HoldsJob
  <2>5. CASE AdminStep
    <3>1. rows'[r] = rows[r] \/ Tracked(r)
      BY <2>1, <2>5, AdminRows
    <3> QED
      BY <2>2, <2>3, <3>1
  <2>6. CASE RecordError(r) \/ MarkPolledRow(r)
    <3>1. r \in InBatch
      BY <2>1, <2>6, RecordErrorFacts, MarkPolledRowFacts
    <3> QED
      BY <2>1, <2>2, <3>1 DEF Base, BatchOK
  <2> QED
    BY <2>1, <2>3, <2>4, <2>5, <2>6, RowSources
<1>3. AcknowledgedInv => AcknowledgedRowHasJob
  BY DEF AcknowledgedInv
<1> QED
  BY <1>1, <1>2, <1>3, PTL DEF Spec

-----------------------------------------------------------------------------
(* While the window is open, the tick has nothing left to poll.             *)

NothingToPoll ==
    \/ tickPc = "idle"
    \/ tickPc = "row" /\ InBatch = {}
    \/ tickPc = "record" /\ answer = "rate limited"

QuietInv == Base /\ (parked => NothingToPoll)

LEMMA QuietInit == Init => QuietInv
  BY BaseInit DEF Init, ReconcilerInit, QuietInv

LEMMA QuietNext == QuietInv /\ [Next]_vars => QuietInv'
<1> SUFFICES ASSUME QuietInv, [Next]_vars, parked'
             PROVE  NothingToPoll'
  BY BaseNext DEF QuietInv
<1> USE DEF QuietInv
<1>1. BreakLoop => NothingToPoll'
  <2>1. SUFFICES ASSUME BreakLoop PROVE tickPc' = "row" /\ InBatch' = {}
    BY DEF NothingToPoll
  <2>2. \A r \in Requests : batch'[r].pos = 0
    BY <2>1 DEF BreakLoop, NoRow
  <2>3. QED
    BY <2>1, <2>2 DEF BreakLoop, InBatch
<1>2. ASSUME UNCHANGED <<tickPc, batch, answer, parked>> PROVE NothingToPoll'
  <2>1. NothingToPoll
    BY <1>2
  <2>2. InBatch' = InBatch
    BY <1>2 DEF InBatch
  <2>3. QED
    BY <1>2, <2>1, <2>2 DEF NothingToPoll
<1>3. CASE tickPc' = "idle"
  BY <1>3 DEF NothingToPoll
<1>4. ASSUME NEW r \in Requests, Poll(r) PROVE NothingToPoll'
  <2>1. tickPc = "row" /\ r \in InBatch
    BY <1>4 DEF Poll, Current
  <2>2. ~parked
    BY <2>1 DEF NothingToPoll
  <2>3. PollRateLimited(r)
    BY <1>4, <2>2 DEF Poll, PollSucceeds, PollFails
  <2>4. QED
    BY <1>1, <2>3 DEF PollRateLimited, NothingToPoll
<1>5. ASSUME NEW r \in Requests, RecordError(r) PROVE NothingToPoll'
  <2>1. parked /\ tickPc = "record"
    BY <1>5 DEF RecordError
  <2>2. answer = "rate limited"
    BY <2>1 DEF NothingToPoll
  <2>3. QED
    BY <1>1, <1>5, <2>2 DEF RecordError
<1>6. ASSUME NEW r \in Requests, MarkPolledRow(r) \/ PublishTransition(r)
      PROVE  FALSE
  <2>1. parked /\ tickPc \in {"mark", "publish"}
    BY <1>6 DEF MarkPolledRow, PublishTransition
  <2>2. QED
    BY <2>1 DEF NothingToPoll
<1>7. CASE TickStep
  <2>1. CASE TickBegin \/ BackoffElapsed
    BY <2>1 DEF TickBegin, BackoffElapsed
  <2>2. CASE TickFailsToList \/ TickParked \/ TickSkipped \/ TickTimeout
    BY <1>2, <2>2 DEF TickFailsToList, TickParked, TickSkipped, TickTimeout, tickVars
  <2>3. CASE TickFinish
    BY <1>3, <2>3 DEF TickFinish
  <2>4. QED
    BY <1>4, <1>5, <1>6, <1>7, <2>1, <2>2, <2>3 DEF TickStep
<1>8. CASE UNCHANGED reconcilerVars \/ UNCHANGED vars
  BY <1>2, <1>8 DEF reconcilerVars, tickVars, vars
<1>9. CASE AdminStep
  BY <1>8, <1>9 DEF AdminStep, AdminRetry, AdminMarkFailed
<1>10. CASE Crash
  BY <1>3, <1>10 DEF Crash
<1>11. QED
  BY <1>7, <1>8, <1>9, <1>10 DEF Next

\* Between a 429 and the end of its window no tick calls the upstream, neither
\* the one that was answered 429 nor a later one (reconciler.go:59-64, 215-222).
THEOREM ParkedMeansQuietHolds == Spec => ParkedMeansQuiet
<1>1. QuietInv => [parked => \A r \in Requests : ~Poll(r)]_vars
  BY DEF QuietInv, NothingToPoll, Poll, Current
<1>2. QED
  BY <1>1, QuietInit, QuietNext, PTL DEF Spec, ParkedMeansQuiet

-----------------------------------------------------------------------------
(* Counting what goes wrong.  Each of the three bounds below is proved of a *)
(* larger set, of the requests already charged to a disturbance: a step     *)
(* adds nothing to it, or one request and a disturbance.                    *)

ChargesOne(before, after) ==
    \/ after \subseteq before
    \/ /\ disturbances' = disturbances + 1
       /\ \E r \in Requests : after \subseteq before \cup {r}

LEMMA SmallerCount ==
    ASSUME NEW S, NEW T, S \subseteq Requests, T \subseteq S
    PROVE  Cardinality(T) \in Nat /\ Cardinality(S) \in Nat /\ Cardinality(T) <= Cardinality(S)
<1>1. IsFiniteSet(S)
  BY RequestsAssumption, FS_Subset
<1>2. IsFiniteSet(T) /\ Cardinality(T) <= Cardinality(S)
  BY <1>1, FS_Subset
<1> QED
  BY <1>1, <1>2, FS_CardinalityType

LEMMA ChargeCount ==
    ASSUME NEW before, NEW after, before \subseteq Requests,
           EnvTypeOK, disturbances' \in {disturbances, disturbances + 1},
           Cardinality(before) <= disturbances, ChargesOne(before, after)
    PROVE  Cardinality(after) <= disturbances'
<1>1. disturbances \in Nat
  BY DEF EnvTypeOK
<1>2. CASE after \subseteq before
  <2>1. /\ Cardinality(after) \in Nat /\ Cardinality(before) \in Nat
        /\ Cardinality(after) <= Cardinality(before)
    BY <1>2, SmallerCount
  <2> QED
    BY <1>1, <2>1
<1>3. ASSUME disturbances' = disturbances + 1,
             NEW r \in Requests, after \subseteq before \cup {r}
      PROVE  Cardinality(after) <= disturbances'
  <2>1. IsFiniteSet(before)
    BY RequestsAssumption, FS_Subset
  <2>2. Cardinality(before \cup {r}) <= Cardinality(before) + 1
    <3>1. /\ Cardinality(before) \in Nat
          /\ Cardinality(before \cup {r}) =
                IF r \in before THEN Cardinality(before) ELSE Cardinality(before) + 1
      BY <2>1, FS_AddElement, FS_CardinalityType
    <3> QED
      BY <3>1
  <2>3. /\ Cardinality(after) \in Nat /\ Cardinality(before \cup {r}) \in Nat
        /\ Cardinality(after) <= Cardinality(before \cup {r})
    BY <1>3, SmallerCount
  <2>4. Cardinality(before) \in Nat
    BY <2>1, FS_CardinalityType
  <2> QED
    BY <1>1, <1>3, <2>2, <2>3, <2>4
<1> QED
  BY <1>2, <1>3 DEF ChargesOne

LEMMA DisturbanceSteps ==
    ASSUME [Next]_vars
    PROVE  disturbances' \in {disturbances, disturbances + 1}
<1>1. CASE Undisturbed \/ \E kind \in DisturbanceKinds : Disturb(kind)
  BY <1>1 DEF Undisturbed, Disturb
<1>2. \A kind : Disturb(kind) => kind \in DisturbanceKinds
  BY DisturbancesAssumption DEF Disturb
<1>3. CASE ConsumerStep
  BY <1>1, <1>2, <1>3 DEF ConsumerStep, Receive, HandlerStep, RejectMissingMetadata,
         AddMonitoring, RecordFailed, RecordAck, TellFailed, TellAck, Publish
<1>4. ASSUME NEW r \in Requests, Poll(r) \/ RecordError(r) \/ MarkPolledRow(r) \/ PublishTransition(r)
      PROVE  Undisturbed \/ \E kind \in DisturbanceKinds : Disturb(kind)
  <2>1. CASE Poll(r)
    BY <1>2, <2>1 DEF Poll, PollSucceeds, PollRateLimited
  <2>2. CASE RecordError(r) \/ MarkPolledRow(r)
    BY <1>2, <2>2 DEF RecordError, MarkPolledRow, Succeeds, Fails
  <2>3. CASE PublishTransition(r)
    BY <1>2, <2>3 DEF PublishTransition, Publish
  <2> QED
    BY <1>4, <2>1, <2>2, <2>3
<1>5. CASE TickStep
  <2>1. CASE TickFailsToList \/ TickTimeout
    BY <1>1, <1>2, <2>1 DEF TickFailsToList, TickTimeout
  <2>2. CASE TickBegin \/ TickParked \/ TickSkipped \/ TickFinish \/ BackoffElapsed
    BY <1>1, <2>2 DEF TickBegin, TickParked, TickSkipped, TickFinish, BackoffElapsed, envVars,
                      Undisturbed
  <2> QED
    BY <1>1, <1>4, <1>5, <2>1, <2>2 DEF TickStep
<1>6. CASE AdminStep \/ HostStep \/ Crash
  BY <1>1, <1>2, <1>6 DEF AdminStep, AdminRetry, AdminMarkFailed, HostStep, Redeliver, Crash
<1>7. CASE UpstreamStep \/ UNCHANGED vars
  BY <1>1, <1>7 DEF UpstreamStep, UpstreamProgress, vars, envVars, Undisturbed
<1> QED
  BY <1>3, <1>5, <1>6, <1>7 DEF Next

-----------------------------------------------------------------------------
(* One loss for each misfortune.  A request is lost when its last handler   *)
(* acknowledges the event, but it is doomed when that handler has nothing   *)
(* more to record, which is when the misfortune happened.                   *)

\* The handler will acknowledge the event whatever happens, and record no job.
NothingToRecord(h) ==
    \/ handler[h].pc \in {"tellFailed", "tellAck"}
    \/ handler[h].pc = "recordAck" /\ handler[h].job = NoJob

Doomed ==
    {r \in Requests :
        /\ r \notin pending /\ ~Safe(r)
        /\ \A h \in Handlers : handler[h].req = r => NothingToRecord(h)}

LEMMA DoomedBefore ==
    ASSUME RowsKept, NEW r \in Doomed', r \notin pending,
           \A h \in Handlers : handler[h].req = r => NothingToRecord(h)
    PROVE  r \in Doomed
<1>1. r \in Requests /\ ~Safe(r)'
  BY DEF Doomed
<1> QED
  BY <1>1 DEF Doomed, RowsKept, Safe, Tracked, IsTerminal

LEMMA DoomedHandlerStep ==
    ASSUME Base, RowsKept, NEW h \in Handlers, HandlerStep(h)
    PROVE  ChargesOne(Doomed, Doomed')
<1>1. PICK q \in Requests : q = handler[h].req
  BY DEF HandlerStep, RejectMissingMetadata, AddMonitoring, RecordFailed, RecordAck, TellFailed,
         TellAck, At, Base, BusyOK, TypeOK, ConsumerTypeOK, Handler
<1>2. (Release(h) \/ \E pc \in HandlerPcs : MoveTo(h, pc)) =>
         \A g \in Handlers \ {h} : handler'[g] = handler[g]
  BY MoveFacts, ReleaseFacts DEF Base, TypeOK
<1>3. /\ \A g \in Handlers \ {h} : handler'[g] = handler[g]
      /\ pending \subseteq pending'
  <2>1. CASE AddMonitoring(h)
    BY <1>2, <2>1 DEF AddMonitoring, HandlerPcs, Base, TypeOK, ConsumerTypeOK
  <2>2. CASE ~AddMonitoring(h)
    <3>1. \A g \in Handlers \ {h} : handler'[g] = handler[g]
      BY <1>2, <2>2 DEF HandlerStep, RejectMissingMetadata, RecordFailed, RecordAck,
             TellFailed, TellAck, Ack, Nack, HandlerPcs
    <3>2. pending \subseteq pending'
      BY <2>2 DEF HandlerStep, RejectMissingMetadata, RecordFailed, RecordAck,
             TellFailed, TellAck, Ack, Nack
    <3> QED
      BY <3>1, <3>2
  <2> QED
    BY <2>1, <2>2
<1>4. ASSUME NEW r \in Doomed', r # q PROVE r \in Doomed
  <2>1. \A g \in Handlers : handler[g].req = r => NothingToRecord(g)
    BY <1>1, <1>3, <1>4 DEF Doomed, NothingToRecord
  <2>2. r \notin pending
    BY <1>3, <1>4 DEF Doomed
  <2> QED
    BY <1>4, <2>1, <2>2, DoomedBefore
<1>5. ASSUME q \in Doomed', NothingToRecord(h) PROVE q \in Doomed
  <2>1. \A g \in Handlers : handler[g].req = q => NothingToRecord(g)
    BY <1>3, <1>5 DEF Doomed, NothingToRecord
  <2>2. q \notin pending
    BY <1>3, <1>5 DEF Doomed
  <2> QED
    BY <1>5, <2>1, <2>2, DoomedBefore
<1>6. (q \in Doomed' => q \in Doomed) => Doomed' \subseteq Doomed
  BY <1>4
<1>7. ASSUME NEW kind, Disturb(kind) PROVE ChargesOne(Doomed, Doomed')
  BY <1>1, <1>4, <1>7 DEF ChargesOne, Disturb
<1>8. Safe(q)' => ChargesOne(Doomed, Doomed')
  <2>1. Safe(q)' => q \notin Doomed'
    BY DEF Doomed
  <2> QED
    BY <1>6, <2>1 DEF ChargesOne
<1>9. CASE RejectMissingMetadata(h)
  <2>1. CASE UpsertForwardedRequest(q, NoJob, "failed", "no metadata")
    <3>1. rows'[q].status \in Terminal
      BY <1>1, <2>1, FailedUpsert DEF Base, TypeOK, ErrorTexts
    <3> QED
      BY <1>8, <3>1 DEF Safe, IsTerminal
  <2> QED
    BY <1>1, <1>7, <1>9, <2>1 DEF RejectMissingMetadata
<1>10. CASE AddMonitoring(h)
  <2>1. CASE Undisturbed
    <3>1. CASE \E j \in JobIds : handler' =
                [handler EXCEPT ![h].pc = "recordAck", ![h].job = j]
      <4>1. /\ handler'[h].pc = "recordAck" /\ handler'[h].job # NoJob
            /\ handler'[h].req = q
        BY <1>1, <3>1, NoJobAssumption DEF Base, TypeOK, ConsumerTypeOK, Handler
      <4>2. q \notin Doomed'
        BY <4>1 DEF Doomed, NothingToRecord
      <4> QED
        BY <1>6, <4>2 DEF ChargesOne
    <3> QED
      BY <1>7, <1>10, <3>1 DEF AddMonitoring
  <2> QED
    BY <1>7, <1>10, <2>1 DEF AddMonitoring
<1>11. CASE RecordFailed(h)
  <2>1. CASE UpsertForwardedRequest(q, NoJob, "failed", "not accepted")
    <3>1. rows'[q].status \in Terminal
      BY <1>1, <2>1, FailedUpsert DEF Base, TypeOK, ErrorTexts
    <3> QED
      BY <1>8, <3>1 DEF Safe, IsTerminal
  <2> QED
    BY <1>1, <1>7, <1>11, <2>1 DEF RecordFailed
<1>12. CASE RecordAck(h)
  <2>1. CASE handler[h].job = NoJob
    <3>1. NothingToRecord(h)
      BY <1>12, <2>1 DEF RecordAck, At, NothingToRecord
    <3> QED
      BY <1>5, <1>6, <3>1 DEF ChargesOne
  <2>2. CASE /\ handler[h].job # NoJob
             /\ UpsertForwardedRequest(q, handler[h].job, "acknowledged", NoError)
    <3>1. handler[h].job \in MaybeJob
      BY DEF Base, TypeOK, ConsumerTypeOK, Handler
    <3>2. rows'[q].ext = Coalesce(handler[h].job, rows[q].ext, NoJob)
      <4>1. "acknowledged" \in Statuses /\ NoError \in ErrorTexts /\ StoreTypeOK
        BY DEF Base, TypeOK, Statuses, LocalStatuses, ErrorTexts
      <4> QED
        BY <1>1, <2>2, <3>1, <4>1, UpsertFacts
    <3> QED
      BY <1>8, <2>2, <3>2 DEF Coalesce, Safe, Tracked
  <2> QED
    BY <1>1, <1>7, <1>12, <2>1, <2>2 DEF RecordAck
<1>13. CASE TellFailed(h) \/ TellAck(h)
  <2>1. NothingToRecord(h)
    BY <1>13 DEF TellFailed, TellAck, At, NothingToRecord
  <2> QED
    BY <1>5, <1>6, <2>1 DEF ChargesOne
<1> QED
  BY <1>9, <1>10, <1>11, <1>12, <1>13 DEF HandlerStep

LEMMA DoomedReceive ==
    ASSUME Base, RowsKept, NEW h \in Handlers, NEW q \in Requests, Receive(h, q)
    PROVE  Doomed' \subseteq Doomed
<1>1. CASE UNCHANGED <<pending, handler>>
  BY <1>1, DoomedBefore DEF Doomed, NothingToRecord
<1>2. CASE ~UNCHANGED <<pending, handler>>
  <2>1. /\ pending' = pending \ {q}
        /\ handler' = [handler EXCEPT ![h] =
              [pc |-> IF q \in NoMetadata THEN "reject" ELSE "add",
               req |-> q, job |-> NoJob]]
    BY <1>2, Zenon DEF Receive
  <2>2. /\ handler'[h].req = q /\ handler'[h].pc \in {"reject", "add"}
        /\ \A g \in Handlers \ {h} : handler'[g] = handler[g]
    BY <2>1 DEF Base, TypeOK, ConsumerTypeOK
  <2>3. handler[h].req = NoRequest
    BY DEF Receive, At, Base, BusyOK
  <2>4. ASSUME NEW r \in Doomed' PROVE r \in Doomed
    <3>1. r \in Requests /\ r # q
      BY <2>2, <2>4 DEF Doomed, NothingToRecord
    <3>2. r \notin pending
      BY <2>1, <2>4, <3>1 DEF Doomed
    <3>3. \A g \in Handlers : handler[g].req = r => NothingToRecord(g)
      BY <2>2, <2>3, <2>4, <3>1, NoRequestAssumption DEF Doomed, NothingToRecord
    <3> QED
      BY <2>4, <3>2, <3>3, DoomedBefore
  <2> QED
    BY <2>4
<1> QED
  BY <1>1, <1>2

LEMMA DoomedNext ==
    ASSUME Base, [Next]_vars
    PROVE  ChargesOne(Doomed, Doomed')
<1>1. RowsKept
  BY BaseNext
<1>2. ASSUME UNCHANGED handler, pending \subseteq pending' PROVE ChargesOne(Doomed, Doomed')
  <2>1. ASSUME NEW r \in Doomed' PROVE r \in Doomed
    BY <1>1, <1>2, <2>1, DoomedBefore DEF Doomed, NothingToRecord
  <2> QED
    BY <2>1 DEF ChargesOne
<1>3. CASE ConsumerStep
  BY <1>1, <1>3, DoomedHandlerStep, DoomedReceive DEF ConsumerStep, ChargesOne
<1>4. CASE TickStep /\ UNCHANGED handler
  <2>1. UNCHANGED pending
    BY <1>4 DEF TickStep, TickBegin, TickFailsToList, TickParked, TickSkipped, TickTimeout,
         TickFinish, BackoffElapsed, Poll, RecordError, MarkPolledRow, PublishTransition, envVars
  <2> QED
    BY <1>2, <1>4, <2>1
<1>5. CASE (HostStep \/ UpstreamStep) /\ UNCHANGED <<handler, reconcilerVars>>
  <2>1. pending \subseteq pending'
    BY <1>5 DEF HostStep, UpstreamStep, Redeliver, UpstreamProgress
  <2> QED
    BY <1>2, <1>5, <2>1
<1>6. CASE AdminStep \/ UNCHANGED vars
  BY <1>2, <1>6 DEF AdminStep, AdminRetry, AdminMarkFailed, vars, envVars
<1>7. CASE Crash
  <2>1. pending' = pending \cup InHand
    BY <1>7 DEF Crash
  <2>2. ASSUME NEW r \in Doomed' PROVE r \in Doomed
    <3>1. r \in Requests /\ r \notin pending /\ r \notin InHand
      BY <2>1, <2>2 DEF Doomed
    <3>2. \A h \in Handlers : handler[h].req # r
      BY <3>1, NoRequestAssumption DEF InHand
    <3> QED
      BY <1>1, <2>2, <3>1, <3>2, DoomedBefore
  <2> QED
    BY <2>2 DEF ChargesOne
<1> QED
  BY <1>3, <1>4, <1>5, <1>6, <1>7 DEF Next

DoomedInv == Base /\ Cardinality(Doomed) <= disturbances

\* An upstream answer without an id, and a rejection that cannot be recorded,
\* lose the request they are about and no other, in whatever order handlers,
\* ticks, crashes and redeliveries follow (ebookdb/monitoring.go:84-97,
\* consumer/handler.go:97-103).
THEOREM OneLossEachHolds == Spec => []OneLossEach
<1>1. Init => DoomedInv
  <2> SUFFICES ASSUME Init PROVE Cardinality(Doomed) <= disturbances
    BY BaseInit DEF DoomedInv
  <2>1. Doomed = {} /\ disturbances = 0
    BY DEF Init, EnvInit, Doomed
  <2> QED
    BY <2>1, FS_EmptySet
<1>2. DoomedInv /\ [Next]_vars => DoomedInv'
  <2> SUFFICES ASSUME DoomedInv, [Next]_vars PROVE DoomedInv'
    OBVIOUS
  <2>1. Doomed \subseteq Requests
    BY DEF Doomed
  <2> QED
    BY <2>1, BaseNext, DoomedNext, DisturbanceSteps, ChargeCount DEF DoomedInv, Base, TypeOK
<1>3. DoomedInv => OneLossEach
  <2> SUFFICES ASSUME DoomedInv PROVE OneLossEach
    OBVIOUS
  <2> DEFINE Lost == {r \in Requests : r \notin Owed /\ ~Tracked(r) /\ ~IsTerminal(r)}
  <2>1. Lost \subseteq Doomed
    <3>1. \A r \in Requests : r \notin InHand => \A h \in Handlers : handler[h].req # r
      BY NoRequestAssumption DEF InHand
    <3> QED
      BY <3>1 DEF Doomed, Owed, Safe
  <2>2. Doomed \subseteq Requests /\ disturbances \in Nat
    BY DEF Doomed, DoomedInv, Base, TypeOK, EnvTypeOK
  <2> HIDE DEF Lost
  <2>3. Cardinality(Lost) <= disturbances
    BY <2>1, <2>2, SmallerCount DEF DoomedInv
  <2> QED
    BY <2>3 DEF OneLossEach, Lost
<1> QED
  BY <1>1, <1>2, <1>3, PTL DEF Spec

-----------------------------------------------------------------------------
(* One silence for each misfortune.  What the reconciler remembers of the   *)
(* current row is the answer it is about to record.                         *)

RemembersOK ==
    \A r \in Requests : Current(r) =>
        /\ tickPc = "record" => lastError[r] = answer
        /\ tickPc = "mark" => lastError[r] = NoError

\* A tick whose time is up cannot be relied on to record the error.
Silenced == {r \in Requests : r \in Silent \/ (tickPc = "record" /\ Current(r) /\ expired)}

RemembersInv == TickInv /\ RemembersOK

LEMMA RemembersNext == RemembersInv /\ [Next]_vars => RemembersInv'
<1> SUFFICES ASSUME RemembersInv, [Next]_vars,
                    NEW r \in Requests, Current(r)', tickPc' \in {"record", "mark"}
             PROVE  /\ tickPc' = "record" => lastError'[r] = answer'
                    /\ tickPc' = "mark" => lastError'[r] = NoError
  BY TickInvNext DEF RemembersInv, RemembersOK
<1>1. TickInv /\ Base /\ TypeOK /\ TurnsOK
  BY DEF RemembersInv, TickInv, Base
<1>2. CASE \E q \in Requests : Poll(q)
  <2>1. PICK q \in Requests : Poll(q)
    BY <1>2
  <2>2. Current(q) /\ UNCHANGED batch
    BY <1>1, <2>1, PollFacts
  <2>3. q = r
    BY <1>1, <2>2, OneCurrent DEF Current, InBatch
  <2> QED
    BY <1>1, <2>1, <2>3, PollFacts
<1>3. CASE \E q \in Requests : RecordError(q) \/ MarkPolledRow(q) \/ PublishTransition(q)
  BY <1>1, <1>3, RecordErrorFacts, MarkPolledRowFacts, PublishFacts
<1>4. CASE UNCHANGED reconcilerVars \/ UNCHANGED vars \/ Pause \/ AdminStep
  <2>1. UNCHANGED <<tickPc, answer, lastError>> /\ Current(r)
    BY <1>1, <1>4, PauseFacts, AdminRows, OutsideTick DEF vars
  <2> QED
    BY <2>1 DEF RemembersInv, RemembersOK
<1>5. CASE TickBegin \/ TickFinish \/ Crash
  BY <1>5, BetweenTicks
<1> QED
  BY <1>2, <1>3, <1>4, <1>5 DEF Next, TickStep, Pause

LEMMA SilencedNext ==
    ASSUME RemembersInv, [Next]_vars
    PROVE  ChargesOne(Silenced, Silenced')
<1>1. TickInv /\ Base /\ TypeOK /\ TurnsOK /\ RemembersOK
  BY DEF RemembersInv, TickInv, Base
<1>2. \A r \in Requests :
        r \in Silent <=> /\ ~IsTerminal(r) /\ lastError[r] \notin {NoError, rows[r].err}
                         /\ ~(tickPc = "record" /\ Current(r))
  BY DEF Silent
<1>3. \A r \in Requests :
        r \in Silent' <=> /\ rows'[r].status \notin Terminal
                          /\ lastError'[r] \notin {NoError, rows'[r].err}
                          /\ ~(tickPc' = "record" /\ Current(r)')
  BY DEF Silent, IsTerminal
<1>4. \A r \in Requests :
        r \in Silenced <=> r \in Silent \/ (tickPc = "record" /\ Current(r) /\ expired)
  BY Zenon DEF Silenced
<1>5. \A r \in Requests :
        r \in Silenced' <=> r \in Silent' \/ (tickPc' = "record" /\ Current(r)' /\ expired')
  BY Zenon DEF Silenced
<1>6. Silenced \subseteq Requests /\ Silenced' \subseteq Requests
  BY DEF Silenced
\* A row that is open now, with the same two errors, was silent unless it was current.
<1>7. ASSUME NEW r \in Silent', rows'[r].err = rows[r].err, lastError'[r] = lastError[r],
             IsTerminal(r) => rows'[r].status \in Terminal,
             ~(tickPc = "record" /\ Current(r))
      PROVE  r \in Silent
  <2>1. r \in Requests
    BY DEF Silent
  <2> QED
    BY <1>2, <1>3, <1>7, <2>1
<1>8. ASSUME NEW r \in Requests, r \in Silent', ~(tickPc = "record" /\ Current(r)),
             rows'[r] = rows[r], lastError'[r] = lastError[r]
      PROVE  r \in Silenced
  BY <1>4, <1>7, <1>8 DEF IsTerminal
<1> HIDE DEF Silent, Silenced
<1>9. ASSUME UNCHANGED <<tickPc, lastError, expired>>,
             \A r \in Requests : Current(r)' <=> Current(r),
             \A r \in Requests : \/ rows'[r].err = rows[r].err
                                 \/ rows'[r].status \in Terminal,
             \A r \in Requests : IsTerminal(r) => rows'[r].status \in Terminal
      PROVE  Silenced' \subseteq Silenced
  <2>1. ASSUME NEW r \in Requests, r \in Silent' PROVE r \in Silent
    <3>1. rows'[r].err = rows[r].err /\ ~(tickPc = "record" /\ Current(r))
      BY <1>3, <1>9, <2>1
    <3> QED
      BY <1>7, <1>9, <2>1, <3>1
  <2>2. ASSUME NEW r \in Requests, tickPc' = "record", Current(r)', expired'
        PROVE  r \in Silenced
    <3>1. tickPc = "record" /\ Current(r)
      BY <1>9, <2>2
    <3>2. expired = TRUE
      BY <1>1, <1>9, <2>2 DEF TypeOK, ReconcilerTypeOK
    <3> QED
      BY <1>4, <3>1, <3>2
  <2> QED
    BY <1>4, <1>5, <1>6, <2>1, <2>2
<1>10. CASE ConsumerStep /\ UNCHANGED reconcilerVars
  <2>1. \A r \in Requests : rows'[r].err = rows[r].err \/ rows'[r].status \in Terminal
    BY <1>1, <1>10, ConsumerRows
  <2>2. \A r \in Requests : IsTerminal(r) => rows'[r].status \in Terminal
    BY <1>1, <1>10, ConsumerRows DEF IsTerminal
  <2> QED
    BY <1>9, <1>10, <2>1, <2>2, OutsideTick DEF ChargesOne
<1>11. CASE (HostStep \/ UpstreamStep) /\ UNCHANGED <<handler, reconcilerVars>>
  <2>1. UNCHANGED rows
    BY <1>11, OutsideRows
  <2> QED
    BY <1>9, <1>11, <2>1, OutsideTick DEF ChargesOne, IsTerminal
<1>12. CASE UNCHANGED vars
  BY <1>9, <1>12, OutsideTick, OutsideRows DEF ChargesOne, IsTerminal, vars
<1>13. CASE Crash
  <2>1. lastError' = [r \in Requests |-> NoError] /\ tickPc' = "idle"
    BY <1>13 DEF Crash
  <2>2. Silenced' = {}
    BY <1>3, <1>5, <1>6, <2>1
  <2> QED
    BY <2>2 DEF ChargesOne
<1>14. CASE AdminStep
  <2>1. UNCHANGED reconcilerVars /\ disturbances' = disturbances + 1
    BY <1>1, <1>14, AdminRows
  <2>2. PICK q \in Requests : \A r \in Requests \ {q} : rows'[r] = rows[r]
    BY <1>1, <1>14, AdminRows
  <2>3. /\ UNCHANGED <<tickPc, lastError>> /\ expired' = expired
        /\ \A r \in Requests : Current(r)' <=> Current(r)
    BY <2>1, OutsideTick
  <2>4. ASSUME NEW r \in Requests, r # q, r \in Silent' PROVE r \in Silenced
    <3>1. ~(tickPc = "record" /\ Current(r))
      BY <1>3, <2>3, <2>4
    <3> QED
      BY <1>8, <2>2, <2>3, <2>4, <3>1
  <2>5. ASSUME NEW r \in Requests, tickPc' = "record", Current(r)', expired'
        PROVE  r \in Silenced
    <3>1. tickPc = "record" /\ Current(r)
      BY <2>3, <2>5
    <3>2. expired = TRUE
      BY <1>1, <2>3, <2>5 DEF TypeOK, ReconcilerTypeOK
    <3> QED
      BY <1>4, <3>1, <3>2
  <2>6. Silenced' \subseteq Silenced \cup {q}
    BY <1>5, <1>6, <2>4, <2>5
  <2> QED
    BY <2>1, <2>6 DEF ChargesOne
<1>15. CASE TickBegin \/ TickFinish
  <2>1. tickPc # "record" /\ tickPc' # "record" /\ UNCHANGED <<rows, lastError>>
    BY <1>15, BetweenTicks
  <2>2. Silenced' \subseteq Silenced
    BY <1>5, <1>6, <1>8, <2>1
  <2> QED
    BY <2>2 DEF ChargesOne
<1>16. CASE Pause
  <2>1. /\ UNCHANGED <<tickPc, lastError, rows>>
        /\ \A r \in Requests : Current(r)' <=> Current(r)
    BY <1>16, PauseFacts
  <2>2. CASE UNCHANGED expired
    BY <1>9, <2>1, <2>2 DEF ChargesOne, IsTerminal
  <2>3. CASE TickTimeout
    <3>1. disturbances' = disturbances + 1
      BY <2>3 DEF TickTimeout, Disturb
    <3>2. \A r \in Requests : r \in Silent' => r \in Silenced
      BY <1>3, <1>8, <2>1
    <3>3. \A r \in Requests : r \in Silenced' => r \in Silenced \/ Current(r)
      BY <1>5, <2>1, <3>2
    <3>4. CASE \E r \in Requests : Current(r)
      <4>1. PICK r \in Requests : Current(r)
        BY <3>4
      <4>2. Silenced' \subseteq Silenced \cup {r}
        BY <1>1, <1>6, <3>3, <4>1, OneCurrent
      <4> QED
        BY <3>1, <4>2 DEF ChargesOne
    <3>5. CASE ~\E r \in Requests : Current(r)
      <4>1. Silenced' \subseteq Silenced
        BY <1>6, <3>3, <3>5
      <4> QED
        BY <4>1 DEF ChargesOne
    <3> QED
      BY <3>4, <3>5
  <2> QED
    BY <1>16, <2>2, <2>3 DEF Pause, TickFailsToList, TickParked, TickSkipped, BackoffElapsed, tickVars
<1>17. ASSUME NEW r \in Requests, Poll(r) PROVE ChargesOne(Silenced, Silenced')
  <2>1. tickPc = "row" /\ UNCHANGED rows /\ Current(r)
    BY <1>1, <1>17, PollFacts
  <2>2. \A q \in Requests \ {r} : lastError'[q] = lastError[q]
    BY <1>1, <1>17, PollFacts
  <2>3. \A q \in Requests \ {r} : q \in Silent' => q \in Silenced
    BY <1>8, <2>1, <2>2
  <2>4. CASE tickPc' = "row" /\ lastError'[r] = lastError[r]
    <3>1. Silenced' \subseteq Silenced
      BY <1>5, <1>6, <1>8, <2>1, <2>3, <2>4
    <3> QED
      BY <3>1 DEF ChargesOne
  <2>5. CASE tickPc' = "mark" /\ lastError'[r] = NoError
    <3>1. Silenced' \subseteq Silenced
      BY <1>3, <1>5, <1>6, <2>3, <2>5
    <3> QED
      BY <3>1 DEF ChargesOne
  <2>6. CASE tickPc' = "record" /\ UNCHANGED batch /\ (expired' => Disturb("timeout"))
    <3>1. \A q \in Requests : Current(q)' <=> Current(q)
      BY <2>6 DEF Current, InBatch
    <3>2. \A q \in Requests : Current(q)' => q = r
      BY <1>1, <2>1, <3>1, OneCurrent
    <3>3. r \notin Silent'
      BY <1>3, <2>1, <2>6, <3>1
    <3>4. CASE ~expired'
      <4>1. Silenced' \subseteq Silenced
        BY <1>5, <1>6, <2>3, <3>3, <3>4
      <4> QED
        BY <4>1 DEF ChargesOne
    <3>5. CASE expired'
      <4>1. disturbances' = disturbances + 1
        BY <2>6, <3>5 DEF Disturb
      <4>2. Silenced' \subseteq Silenced \cup {r}
        BY <1>5, <1>6, <2>3, <3>2
      <4> QED
        BY <4>1, <4>2 DEF ChargesOne
    <3> QED
      BY <3>4, <3>5
  <2> QED
    BY <1>1, <1>17, <2>4, <2>5, <2>6, PollFacts
<1>18. ASSUME NEW r \in Requests, RecordError(r) PROVE ChargesOne(Silenced, Silenced')
  <2>1. tickPc = "record" /\ Current(r) /\ tickPc' = "row" /\ UNCHANGED lastError
    BY <1>1, <1>18, RecordErrorFacts
  <2>2. \A q \in Requests \ {r} : rows'[q] = rows[q] /\ ~Current(q)
    BY <1>1, <1>18, <2>1, RecordErrorFacts, OneCurrent
  <2>3. \A q \in Requests : q \in Silenced' => q \in Silent'
    BY <1>5, <2>1
  <2>4. \A q \in Requests \ {r} : q \in Silenced' => q \in Silenced
    BY <1>8, <2>1, <2>2, <2>3
  <2>5. CASE expired
    <3>1. r \in Silenced
      BY <1>4, <2>1, <2>5
    <3> QED
      BY <1>6, <2>4, <3>1 DEF ChargesOne
  <2>6. CASE rows'[r].err = answer
    <3>1. r \notin Silenced'
      BY <1>1, <1>3, <2>1, <2>3, <2>6 DEF RemembersOK
    <3> QED
      BY <1>6, <2>4, <3>1 DEF ChargesOne
  <2>7. CASE Disturb("db")
    BY <1>6, <2>4, <2>7 DEF ChargesOne, Disturb
  <2> QED
    BY <1>1, <1>18, <2>5, <2>6, <2>7, RecordErrorFacts
<1>19. ASSUME NEW r \in Requests, MarkPolledRow(r) PROVE ChargesOne(Silenced, Silenced')
  <2>1. tickPc = "mark" /\ Current(r) /\ tickPc' # "record" /\ UNCHANGED lastError
    BY <1>1, <1>19, MarkPolledRowFacts
  <2>2. \A q \in Requests \ {r} : rows'[q] = rows[q]
    BY <1>1, <1>19, MarkPolledRowFacts
  <2>3. r \notin Silent'
    BY <1>1, <1>3, <2>1 DEF RemembersOK
  <2>4. Silenced' \subseteq Silenced
    BY <1>5, <1>6, <1>8, <2>1, <2>2, <2>3
  <2> QED
    BY <2>4 DEF ChargesOne
<1>20. ASSUME NEW r \in Requests, PublishTransition(r) PROVE ChargesOne(Silenced, Silenced')
  <2>1. tickPc = "publish" /\ tickPc' = "row" /\ UNCHANGED <<lastError, rows>>
    BY <1>1, <1>20, PublishFacts
  <2>2. Silenced' \subseteq Silenced
    BY <1>5, <1>6, <1>8, <2>1
  <2> QED
    BY <2>2 DEF ChargesOne
<1> QED
  BY <1>10, <1>11, <1>12, <1>13, <1>14, <1>15, <1>16, <1>17, <1>18, <1>19, <1>20
     DEF Next, TickStep, Pause

SilencedInv == RemembersInv /\ Cardinality(Silenced) <= disturbances

\* The deduplication of errors compares with what it remembers and not with the
\* row; a failed statement, a timeout between the two or a retry silences one row
\* and nothing else does (reconciler.go:105-118, 227-240, store/request.go:273).
THEOREM SilencesAreCountedHolds == Spec => []SilencesAreCounted
<1>1. Init => SilencedInv
  <2> SUFFICES ASSUME Init PROVE SilencedInv
    OBVIOUS
  <2>1. tickPc = "idle" /\ lastError = [r \in Requests |-> NoError] /\ disturbances = 0
    BY DEF Init, ReconcilerInit, NoTick, EnvInit
  <2>2. Silenced = {}
    BY <2>1 DEF Silenced, Silent
  <2> QED
    BY <2>1, <2>2, TickInvInit, FS_EmptySet DEF SilencedInv, RemembersInv, RemembersOK
<1>2. SilencedInv /\ [Next]_vars => SilencedInv'
  <2> SUFFICES ASSUME SilencedInv, [Next]_vars PROVE SilencedInv'
    OBVIOUS
  <2>1. Silenced \subseteq Requests /\ EnvTypeOK
    BY DEF Silenced, SilencedInv, RemembersInv, TickInv, Base, TypeOK
  <2> QED
    BY <2>1, RemembersNext, SilencedNext, DisturbanceSteps, ChargeCount DEF SilencedInv
<1>3. SilencedInv => SilencesAreCounted
  <2> SUFFICES ASSUME SilencedInv PROVE Cardinality(Silent) <= disturbances
    BY DEF SilencesAreCounted
  <2>1. /\ Silent \subseteq Silenced /\ Silenced \subseteq Requests
        /\ disturbances \in Nat /\ Cardinality(Silenced) <= disturbances
    BY DEF Silenced, Silent, SilencedInv, RemembersInv, TickInv, Base, TypeOK, EnvTypeOK
  <2> HIDE DEF Silent, Silenced
  <2> QED
    BY <2>1, SmallerCount
<1> QED
  BY <1>1, <1>2, <1>3, PTL DEF Spec

-----------------------------------------------------------------------------
(* One announcement for each misfortune.  What goes wrong before the row is *)
(* terminal is charged when it goes wrong: to the request whose failure is  *)
(* being recorded, or to the row a tick without time is about to decide.    *)

\* A handler that has failed to start the job, and has yet to say so
Failing(r) ==
    /\ r \notin NoMetadata
    /\ \E h \in Handlers : /\ handler[h].req = r
                           /\ handler[h].pc \in {"recordFailed", "tellFailed"}

\* The tick has the answer for r, and no time to write or to publish it.
Expiring(r) == tickPc \in {"mark", "publish"} /\ Current(r) /\ expired

\* The tick is about to publish the outcome of r.
WillTell(r) ==
    /\ tickPc = "publish" /\ Current(r) /\ ~expired
    /\ EventFor(answer) = EventFor(rows[r].status)

Lapsed(r) ==
    /\ IsTerminal(r) /\ EventFor(rows[r].status) \notin told[r]
    /\ ~WillTell(r)
    /\ r \notin NoMetadata \cap Owed

Charged == {r \in Requests : Failing(r) \/ Expiring(r) \/ Lapsed(r)}

\* A request without metadata never gets a job: it is rejected on each delivery.
RejectedOK ==
    /\ \A r \in NoMetadata : ~Tracked(r) /\ rows[r].status \in {"absent", "submitted", "failed"}
    /\ \A h \in Handlers :
         /\ handler[h].req \in NoMetadata =>
               handler[h].pc \in {"reject", "tellFailed"} /\ handler[h].job = NoJob
         /\ handler[h].pc = "reject" => handler[h].req \in NoMetadata

ChargeInv == TickInv /\ RejectedOK

LEMMA RejectedHandlers ==
    ASSUME Base, RejectedOK, NEW h \in Handlers,
           HandlerStep(h) \/ \E r \in Requests : Receive(h, r)
    PROVE  \A g \in Handlers :
              /\ handler'[g].req \in NoMetadata =>
                    handler'[g].pc \in {"reject", "tellFailed"} /\ handler'[g].job = NoJob
              /\ handler'[g].pc = "reject" => handler'[g].req \in NoMetadata
<1> DEFINE OK(d) == /\ d.req \in NoMetadata => d.pc \in {"reject", "tellFailed"} /\ d.job = NoJob
                    /\ d.pc = "reject" => d.req \in NoMetadata
<1> SUFFICES \A g \in Handlers : OK(handler'[g])
  OBVIOUS
<1>1. \A g \in Handlers : OK(handler[g])
  BY DEF RejectedOK
<1>2. handler \in [Handlers -> Handler] /\ NoRequest \notin NoMetadata
  BY NoRequestAssumption, NoMetadataAssumption DEF Base, TypeOK, ConsumerTypeOK
<1>3. ASSUME NEW d, OK(d), handler' = [handler EXCEPT ![h] = d]
      PROVE  \A g \in Handlers : OK(handler'[g])
  <2> HIDE DEF OK
  <2> QED
    BY <1>1, <1>2, <1>3
<1>4. ASSUME NEW pc \in {"recordAck", "recordFailed", "tellAck"}, MoveTo(h, pc),
             handler[h].req \notin NoMetadata
      PROVE  \A g \in Handlers : OK(handler'[g])
  <2>1. \A g \in Handlers \ {h} : handler'[g] = handler[g]
    BY <1>2, <1>4 DEF MoveTo
  <2>2. handler'[h].req = handler[h].req /\ handler'[h].pc = pc
    BY <1>2, <1>4 DEF MoveTo, Handler
  <2>3. OK(handler'[h])
    BY <1>4, <2>2
  <2> HIDE DEF OK
  <2> QED
    BY <1>1, <2>1, <2>3
<1>5. ASSUME MoveTo(h, "tellFailed") PROVE \A g \in Handlers : OK(handler'[g])
  <2>1. \A g \in Handlers \ {h} : handler'[g] = handler[g]
    BY <1>2, <1>5 DEF MoveTo
  <2>2. /\ handler'[h].req = handler[h].req /\ handler'[h].job = handler[h].job
        /\ handler'[h].pc = "tellFailed"
    BY <1>2, <1>5 DEF MoveTo, Handler
  <2>3. OK(handler'[h])
    BY <1>1, <2>2
  <2> HIDE DEF OK
  <2> QED
    BY <1>1, <2>1, <2>3
<1>6. CASE Release(h)
  BY <1>2, <1>3, <1>6 DEF Release, Idle
<1>7. CASE RejectMissingMetadata(h) \/ (RecordFailed(h) /\ ~Release(h))
  <2>1. MoveTo(h, "tellFailed")
    BY <1>7 DEF RejectMissingMetadata, RecordFailed, Nack
  <2> QED
    BY <1>5, <2>1
<1>8. CASE AddMonitoring(h)
  <2>1. handler[h].req \notin NoMetadata
    BY <1>1, <1>8 DEF AddMonitoring, At
  <2>2. CASE MoveTo(h, "recordAck") \/ MoveTo(h, "recordFailed")
    BY <1>4, <2>1, <2>2
  <2>3. CASE \E j \in JobIds : handler' = [handler EXCEPT ![h].pc = "recordAck", ![h].job = j]
    <3>1. PICK j \in JobIds : handler' = [handler EXCEPT ![h].pc = "recordAck", ![h].job = j]
      BY <2>3
    <3>2. \A g \in Handlers \ {h} : handler'[g] = handler[g]
      BY <1>2, <3>1
    <3>3. handler'[h].req = handler[h].req /\ handler'[h].pc = "recordAck"
      BY <1>2, <3>1 DEF Handler
    <3>4. OK(handler'[h])
      BY <2>1, <3>3
    <3> HIDE DEF OK
    <3> QED
      BY <1>1, <3>2, <3>4
  <2> QED
    BY <1>8, <2>2, <2>3 DEF AddMonitoring
<1>9. CASE RecordAck(h)
  <2>1. handler[h].req \notin NoMetadata
    BY <1>1, <1>9 DEF RecordAck, At
  <2> QED
    BY <1>4, <1>6, <1>9, <2>1 DEF RecordAck, Nack
<1>10. CASE TellFailed(h) \/ TellAck(h)
  BY <1>6, <1>10 DEF TellFailed, TellAck, Ack
<1>11. CASE \E r \in Requests : Receive(h, r)
  <2>1. PICK r \in Requests : Receive(h, r)
    BY <1>11
  <2>2. CASE UNCHANGED handler
    BY <1>1, <2>2
  <2> DEFINE delivery == [pc  |-> IF r \in NoMetadata THEN "reject" ELSE "add",
                          req |-> r, job |-> NoJob]
  <2>3. CASE handler' = [handler EXCEPT ![h] = delivery]
    <3>1. OK(delivery)
      OBVIOUS
    <3> HIDE DEF OK, delivery
    <3> QED
      BY <1>3, <2>3, <3>1
  <2> QED
    BY <2>1, <2>2, <2>3 DEF Receive
<1> QED
  BY <1>6, <1>7, <1>8, <1>9, <1>10, <1>11 DEF HandlerStep

LEMMA ChargeInvNext == ChargeInv /\ [Next]_vars => ChargeInv'
<1> SUFFICES ASSUME ChargeInv, [Next]_vars PROVE RejectedOK'
  BY TickInvNext DEF ChargeInv
<1>1. TickInv /\ Base /\ RejectedOK
  BY DEF ChargeInv, TickInv
<1>2. \A h \in Handlers :
         /\ handler'[h].req \in NoMetadata =>
               handler'[h].pc \in {"reject", "tellFailed"} /\ handler'[h].job = NoJob
         /\ handler'[h].pc = "reject" => handler'[h].req \in NoMetadata
  <2>1. CASE ConsumerStep
    BY <1>1, <2>1, RejectedHandlers DEF ConsumerStep
  <2>2. CASE UNCHANGED handler
    BY <1>1, <2>2 DEF RejectedOK
  <2>3. CASE Crash
    BY <2>3, NoRequestAssumption, NoMetadataAssumption DEF Crash, Idle
  <2> QED
    BY <2>1, <2>2, <2>3 DEF Next, AdminStep, AdminRetry, AdminMarkFailed, vars
<1>3. ASSUME NEW r \in NoMetadata
      PROVE  rows'[r].ext = NoJob /\ rows'[r].status \in {"absent", "submitted", "failed"}
  <2>1. r \in Requests /\ rows[r].ext = NoJob /\ rows[r].status \in {"absent", "submitted", "failed"}
    BY <1>1, NoMetadataAssumption DEF RejectedOK, Tracked
  <2>2. r \notin InBatch
    BY <1>1, <2>1 DEF Base, BatchOK, Tracked
  <2>3. rows'[r].ext = NoJob
    BY <1>1, <2>1, <2>2, RowSources DEF RejectedOK
  <2>4. CASE ConsumerStep
    <3>1. rows'[r].status # "acknowledged"
      BY <1>1, <2>1, <2>4, ConsumerRows DEF RejectedOK, At
    <3>2. \/ rows'[r].status = rows[r].status
          \/ rows'[r].status \in {"submitted", "acknowledged", "failed"}
      BY <1>1, <2>1, <2>4, ConsumerRows
    <3> QED
      BY <2>1, <2>3, <3>1, <3>2
  <2>5. CASE AdminStep
    <3>1. \/ rows'[r] = rows[r] \/ rows'[r].status = "failed"
          \/ rows'[r].status = "acknowledged" /\ Tracked(r)
      BY <1>1, <2>1, <2>5, AdminRows
    <3> QED
      BY <2>1, <2>3, <3>1 DEF Tracked
  <2>6. CASE rows'[r].status = rows[r].status
    BY <2>1, <2>3, <2>6
  <2>7. ~RecordError(r) /\ ~MarkPolledRow(r)
    BY <1>1, <2>1, <2>2, RecordErrorFacts, MarkPolledRowFacts
  <2> QED
    BY <1>1, <2>1, <2>4, <2>5, <2>6, <2>7, RowSources
<1> QED
  BY <1>2, <1>3 DEF RejectedOK, Tracked

\* What is charged after a step that leaves r alone was charged before it.
LEMMA ChargedBefore ==
    ASSUME NEW r \in Charged', Failing(r)' => Failing(r), ~Expiring(r)' \/ Expiring(r),
           told[r] \subseteq told'[r],
           rows'[r].status \in Terminal => rows'[r].status = rows[r].status,
           WillTell(r) => WillTell(r)',
           r \in NoMetadata /\ r \in Owed => r \in Owed'
    PROVE  r \in Charged
<1>1. r \in Requests /\ (Failing(r)' \/ Expiring(r)' \/ Lapsed(r)')
  BY DEF Charged
<1>2. Failing(r) \/ Expiring(r) => r \in Charged
  BY <1>1 DEF Charged
<1>3. CASE Lapsed(r)'
  <2>1. /\ rows'[r].status \in Terminal /\ EventFor(rows[r].status) \notin told'[r]
        /\ ~WillTell(r)' /\ ~(r \in NoMetadata /\ r \in Owed')
    BY <1>3 DEF Lapsed, IsTerminal
  <2>2. Lapsed(r)
    BY <2>1 DEF Lapsed, IsTerminal
  <2> QED
    BY <1>1, <2>2 DEF Charged
<1> QED
  BY <1>1, <1>2, <1>3

LEMMA FailingSteps ==
    /\ UNCHANGED handler => \A r \in Requests : Failing(r)' <=> Failing(r)
    /\ \A h \in Handlers, r \in Requests :
          /\ handler[h].req # r /\ handler'[h].req # r
          /\ \A g \in Handlers \ {h} : handler'[g] = handler[g]
          => (Failing(r)' => Failing(r))
    /\ \A h \in Handlers, r \in Requests :
          /\ handler'[h].pc \notin {"recordFailed", "tellFailed"}
          /\ \A g \in Handlers \ {h} : handler'[g] = handler[g]
          => (Failing(r)' => Failing(r))
  BY DEF Failing

\* As long as the tick does nothing, it will tell and expire as before.
LEMMA TickStandsStill ==
    ASSUME TypeOK, UNCHANGED reconcilerVars, NEW r \in Requests
    PROVE  /\ ~Expiring(r)' \/ Expiring(r)
           /\ rows'[r].status = rows[r].status => (WillTell(r) => WillTell(r)')
<1>1. /\ UNCHANGED <<tickPc, answer, expired>>
      /\ Current(r)' <=> Current(r)
  BY OutsideTick
<1>2. expired' <=> expired
  <2>1. expired' = expired
    BY <1>1
  <2> QED
    BY <2>1, Zenon
<1>3. ~Expiring(r)' \/ Expiring(r)
  BY <1>1, <1>2 DEF Expiring
<1>4. rows'[r].status = rows[r].status => (WillTell(r) => WillTell(r)')
  BY <1>1, <1>2 DEF WillTell
<1> QED
  BY <1>3, <1>4

\* What a handler does not touch, and that it takes its request from no hand.
LEMMA HandlerStepFacts ==
    ASSUME Base, NEW h \in Handlers, HandlerStep(h), NEW q \in Requests, q = handler[h].req
    PROVE  /\ \A g \in Handlers \ {h} : handler'[g] = handler[g]
           /\ handler'[h].req \in {q, NoRequest}
           /\ \A r \in Requests \ {q} : rows'[r] = rows[r] /\ told'[r] = told[r]
           /\ Owed \ Owed' \subseteq {q}
           /\ \A r \in Requests : told[r] \subseteq told'[r]
           /\ ~(TellFailed(h) \/ TellAck(h)) => Owed' = Owed
<1>1. /\ rows \in [Requests -> Row] /\ told \in [Requests -> SUBSET EventNames]
      /\ handler \in [Handlers -> Handler] /\ TypeOK
  BY DEF Base, TypeOK, StoreTypeOK, EnvTypeOK, ConsumerTypeOK
<1>2. \A pc \in HandlerPcs : MoveTo(h, pc) =>
         /\ handler'[h].req = q /\ \A g \in Handlers \ {h} : handler'[g] = handler[g]
         /\ UNCHANGED pending => Owed' = Owed
  BY MoveFacts, OwedFacts DEF Base, TypeOK
<1>3. /\ Release(h) => /\ handler'[h].req = NoRequest
                       /\ \A g \in Handlers \ {h} : handler'[g] = handler[g]
      /\ Nack(h) => Owed' = Owed
      /\ Ack(h) => Owed \ Owed' \subseteq {q}
  BY ReleaseFacts, OwedFacts DEF Base, TypeOK, Idle
<1>4. \A ext, status, err :
         UpsertForwardedRequest(q, ext, status, err) \/ UNCHANGED storeVars =>
            \A r \in Requests \ {q} : rows'[r] = rows[r]
  BY <1>1 DEF UpsertForwardedRequest, storeVars
<1>5. \A event : Publish(q, event) =>
            /\ \A r \in Requests \ {q} : told'[r] = told[r]
            /\ \A r \in Requests : told[r] \subseteq told'[r]
  BY <1>1 DEF Publish
<1>6. CASE RejectMissingMetadata(h)
  BY <1>2, <1>4, <1>6 DEF RejectMissingMetadata, HandlerPcs
<1>7. CASE AddMonitoring(h)
  <2>1. CASE MoveTo(h, "recordAck") \/ MoveTo(h, "recordFailed")
    BY <1>2, <1>4, <1>7, <2>1 DEF AddMonitoring, HandlerPcs
  <2>2. CASE \E j \in JobIds : handler' = [handler EXCEPT ![h].pc = "recordAck", ![h].job = j]
    <3>1. \A g \in Handlers : handler'[g].req = handler[g].req
      BY <1>1, <2>2 DEF Handler
    <3>2. \A g \in Handlers \ {h} : handler'[g] = handler[g]
      BY <1>1, <2>2
    <3>3. UNCHANGED <<pending, told, storeVars>>
      BY <1>7 DEF AddMonitoring
    <3>4. Owed' = Owed
      BY <3>1, <3>3 DEF Owed, InHand
    <3> QED
      BY <1>4, <3>1, <3>2, <3>3, <3>4
  <2> QED
    BY <1>7, <2>1, <2>2 DEF AddMonitoring
<1>8. CASE RecordFailed(h)
  BY <1>2, <1>3, <1>4, <1>8 DEF RecordFailed, Nack, HandlerPcs
<1>9. CASE RecordAck(h)
  BY <1>2, <1>3, <1>4, <1>9 DEF RecordAck, Nack, HandlerPcs
<1>10. CASE TellFailed(h) \/ TellAck(h)
  BY <1>3, <1>4, <1>5, <1>10 DEF TellFailed, TellAck, Ack
<1> QED
  BY <1>6, <1>7, <1>8, <1>9, <1>10 DEF HandlerStep

LEMMA ChargedHandlerStep ==
    ASSUME ChargeInv, UNCHANGED reconcilerVars, NEW h \in Handlers, HandlerStep(h)
    PROVE  ChargesOne(Charged, Charged')
<1>1. Base /\ TypeOK /\ RejectedOK
  BY DEF ChargeInv, TickInv, Base
<1>2. PICK q \in Requests : q = handler[h].req
  BY <1>1 DEF HandlerStep, RejectMissingMetadata, AddMonitoring, RecordFailed, RecordAck, TellFailed,
         TellAck, At, Base, BusyOK, TypeOK, ConsumerTypeOK, Handler
<1>3. /\ \A g \in Handlers \ {h} : handler'[g] = handler[g]
      /\ handler'[h].req \in {q, NoRequest}
      /\ \A r \in Requests \ {q} : rows'[r] = rows[r] /\ told'[r] = told[r]
      /\ Owed \ Owed' \subseteq {q}
      /\ \A r \in Requests : told[r] \subseteq told'[r]
      /\ ~(TellFailed(h) \/ TellAck(h)) => Owed' = Owed
  BY <1>1, <1>2, HandlerStepFacts
<1>4. ASSUME NEW r \in Charged', r # q PROVE r \in Charged
  <2>1. r \in Requests /\ r # NoRequest
    BY NoRequestAssumption DEF Charged
  <2>2. /\ Failing(r)' => Failing(r)
        /\ rows'[r].status = rows[r].status /\ told[r] \subseteq told'[r]
        /\ r \in Owed => r \in Owed'
    BY <1>2, <1>3, <1>4, <2>1, FailingSteps
  <2> QED
    BY <1>1, <2>1, <2>2, TickStandsStill, ChargedBefore
<1>5. /\ (q \in Charged' => q \in Charged) => ChargesOne(Charged, Charged')
      /\ \A kind : Disturb(kind) => ChargesOne(Charged, Charged')
  BY <1>4 DEF ChargesOne, Disturb
<1>6. ASSUME q \in Charged', handler'[h].pc \notin {"recordFailed", "tellFailed"},
             rows'[q].status \in Terminal => rows'[q].status = rows[q].status,
             q \in NoMetadata /\ q \in Owed => q \in Owed'
      PROVE  q \in Charged
  <2>1. Failing(q)' => Failing(q)
    BY <1>3, <1>6, FailingSteps
  <2>2. ~Expiring(q)' \/ Expiring(q)
    BY <1>1, TickStandsStill
  <2>3. CASE rows'[q].status = rows[q].status
    BY <1>1, <1>3, <1>6, <2>1, <2>2, <2>3, TickStandsStill, ChargedBefore
  <2>4. CASE rows'[q].status \notin Terminal
    <3>1. Failing(q)' \/ Expiring(q)'
      BY <1>6, <2>4 DEF Charged, Lapsed, IsTerminal
    <3> QED
      BY <2>1, <2>2, <3>1 DEF Charged
  <2> QED
    BY <1>6, <2>3, <2>4
\* A request that is rejected is still in hand, and will be told.
<1>7. CASE RejectMissingMetadata(h)
  <2>1. q \in NoMetadata /\ q \in Owed'
    BY <1>1, <1>2, <1>3, <1>7 DEF RejectMissingMetadata, RejectedOK, At, Owed, InHand, TellFailed, TellAck,
       Base, BusyOK
  <2>2. ~Failing(q)' /\ ~Lapsed(q)'
    BY <2>1 DEF Failing, Lapsed
  <2>3. q \in Charged' => q \in Charged
    BY <1>1, <2>2, TickStandsStill DEF Charged
  <2> QED
    BY <1>5, <2>3
<1>8. CASE AddMonitoring(h)
  <2>1. CASE \E j \in JobIds : handler' = [handler EXCEPT ![h].pc = "recordAck", ![h].job = j]
    <3>1. handler'[h].pc = "recordAck"
      BY <1>1, <2>1 DEF TypeOK, ConsumerTypeOK, Handler
    <3>2. UNCHANGED rows /\ (q \in Owed => q \in Owed')
      BY <1>3, <1>8 DEF AddMonitoring, storeVars, TellFailed, TellAck, At
    <3> QED
      BY <1>5, <1>6, <3>1, <3>2
  <2> QED
    BY <1>5, <1>8, <2>1 DEF AddMonitoring
<1>9. CASE RecordFailed(h) \/ (TellFailed(h) /\ q \notin NoMetadata)
  <2>1. q \notin NoMetadata /\ handler[h].pc \in {"recordFailed", "tellFailed"}
    BY <1>1, <1>2, <1>9 DEF RecordFailed, TellFailed, At, RejectedOK
  <2>2. q \in Charged
    BY <1>2, <2>1 DEF Charged, Failing
  <2> QED
    BY <1>5, <2>2
<1>10. CASE RecordAck(h)
  <2>1. CASE /\ MoveTo(h, "tellAck")
             /\ UpsertForwardedRequest(q, handler[h].job, "acknowledged", NoError)
    <3>1. handler'[h].pc = "tellAck"
      BY <1>1, <2>1, MoveFacts DEF TypeOK, HandlerPcs
    <3>2. rows'[q].status = TerminalGuard(rows[q].status, "acknowledged")
      BY <1>1, <2>1 DEF UpsertForwardedRequest, UpsertedRow, TypeOK, StoreTypeOK
    <3>3. rows'[q].status \in Terminal => rows'[q].status = rows[q].status
      BY <3>2 DEF TerminalGuard, Terminal
    <3>4. q \in Owed => q \in Owed'
      BY <1>3, <1>10 DEF RecordAck, TellFailed, TellAck, At
    <3> QED
      BY <1>5, <1>6, <3>1, <3>3, <3>4
  <2> QED
    BY <1>2, <1>5, <1>10, <2>1 DEF RecordAck
\* A rejection that is told is of the row the portal sees.
<1>11. CASE TellFailed(h) /\ q \in NoMetadata
  <2>1. CASE told' = [told EXCEPT ![q] = @ \cup {"request_failed"}]
    <3>1. "request_failed" \in told'[q]
      BY <1>1, <2>1 DEF TypeOK, EnvTypeOK
    <3>2. rows'[q].status \in {"absent", "submitted", "failed"}
      BY <1>1, <1>11 DEF RejectedOK, TellFailed, storeVars
    <3>3. ~Lapsed(q)'
      BY <3>1, <3>2 DEF Lapsed, IsTerminal, Terminal, EventFor
    <3>4. ~Failing(q)'
      BY <1>11 DEF Failing
    <3>5. q \in Charged' => q \in Charged
      BY <1>1, <3>3, <3>4, TickStandsStill DEF Charged
    <3> QED
      BY <1>5, <3>5
  <2> QED
    BY <1>2, <1>5, <1>11, <2>1 DEF TellFailed, Publish
<1>12. CASE TellAck(h)
  <2>1. q \notin NoMetadata /\ handler'[h].pc = "idle" /\ UNCHANGED rows
    BY <1>1, <1>2, <1>12, ReleaseFacts DEF TellAck, At, Ack, Idle, RejectedOK, TypeOK, storeVars
  <2> QED
    BY <1>5, <1>6, <2>1
<1> QED
  BY <1>7, <1>8, <1>9, <1>10, <1>11, <1>12 DEF HandlerStep

LEMMA ChargedReceive ==
    ASSUME ChargeInv, UNCHANGED reconcilerVars,
           NEW h \in Handlers, NEW q \in Requests, Receive(h, q)
    PROVE  Charged' \subseteq Charged
<1>1. Base /\ TypeOK
  BY DEF ChargeInv, TickInv, Base
<1>2. Owed' = Owed /\ UNCHANGED told
  BY <1>1, ReceiveOwed DEF Receive
<1>3. ASSUME NEW r \in Requests
      PROVE  rows'[r].status \in Terminal => rows'[r].status = rows[r].status
  <2>1. UNCHANGED rows \/ rows' = [rows EXCEPT ![q] = UpsertedRow(q, NoJob, "submitted", NoError)]
    BY DEF Receive, UpsertForwardedRequest, storeVars
  <2>2. UpsertedRow(q, NoJob, "submitted", NoError).status = TerminalGuard(rows[q].status, "submitted")
    BY DEF UpsertedRow
  <2>3. rows'[r].status \in {rows[r].status, TerminalGuard(rows[r].status, "submitted")}
    <3> HIDE DEF UpsertedRow
    <3> QED
      BY <1>1, <2>1, <2>2 DEF TypeOK, StoreTypeOK
  <2> QED
    BY <2>3 DEF TerminalGuard, Terminal
<1>4. ASSUME NEW r \in Requests PROVE Failing(r)' => Failing(r)
  <2>1. CASE UNCHANGED handler
    BY <2>1, FailingSteps
  <2>2. CASE handler' = [handler EXCEPT ![h] = [pc  |-> IF q \in NoMetadata THEN "reject" ELSE "add",
                                               req |-> q, job |-> NoJob]]
    <3>1. /\ handler'[h].pc \notin {"recordFailed", "tellFailed"}
          /\ \A g \in Handlers \ {h} : handler'[g] = handler[g]
      BY <1>1, <2>2 DEF TypeOK, ConsumerTypeOK
    <3> QED
      BY <3>1, FailingSteps
  <2> QED
    BY <2>1, <2>2 DEF Receive
<1>5. ASSUME NEW r \in Charged' PROVE r \in Charged
  <2>1. r \in Requests
    BY DEF Charged
  <2>2. CASE rows'[r].status = rows[r].status
    BY <1>1, <1>2, <1>4, <2>1, <2>2, TickStandsStill, ChargedBefore
  <2>3. CASE rows'[r].status \notin Terminal
    <3>1. Failing(r)' \/ Expiring(r)'
      BY <1>5, <2>3 DEF Charged, Lapsed, IsTerminal
    <3> QED
      BY <1>1, <1>4, <2>1, <3>1, TickStandsStill DEF Charged
  <2> QED
    BY <1>3, <2>1, <2>2, <2>3
<1> QED
  BY <1>5

\* A row the tick is not deciding, and whose outcome did not change, is as it was.
LEMMA ChargedElsewhere ==
    ASSUME NEW r \in Charged', Failing(r)' => Failing(r), ~Expiring(r)', ~WillTell(r),
           told[r] \subseteq told'[r],
           rows'[r].status \in Terminal => rows'[r].status = rows[r].status,
           r \in NoMetadata /\ r \in Owed => r \in Owed'
    PROVE  r \in Charged
  BY ChargedBefore

LEMMA ChargedTickStep ==
    ASSUME ChargeInv, TickStep, UNCHANGED handler
    PROVE  ChargesOne(Charged, Charged')
<1>1. TickInv /\ Base /\ TypeOK /\ TurnsOK
  BY DEF ChargeInv, TickInv, Base
<1>2. UNCHANGED pending
  BY DEF TickStep, TickBegin, TickFailsToList, TickParked, TickSkipped, TickTimeout,
         TickFinish, BackoffElapsed, Poll, RecordError, MarkPolledRow, PublishTransition, envVars
<1>3. Owed' = Owed /\ \A r \in Requests : Failing(r)' <=> Failing(r)
  BY <1>2, FailingSteps DEF Owed, InHand
<1>4. Charged' \subseteq Requests
  BY DEF Charged
<1>5. ASSUME NEW r \in Charged', ~Expiring(r)', ~WillTell(r), told[r] \subseteq told'[r],
             rows'[r].status \in Terminal => rows'[r].status = rows[r].status
      PROVE  r \in Charged
  BY <1>3, <1>4, <1>5, ChargedElsewhere
<1>6. /\ \A r \in Requests : WillTell(r) => tickPc = "publish" /\ Current(r)
      /\ \A r \in Requests : Expiring(r)' => /\ tickPc' \in {"mark", "publish"} /\ Current(r)'
                                             /\ expired'
  BY DEF WillTell, Expiring
<1>7. CASE TickBegin \/ TickFinish
  <2>1. tickPc # "publish" /\ tickPc' \notin {"mark", "publish"} /\ UNCHANGED <<rows, told>>
    BY <1>7, BetweenTicks
  <2>2. Charged' \subseteq Charged
    BY <1>4, <1>5, <1>6, <2>1
  <2> QED
    BY <2>2 DEF ChargesOne
<1>8. CASE Pause
  <2>1. /\ UNCHANGED <<tickPc, answer, rows, told>>
        /\ \A r \in Requests : Current(r)' <=> Current(r)
    BY <1>8, PauseFacts
  <2>2. CASE UNCHANGED expired
    <3>1. expired' <=> expired
      BY <2>2, Zenon
    <3>2. \A r \in Requests : (~Expiring(r)' \/ Expiring(r)) /\ (WillTell(r) => WillTell(r)')
      BY <2>1, <3>1 DEF Expiring, WillTell
    <3>3. \A r \in Charged' : r \in Charged
      BY <1>3, <1>4, <2>1, <3>2, ChargedBefore
    <3> QED
      BY <3>3 DEF ChargesOne
  <2>3. CASE TickTimeout
    <3>1. disturbances' = disturbances + 1
      BY <2>3 DEF TickTimeout, Disturb
    <3>2. \A r \in Charged' : r \in Charged \/ Current(r)
      BY <1>4, <1>5, <1>6, <2>1
    <3>3. CASE \E r \in Requests : Current(r)
      <4>1. PICK r \in Requests : Current(r)
        BY <3>3
      <4>2. Charged' \subseteq Charged \cup {r}
        BY <1>1, <1>4, <3>2, <4>1, OneCurrent
      <4> QED
        BY <3>1, <4>2 DEF ChargesOne
    <3>4. CASE ~\E r \in Requests : Current(r)
      <4>1. Charged' \subseteq Charged
        BY <1>4, <3>2, <3>4
      <4> QED
        BY <4>1 DEF ChargesOne
    <3> QED
      BY <3>3, <3>4
  <2> QED
    BY <1>8, <2>2, <2>3 DEF Pause, TickFailsToList, TickParked, TickSkipped, BackoffElapsed, tickVars
<1>9. ASSUME NEW r \in Requests, Poll(r) PROVE ChargesOne(Charged, Charged')
  <2>1. tickPc = "row" /\ expired = FALSE /\ UNCHANGED <<rows, told>>
    BY <1>1, <1>9, PollFacts DEF TypeOK, ReconcilerTypeOK
  <2>2. tickPc' \notin {"mark", "publish"} \/ UNCHANGED expired
    BY <1>1, <1>9, PollFacts
  <2>3. \A q \in Requests : ~Expiring(q)'
    BY <1>6, <2>1, <2>2
  <2>4. Charged' \subseteq Charged
    BY <1>4, <1>5, <1>6, <2>1, <2>3
  <2> QED
    BY <2>4 DEF ChargesOne
<1>10. ASSUME NEW r \in Requests, RecordError(r) PROVE ChargesOne(Charged, Charged')
  <2>1. tickPc = "record" /\ tickPc' = "row" /\ UNCHANGED told /\ r \in InBatch
    BY <1>1, <1>10, RecordErrorFacts
  <2>2. batch[r].status \notin Terminal
    BY <1>1, <2>1 DEF TickInv
  <2>3. \A q \in Requests : rows'[q].status \in Terminal => rows'[q].status = rows[q].status
    BY <1>1, <1>10, <2>2, RecordErrorFacts DEF TerminalGuard
  <2>4. Charged' \subseteq Charged
    BY <1>4, <1>5, <1>6, <2>1, <2>3
  <2> QED
    BY <2>4 DEF ChargesOne
<1>11. ASSUME NEW r \in Requests, MarkPolledRow(r) PROVE ChargesOne(Charged, Charged')
  <2>1. /\ tickPc = "mark" /\ Current(r) /\ r \in InBatch /\ UNCHANGED <<expired, told>>
        /\ \A q \in Requests \ {r} : rows'[q] = rows[q]
        /\ \A q \in Requests : tickPc' = "publish" /\ Current(q)' => Current(q)
        /\ tickPc' \in {"row", "publish"}
    BY <1>1, <1>11, MarkPolledRowFacts
  <2>2. ASSUME NEW q \in Charged', q # r PROVE q \in Charged
    <3>1. q \in Requests /\ ~Current(q)
      BY <1>1, <1>4, <2>1, <2>2, OneCurrent
    <3> QED
      BY <1>5, <1>6, <2>1, <2>2, <3>1
  <2>3. r \in Charged' => r \in Charged
    <3>1. CASE expired
      <4>1. Expiring(r)
        BY <2>1, <3>1 DEF Expiring
      <4> QED
        BY <4>1 DEF Charged
    <3>2. CASE expired = FALSE
      <4>1. expired' = FALSE
        BY <2>1, <3>2
      <4>2. CASE rows'[r].status \in Terminal => rows'[r].status = rows[r].status
        BY <1>5, <1>6, <2>1, <4>1, <4>2
      <4>3. CASE rows'[r].status \in Terminal /\ rows'[r].status # rows[r].status
        <5>1. rows'[r].status = MarkedStatus(r)
          BY <1>1, <1>11, <4>3, MarkPolledRowFacts DEF TerminalGuard
        <5>2. MarkedStatus(r) # batch[r].status
          BY <1>1, <2>1, <4>3, <5>1 DEF TickInv
        <5>3. tickPc' = "publish" /\ Current(r)' /\ answer' = rows'[r].status
          BY <1>1, <1>11, <2>1, <5>1, <5>2, MarkPolledRowFacts
        <5>4. WillTell(r)' /\ ~Expiring(r)'
          BY <1>6, <4>1, <5>3 DEF WillTell
        <5>5. Failing(r)' => Failing(r)
          BY <1>3
        <5> QED
          BY <5>4, <5>5 DEF Charged, Lapsed
      <4> QED
        BY <4>2, <4>3
    <3> QED
      BY <1>1, <3>1, <3>2 DEF TypeOK, ReconcilerTypeOK
  <2>4. Charged' \subseteq Charged
    BY <2>2, <2>3
  <2> QED
    BY <2>4 DEF ChargesOne
<1>12. ASSUME NEW r \in Requests, PublishTransition(r) PROVE ChargesOne(Charged, Charged')
  <2>1. /\ tickPc = "publish" /\ Current(r) /\ tickPc' = "row" /\ UNCHANGED rows
        /\ \A q \in Requests \ {r} : told'[q] = told[q]
        /\ told[r] \subseteq told'[r]
    BY <1>1, <1>12, PublishFacts
  <2>2. ASSUME NEW q \in Charged', q # r PROVE q \in Charged
    <3>1. q \in Requests /\ ~Current(q)
      BY <1>1, <1>4, <2>1, <2>2, OneCurrent
    <3> QED
      BY <1>5, <1>6, <2>1, <2>2, <3>1
  <2>3. ASSUME expired \/ EventFor(answer) \in told'[r], r \in Charged' PROVE r \in Charged
    <3>1. CASE expired
      <4>1. Expiring(r)
        BY <2>1, <3>1 DEF Expiring
      <4> QED
        BY <4>1 DEF Charged
    <3>2. CASE EventFor(answer) \in told'[r]
      <4>1. CASE ~WillTell(r)
        BY <1>5, <1>6, <2>1, <2>3, <4>1
      <4>2. CASE WillTell(r)
        <5>1. ~Lapsed(r)' /\ ~Expiring(r)'
          BY <1>6, <2>1, <3>2, <4>2 DEF WillTell, Lapsed
        <5> QED
          BY <1>3, <2>3, <5>1 DEF Charged
      <4> QED
        BY <4>1, <4>2
    <3> QED
      BY <2>3, <3>1, <3>2
  <2>4. CASE expired \/ EventFor(answer) \in told'[r]
    BY <2>2, <2>3, <2>4 DEF ChargesOne
  <2>5. CASE Disturb("publish")
    BY <2>2, <2>5 DEF ChargesOne, Disturb
  <2>6. expired \/ EventFor(answer) \in told'[r] \/ Disturb("publish")
    <3>1. ~expired => (told'[r] = told[r] \cup {EventFor(answer)} \/ Disturb("publish"))
      BY <1>1, <1>12, PublishFacts
    <3> QED
      BY <3>1
  <2> QED
    BY <2>4, <2>5, <2>6
<1> QED
  BY <1>7, <1>8, <1>9, <1>10, <1>11, <1>12 DEF TickStep, Pause

LEMMA ChargedNext ==
    ASSUME ChargeInv, [Next]_vars
    PROVE  ChargesOne(Charged, Charged')
<1>1. TickInv /\ Base /\ TypeOK /\ TurnsOK
  BY DEF ChargeInv, TickInv, Base
<1>2. Charged' \subseteq Requests
  BY DEF Charged
<1>3. CASE ConsumerStep /\ UNCHANGED reconcilerVars
  BY <1>3, ChargedHandlerStep, ChargedReceive DEF ConsumerStep, ChargesOne
<1>4. CASE TickStep /\ UNCHANGED handler
  BY <1>4, ChargedTickStep
<1>5. ASSUME UNCHANGED <<rows, told, handler, reconcilerVars>>, pending \subseteq pending'
      PROVE  ChargesOne(Charged, Charged')
  <2>1. \A r \in Requests : Failing(r)' => Failing(r)
    BY <1>5, FailingSteps
  <2>2. \A r \in Requests : r \in Owed => r \in Owed'
    BY <1>5 DEF Owed, InHand
  <2>3. \A r \in Requests : (~Expiring(r)' \/ Expiring(r)) /\ (WillTell(r) => WillTell(r)')
    BY <1>1, <1>5, TickStandsStill
  <2>4. \A r \in Charged' : r \in Charged
    BY <1>2, <1>5, <2>1, <2>2, <2>3, ChargedBefore
  <2> QED
    BY <2>4 DEF ChargesOne
<1>6. CASE (HostStep \/ UpstreamStep) /\ UNCHANGED <<handler, reconcilerVars>>
  <2>1. pending \subseteq pending' /\ UNCHANGED <<rows, told>>
    BY <1>6 DEF HostStep, UpstreamStep, Redeliver, UpstreamProgress, storeVars
  <2> QED
    BY <1>5, <1>6, <2>1
<1>7. CASE UNCHANGED vars
  BY <1>5, <1>7 DEF vars, storeVars, envVars
<1>8. CASE AdminStep
  <2>1. /\ UNCHANGED <<pending, told, handler, reconcilerVars>>
        /\ disturbances' = disturbances + 1
    BY <1>1, <1>8, AdminRows
  <2>2. PICK q \in Requests : \A r \in Requests \ {q} : rows'[r] = rows[r]
    BY <1>1, <1>8, AdminRows
  <2>3. Owed' = Owed /\ \A r \in Requests : Failing(r)' => Failing(r)
    BY <2>1, FailingSteps DEF Owed, InHand
  <2>4. ASSUME NEW r \in Charged', r # q PROVE r \in Charged
    <3>1. r \in Requests /\ rows'[r].status = rows[r].status
      BY <1>2, <2>2, <2>4
    <3>2. (~Expiring(r)' \/ Expiring(r)) /\ (WillTell(r) => WillTell(r)')
      BY <1>1, <2>1, <3>1, TickStandsStill
    <3> QED
      BY <2>1, <2>3, <3>1, <3>2, ChargedBefore
  <2>5. Charged' \subseteq Charged \cup {q}
    BY <2>4
  <2> QED
    BY <2>1, <2>5 DEF ChargesOne
<1>9. CASE Crash
  <2>1. /\ disturbances' = disturbances + 1 /\ tickPc' = "idle"
        /\ UNCHANGED <<rows, told>> /\ pending' = pending \cup InHand
        /\ \A h \in Handlers : handler'[h].pc = "idle"
    BY <1>9 DEF Crash, Disturb, storeVars, Idle
  <2>2. \A r \in Requests : ~Failing(r)' /\ ~Expiring(r)' /\ (r \in Owed => r \in Owed')
    BY <2>1 DEF Failing, Expiring, Owed
  <2>3. ASSUME NEW r \in Charged', ~Current(r) PROVE r \in Charged
    <3>1. r \in Requests /\ ~WillTell(r)
      BY <1>2, <2>3 DEF WillTell
    <3> QED
      BY <2>1, <2>2, <2>3, <3>1, ChargedElsewhere
  <2>4. CASE \E r \in Requests : Current(r)
    <3>1. PICK r \in Requests : Current(r)
      BY <2>4
    <3>2. Charged' \subseteq Charged \cup {r}
      BY <1>1, <1>2, <2>3, <3>1, OneCurrent
    <3> QED
      BY <2>1, <3>2 DEF ChargesOne
  <2>5. CASE ~\E r \in Requests : Current(r)
    BY <1>2, <2>3, <2>5 DEF ChargesOne
  <2> QED
    BY <2>4, <2>5
<1> QED
  BY <1>3, <1>4, <1>6, <1>7, <1>8, <1>9 DEF Next

ChargedInv == ChargeInv /\ Cardinality(Charged) <= disturbances

\* Nothing repeats a lost announcement, and each misfortune or operator's act
\* loses one at most: a handler that fails, a tick that runs out of time, a
\* crash in the middle of both (reconciler.go:255-275, consumer/handler.go:119-132).
THEOREM LossesAreCountedHolds == Spec => []LossesAreCounted
<1>1. Init => ChargedInv
  <2> SUFFICES ASSUME Init PROVE ChargedInv
    OBVIOUS
  <2>1. /\ tickPc = "idle" /\ disturbances = 0
        /\ \A r \in Requests : rows[r] = AbsentRow
        /\ \A h \in Handlers : handler[h] = Idle
    BY DEF Init, ReconcilerInit, NoTick, EnvInit, StoreInit, ConsumerInit
  <2>2. RejectedOK
    BY <2>1, NoMetadataAssumption, NoRequestAssumption DEF RejectedOK, AbsentRow, Idle, Tracked
  <2>3. Charged = {}
    BY <2>1 DEF Charged, Failing, Expiring, Lapsed, Idle, AbsentRow, IsTerminal, Terminal
  <2> QED
    BY <2>1, <2>2, <2>3, TickInvInit, FS_EmptySet DEF ChargedInv, ChargeInv
<1>2. ChargedInv /\ [Next]_vars => ChargedInv'
  <2> SUFFICES ASSUME ChargedInv, [Next]_vars PROVE ChargedInv'
    OBVIOUS
  <2>1. Charged \subseteq Requests /\ EnvTypeOK
    BY DEF Charged, ChargedInv, ChargeInv, TickInv, Base, TypeOK
  <2> QED
    BY <2>1, ChargeInvNext, ChargedNext, DisturbanceSteps, ChargeCount DEF ChargedInv
<1>3. ChargedInv => LossesAreCounted
  <2> SUFFICES ASSUME ChargedInv PROVE Cardinality(Untold) <= disturbances
    BY DEF LossesAreCounted
  <2>1. /\ Charged \subseteq Requests /\ disturbances \in Nat
        /\ Cardinality(Charged) <= disturbances
    BY DEF Charged, ChargedInv, ChargeInv, TickInv, Base, TypeOK, EnvTypeOK
  <2>2. ASSUME NEW r \in Untold PROVE r \in Charged
    <3>1. /\ r \in Requests /\ IsTerminal(r) /\ r \notin NoMetadata \cap Owed
          /\ ~(tickPc = "publish" /\ Current(r))
          /\ (IF rows[r].status = "imported" THEN "request_fulfilled"
                                             ELSE "request_failed") \notin told[r]
      BY DEF Untold
    <3>2. EventFor(rows[r].status) = IF rows[r].status = "imported" THEN "request_fulfilled"
                                                                    ELSE "request_failed"
      BY <3>1 DEF EventFor, IsTerminal, Terminal
    <3>3. Lapsed(r)
      BY <3>1, <3>2 DEF Lapsed, WillTell
    <3> QED
      BY <3>1, <3>3 DEF Charged
  <2>3. Untold \subseteq Charged
    BY <2>2
  <2> HIDE DEF Untold, Charged
  <2> QED
    BY <2>1, <2>3, SmallerCount
<1> QED
  BY <1>1, <1>2, <1>3, PTL DEF Spec
=============================================================================
