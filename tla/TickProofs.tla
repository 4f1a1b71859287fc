----------------------------- MODULE TickProofs -----------------------------
(***************************************************************************)
(* What a tick does to the rows it polls, proved for any number of         *)
(* requests, jobs and handlers and for disturbances of every kind.         *)
(*                                                                         *)
(* A tick works on a snapshot while the table changes under it.  All that  *)
(* follows rests on two facts: there is one current row at a time, since   *)
(* the poll order puts the open rows in a sequence (TurnsOK), and what the *)
(* tick remembers of that row is still true of it in the respect that      *)
(* matters (one invariant for each property).                              *)
(***************************************************************************)
EXTENDS RequestPipelineProofs

-----------------------------------------------------------------------------
(* The poll order.                                                          *)

\* A total order on the rows that have been stamped
OrderOK(order) ==
    /\ order \subseteq Requests \X Requests
    /\ \A q, r \in Requests : <<q, r>> \in order => q \in Stamped(order) /\ r \in Stamped(order)
    /\ \A q, r \in Requests : <<q, r>> \in order /\ <<r, q>> \in order => q = r
    /\ \A p, q, r \in Requests : <<p, q>> \in order /\ <<q, r>> \in order => <<p, r>> \in order
    /\ \A q, r \in Stamped(order) : <<q, r>> \in order \/ <<r, q>> \in order

LEMMA UnstampedOrder ==
    ASSUME NEW order, OrderOK(order), NEW s \in Requests
    PROVE  OrderOK(WithoutStamp(order, s))
<1> DEFINE rest == WithoutStamp(order, s)
<1>1. \A q, r \in Requests : <<q, r>> \in rest <=> <<q, r>> \in order /\ q # s /\ r # s
  BY DEF WithoutStamp
<1>2. \A q \in Requests : q \in Stamped(rest) <=> q \in Stamped(order) /\ q # s
  BY <1>1 DEF Stamped
<1>3. rest \subseteq Requests \X Requests /\ Stamped(rest) \subseteq Requests
  BY DEF WithoutStamp, OrderOK, Stamped
<1>4. Stamped(order) \subseteq Requests
  BY DEF Stamped
<1> HIDE DEF rest
<1>5. OrderOK(rest)
  BY <1>1, <1>2, <1>3, <1>4 DEF OrderOK
<1> QED
  BY <1>5 DEF rest

\* The row that is polled becomes the last of the stamped rows.
LEMMA StampedOrder ==
    ASSUME NEW order, OrderOK(order), NEW s \in Requests
    PROVE  OrderOK(Stamp(order, s))
<1> DEFINE next == Stamp(order, s)
<1>1. \A q, r \in Requests :
         <<q, r>> \in next <=> \/ <<q, r>> \in order /\ q # s /\ r # s
                               \/ r = s /\ (q \in Stamped(order) \/ q = s)
  BY DEF Stamp, WithoutStamp, Stamped
<1>2. \A q \in Requests : q \in Stamped(next) <=> q \in Stamped(order) \/ q = s
  BY <1>1 DEF Stamped
<1>3. next \subseteq Requests \X Requests /\ Stamped(next) \subseteq Requests
  BY StampType DEF OrderOK, Stamped
<1>4. Stamped(order) \subseteq Requests
  BY DEF Stamped
<1> HIDE DEF next
<1>5. OrderOK(next)
  BY <1>1, <1>2, <1>3, <1>4 DEF OrderOK
<1> QED
  BY <1>5 DEF next

\* ListNonTerminal puts the rows in a sequence.
LEMMA BeforeIsOrder ==
    ASSUME OrderOK(pollOrder)
    PROVE  /\ \A r \in Requests : ~Before(r, r)
           /\ \A p, q, r \in Requests : Before(p, q) /\ Before(q, r) => Before(p, r)
           /\ \A q, r \in Requests : q # r => Before(q, r) \/ Before(r, q)
<1>1. \A q, r \in Requests : q \in Nat /\ (q # r => q < r \/ r < q)
  BY RequestsAssumption
<1> QED
  BY <1>1 DEF OrderOK, Before

LEMMA PositionsDiffer ==
    ASSUME OrderOK(pollOrder), NEW q \in NonTerminal, NEW r \in NonTerminal, Before(q, r)
    PROVE  PollPosition(q) < PollPosition(r)
<1> DEFINE ahead(p) == {o \in NonTerminal : Before(o, p)}
<1>1. NonTerminal \subseteq Requests
  BY DEF NonTerminal
<1>2. ahead(q) \subseteq ahead(r)
  BY <1>1, BeforeIsOrder
<1>3. q \in ahead(r) /\ q \notin ahead(q)
  BY <1>1, BeforeIsOrder
<1>4. IsFiniteSet(ahead(r))
  BY <1>1, RequestsAssumption, FS_Subset
<1>5. ahead(q) \in SUBSET ahead(r) /\ ahead(q) # ahead(r)
  BY <1>2, <1>3
<1>6. /\ IsFiniteSet(ahead(q)) /\ Cardinality(ahead(q)) <= Cardinality(ahead(r))
      /\ Cardinality(ahead(q)) # Cardinality(ahead(r))
  <2> HIDE DEF ahead
  <2> QED
    BY <1>4, <1>5, FS_Subset
<1>7. Cardinality(ahead(q)) \in Nat /\ Cardinality(ahead(r)) \in Nat
  BY <1>4, <1>6, FS_CardinalityType
<1> QED
  BY <1>6, <1>7 DEF PollPosition

-----------------------------------------------------------------------------
(* One current row at a time.                                               *)

\* The poll order is an order, and the rows of the batch have different turns.
TurnsOK ==
    /\ OrderOK(pollOrder)
    /\ \A q, r \in InBatch : batch[q].pos = batch[r].pos => q = r

LEMMA OneCurrent ==
    ASSUME TypeOK, TurnsOK,
           NEW q \in Requests, NEW r \in Requests, Current(q), Current(r)
    PROVE  q = r
<1>1. batch[q].pos \in Nat /\ batch[r].pos \in Nat
  BY DEF TypeOK, ReconcilerTypeOK, BatchRow
<1>2. batch[q].pos <= batch[r].pos /\ batch[r].pos <= batch[q].pos
  BY DEF Current
<1> QED
  BY <1>1, <1>2 DEF TurnsOK, Current

LEMMA NextRowFacts ==
    ASSUME TypeOK, NEW r \in Requests, NextRow(r)
    PROVE  /\ tickPc' = "row" /\ answer' = NoAnswer
           /\ InBatch' = InBatch \ {r}
           /\ \A q \in Requests \ {r} : batch'[q] = batch[q]
<1>1. batch' = [batch EXCEPT ![r] = NoRow] /\ batch \in [Requests -> BatchRow]
  BY DEF NextRow, TypeOK, ReconcilerTypeOK
<1>2. batch'[r].pos = 0 /\ \A q \in Requests \ {r} : batch'[q] = batch[q]
  BY <1>1 DEF NoRow
<1> QED
  BY <1>2 DEF NextRow, InBatch

LEMMA BreakLoopFacts ==
    ASSUME BreakLoop
    PROVE  tickPc' = "row" /\ answer' = NoAnswer /\ InBatch' = {}
  BY DEF BreakLoop, InBatch, NoRow

\* After its start a tick only takes rows out of its batch.
LEMMA BatchSteps ==
    ASSUME Base, [Next]_vars
    PROVE  \/ TickBegin
           \/ InBatch' \subseteq InBatch /\ \A q \in InBatch' : batch'[q] = batch[q]
<1> DEFINE Shrinks == InBatch' \subseteq InBatch /\ \A q \in InBatch' : batch'[q] = batch[q]
<1>1. UNCHANGED batch => Shrinks
  BY DEF InBatch
<1>2. ASSUME NEW r \in Requests, NextRow(r) PROVE Shrinks
  BY <1>2, NextRowFacts DEF Base, InBatch
<1>3. BreakLoop => Shrinks
  BY BreakLoopFacts
<1>4. batch' = [r \in Requests |-> NoRow] => Shrinks
  BY DEF InBatch, NoRow
<1>5. CASE UNCHANGED reconcilerVars \/ UNCHANGED vars
  BY <1>1, <1>5 DEF vars, reconcilerVars, tickVars
<1>6. CASE TickStep
  <2>1. CASE \E r \in Requests : PublishTransition(r) \/ RecordError(r) \/ MarkPolledRow(r)
    BY <1>1, <1>2, <1>3, <2>1 DEF PublishTransition, RecordError, MarkPolledRow
  <2>2. CASE \E r \in Requests : Poll(r)
    BY <1>1, <1>2, <1>3, <2>2 DEF Poll, PollSucceeds, PollFails, PollRateLimited
  <2>3. CASE TickFinish
    BY <1>4, <2>3 DEF TickFinish
  <2>4. CASE TickFailsToList \/ TickParked \/ TickSkipped \/ TickTimeout \/ BackoffElapsed
    BY <1>1, <2>4 DEF TickFailsToList, TickParked, TickSkipped, TickTimeout, BackoffElapsed,
                      tickVars
  <2> QED
    BY <1>6, <2>1, <2>2, <2>3, <2>4 DEF TickStep
<1>7. CASE AdminStep
  BY <1>5, <1>7 DEF AdminStep, AdminRetry, AdminMarkFailed
<1>8. CASE Crash
  BY <1>4, <1>8 DEF Crash
<1> QED
  BY <1>5, <1>6, <1>7, <1>8 DEF Next

LEMMA OrderSteps ==
    ASSUME OrderOK(pollOrder), [Next]_vars
    PROVE  OrderOK(pollOrder')
<1>1. \/ UNCHANGED pollOrder
      \/ \E r \in Requests : pollOrder' = Stamp(pollOrder, r)
      \/ \E r \in Requests : pollOrder' = WithoutStamp(pollOrder, r)
  <2>1. CASE ConsumerStep
    BY <2>1 DEF ConsumerStep, Receive, HandlerStep, RejectMissingMetadata, AddMonitoring,
                RecordFailed, RecordAck, TellFailed, TellAck, UpsertForwardedRequest, storeVars
  <2>2. CASE TickStep
    <3>1. ASSUME NEW r \in Requests, RecordError(r) \/ MarkPolledRow(r)
          PROVE  UNCHANGED pollOrder \/ pollOrder' = Stamp(pollOrder, r)
      BY <3>1 DEF RecordError, MarkPolledRow, Succeeds, Fails, UpsertPolled, MarkPolled, storeVars
    <3>2. CASE \/ TickBegin \/ TickFailsToList \/ TickParked \/ TickSkipped
               \/ TickTimeout \/ TickFinish \/ BackoffElapsed
               \/ \E r \in Requests : Poll(r) \/ PublishTransition(r)
      BY <3>2 DEF TickBegin, TickFailsToList, TickParked, TickSkipped, TickTimeout, TickFinish,
                  BackoffElapsed, Poll, PublishTransition, storeVars
    <3> QED
      BY <2>2, <3>1, <3>2 DEF TickStep
  <2>3. CASE HostStep \/ UpstreamStep \/ Crash \/ UNCHANGED vars
    BY <2>3 DEF HostStep, UpstreamStep, Crash, Redeliver, UpstreamProgress, storeVars, vars
  <2>4. CASE AdminStep
    BY <2>4 DEF AdminStep, AdminRetry, AdminMarkFailed, RetryRequest, MarkFailedManually
  <2> QED
    BY <2>1, <2>2, <2>3, <2>4 DEF Next
<1> QED
  BY <1>1, StampedOrder, UnstampedOrder

\* The rows of a new batch have the positions of the list.
LEMMA NewTurns ==
    ASSUME TypeOK, OrderOK(pollOrder), TickBegin,
           NEW q \in InBatch', NEW r \in InBatch', batch'[q].pos = batch'[r].pos
    PROVE  q = r
<1>1. \A s \in InBatch' : s \in NonTerminal /\ batch'[s].pos = PollPosition(s)
  <2>1. SUFFICES ASSUME NEW s \in Requests, batch'[s].pos > 0
                 PROVE  s \in NonTerminal /\ batch'[s].pos = PollPosition(s)
    BY DEF InBatch
  <2>2. batch'[s] = IF s \in ListNonTerminal /\ Tracked(s)
                    THEN [status |-> rows[s].status, ext |-> rows[s].ext,
                          pos |-> PollPosition(s)]
                    ELSE NoRow
    BY DEF TickBegin
  <2>3. s \in ListNonTerminal
    BY <2>1, <2>2 DEF NoRow
  <2> QED
    BY <2>1, <2>2, <2>3 DEF ListNonTerminal, NoRow
<1>2. q \in Requests /\ r \in Requests /\ PollPosition(q) \in Nat /\ PollPosition(r) \in Nat
  BY PollPositionType DEF InBatch
<1>3. PollPosition(q) = PollPosition(r)
  BY <1>1
<1>4. ~Before(q, r) /\ ~Before(r, q)
  BY <1>1, <1>2, <1>3, PositionsDiffer
<1> QED
  BY <1>2, <1>4, BeforeIsOrder

\* The tick on its snapshot, whatever happens to the table meanwhile.
TickInv == Base /\ TurnsOK /\ \A r \in InBatch : batch[r].status \notin Terminal

LEMMA TickInvInit == Init => TickInv
<1> SUFFICES ASSUME Init PROVE TickInv
  OBVIOUS
<1>1. OrderOK(pollOrder)
  BY DEF Init, StoreInit, OrderOK, Stamped
<1>2. InBatch = {}
  BY DEF Init, ReconcilerInit, NoTick, NoRow, InBatch
<1> QED
  BY <1>1, <1>2, BaseInit DEF TickInv, TurnsOK

LEMMA TickInvNext == TickInv /\ [Next]_vars => TickInv' /\ RowsKept
<1> SUFFICES ASSUME TickInv, [Next]_vars PROVE TickInv' /\ RowsKept
  OBVIOUS
<1> USE DEF TickInv
<1>1. Base' /\ RowsKept
  BY BaseNext
<1>2. OrderOK(pollOrder')
  BY OrderSteps DEF TurnsOK
<1>3. CASE InBatch' \subseteq InBatch /\ \A q \in InBatch' : batch'[q] = batch[q]
  BY <1>1, <1>2, <1>3 DEF TurnsOK
<1>4. CASE TickBegin
  <2>1. \A q, r \in InBatch' : batch'[q].pos = batch'[r].pos => q = r
    BY <1>4, NewTurns DEF Base, TurnsOK
  <2>2. \A r \in InBatch' : batch'[r].status \notin Terminal
    <3>1. SUFFICES ASSUME NEW r \in Requests, batch'[r].pos > 0
                   PROVE  batch'[r].status \notin Terminal
      BY DEF InBatch
    <3>2. batch'[r] = IF r \in ListNonTerminal /\ Tracked(r)
                      THEN [status |-> rows[r].status, ext |-> rows[r].ext,
                            pos |-> PollPosition(r)]
                      ELSE NoRow
      BY <1>4 DEF TickBegin
    <3>3. r \in ListNonTerminal /\ Tracked(r)
      BY <3>1, <3>2 DEF NoRow
    <3> QED
      BY <3>2, <3>3 DEF ListNonTerminal, NonTerminal, IsTerminal
  <2> QED
    BY <1>1, <1>2, <2>1, <2>2 DEF TurnsOK
<1> QED
  BY <1>3, <1>4, BatchSteps

-----------------------------------------------------------------------------
(* What the steps of the tick do, as the proofs below need it.              *)

\* The steps that leave the batch alone, and the table and the portal too
Pause == TickFailsToList \/ TickParked \/ TickSkipped \/ TickTimeout \/ BackoffElapsed

LEMMA PauseFacts ==
    ASSUME Pause
    PROVE  /\ UNCHANGED <<tickPc, batch, answer, lastError, rows, pollOrder, told, jobs>>
           /\ \A r \in Requests : Current(r)' <=> Current(r)
<1>1. UNCHANGED <<tickPc, batch, answer, lastError, rows, pollOrder, told, jobs>>
  BY DEF Pause, TickFailsToList, TickParked, TickSkipped, TickTimeout, BackoffElapsed,
         tickVars, storeVars, envVars
<1> QED
  BY <1>1 DEF Current, InBatch

LEMMA OutsideTick ==
    ASSUME UNCHANGED reconcilerVars
    PROVE  /\ UNCHANGED <<tickPc, batch, answer, expired, lastError>>
           /\ InBatch' = InBatch
           /\ \A r \in Requests : Current(r)' <=> Current(r)
  BY DEF reconcilerVars, tickVars, Current, InBatch

\* The steps between two ticks
LEMMA BetweenTicks ==
    ASSUME TickBegin \/ TickFinish \/ Crash
    PROVE  /\ tickPc' \in {"row", "idle"} /\ UNCHANGED <<rows, told, jobs>>
           /\ TickFinish => tickPc = "row" /\ UNCHANGED lastError
           /\ TickBegin => tickPc = "idle" /\ UNCHANGED <<lastError, expired>>
           /\ TickFinish \/ Crash => InBatch' = {}
  BY DEF TickBegin, TickFinish, Crash, storeVars, envVars, InBatch, NoRow

\* The four steps on one row
LEMMA PollFacts ==
    ASSUME Base, NEW r \in Requests, Poll(r)
    PROVE  /\ tickPc = "row" /\ ~expired /\ Current(r)
           /\ UNCHANGED <<rows, pollOrder, pending, told, jobs>>
           /\ \A q \in Requests \ {r} : lastError'[q] = lastError[q]
           /\ \/ /\ tickPc' = "row" /\ answer' = NoAnswer
                 /\ InBatch' \subseteq InBatch
                 /\ lastError'[r] = lastError[r] /\ lastError[r] \in PollErrors
              \/ /\ tickPc' = "record" /\ answer' \in PollErrors
                 /\ lastError'[r] = answer' /\ UNCHANGED batch
                 /\ expired' => Disturb("timeout")
              \/ /\ tickPc' = "mark" /\ answer' = TranslateStatus(jobs[batch[r].ext].status)
                 /\ lastError'[r] = NoError /\ UNCHANGED <<batch, expired>>
<1>1. /\ tickPc = "row" /\ ~expired /\ Current(r)
      /\ UNCHANGED <<rows, pollOrder, pending, told, jobs>>
  BY DEF Poll, storeVars
<1>2. lastError \in [Requests -> PollErrors \cup {NoError}]
  BY DEF Base, TypeOK, ReconcilerTypeOK
<1>3. {"gone", "unreachable", "rate limited"} \subseteq PollErrors
  BY DEF PollErrors
<1>4. NextRow(r) \/ BreakLoop => tickPc' = "row" /\ answer' = NoAnswer /\ InBatch' \subseteq InBatch
  BY NextRowFacts, BreakLoopFacts DEF Base
<1>5. ASSUME NEW text \in PollErrors, lastError' = [lastError EXCEPT ![r] = text]
      PROVE  /\ lastError'[r] = text
             /\ \A q \in Requests \ {r} : lastError'[q] = lastError[q]
  BY <1>2, <1>5
<1>6. ASSUME NEW text \in PollErrors, PollFails(r, text) \/ (PollRateLimited(r) /\ text = "rate limited"),
             expired' => Disturb("timeout")
      PROVE  /\ \A q \in Requests \ {r} : lastError'[q] = lastError[q]
             /\ \/ /\ tickPc' = "row" /\ answer' = NoAnswer
                   /\ InBatch' \subseteq InBatch
                   /\ lastError'[r] = lastError[r] /\ lastError[r] \in PollErrors
                \/ /\ tickPc' = "record" /\ answer' \in PollErrors
                   /\ lastError'[r] = answer' /\ UNCHANGED batch
                   /\ expired' => Disturb("timeout")
  <2>1. lastError' = [lastError EXCEPT ![r] = text]
    BY <1>6 DEF PollFails, PollRateLimited
  <2>2. CASE lastError[r] = text
    BY <1>4, <1>5, <1>6, <2>1, <2>2 DEF PollFails, PollRateLimited
  <2>3. CASE lastError[r] # text
    BY <1>5, <1>6, <2>1, <2>3 DEF PollFails, PollRateLimited
  <2> QED
    BY <2>2, <2>3
<1>7. CASE PollSucceeds(r)
  BY <1>1, <1>2, <1>7 DEF PollSucceeds
<1>8. CASE PollRateLimited(r)
  <2>1. ~expired'
    BY <1>1, <1>8 DEF PollRateLimited
  <2> QED
    BY <1>1, <1>3, <1>6, <1>8, <2>1
<1>9. CASE \E text \in PollErrors : PollFails(r, text) /\ (expired' => Disturb("timeout"))
  BY <1>1, <1>6, <1>9
<1>10. \/ PollSucceeds(r) \/ PollRateLimited(r)
       \/ \E text \in PollErrors : PollFails(r, text) /\ (expired' => Disturb("timeout"))
  <2>1. \/ PollSucceeds(r) \/ PollRateLimited(r)
        \/ PollFails(r, "gone") /\ UNCHANGED expired
        \/ PollFails(r, "unreachable") /\ UNCHANGED expired
        \/ PollFails(r, "unreachable") /\ Disturb("timeout")
    BY DEF Poll
  <2>2. UNCHANGED expired => ~expired'
    <3>1. expired = FALSE
      BY <1>1 DEF Base, TypeOK, ReconcilerTypeOK
    <3> QED
      BY <3>1
  <2>3. PollFails(r, "gone") /\ ~expired' =>
           \E text \in PollErrors : PollFails(r, text) /\ (expired' => Disturb("timeout"))
    BY <1>3, Zenon
  <2>4. PollFails(r, "unreachable") /\ (expired' => Disturb("timeout")) =>
           \E text \in PollErrors : PollFails(r, text) /\ (expired' => Disturb("timeout"))
    BY <1>3
  <2> QED
    BY <2>1, <2>2, <2>3, <2>4, Zenon
<1> QED
  BY <1>7, <1>8, <1>9, <1>10

LEMMA RecordErrorFacts ==
    ASSUME TickInv, NEW r \in Requests, RecordError(r)
    PROVE  /\ tickPc = "record" /\ Current(r) /\ r \in InBatch /\ answer \in PollErrors
           /\ UNCHANGED <<expired, lastError, pending, told, jobs>>
           /\ tickPc' = "row" /\ InBatch' \subseteq InBatch \ {r}
           /\ \A q \in Requests \ {r} : rows'[q] = rows[q]
           /\ rows'[r].ext \in {rows[r].ext, batch[r].ext}
           /\ \/ UNCHANGED rows
              \/ /\ rows'[r].status = TerminalGuard(rows[r].status, batch[r].status)
                 /\ rows'[r].err = answer
           /\ ~expired => rows'[r].err = answer \/ Disturb("db")
           /\ Undisturbed \/ Disturb("db")
<1> DEFINE row == UpsertedRow(r, batch[r].ext, batch[r].status, answer)
<1>1. tickPc = "record" /\ Current(r) /\ UNCHANGED <<expired, lastError, pending, told, jobs>>
  BY DEF RecordError
<1>2. r \in InBatch /\ answer \in PollErrors /\ rows \in [Requests -> Row]
  BY <1>1 DEF Current, TickInv, Base, TypeOK, ReconcilerTypeOK, StoreTypeOK
<1>3. tickPc' = "row" /\ InBatch' \subseteq InBatch \ {r}
  BY NextRowFacts, BreakLoopFacts DEF RecordError, TickInv, Base
<1>4. UNCHANGED rows \/ rows' = [rows EXCEPT ![r] = row]
  BY DEF RecordError, Succeeds, Fails, UpsertPolled, storeVars
<1>5. ~expired => rows' = [rows EXCEPT ![r] = row] \/ Disturb("db")
  BY DEF RecordError, Succeeds, Fails, UpsertPolled
<1>6. row.err = answer /\ row.ext \in {rows[r].ext, batch[r].ext}
  BY <1>2 DEF UpsertedRow, Coalesce, PollErrors, NoError
<1>7. row.status = TerminalGuard(rows[r].status, batch[r].status)
  BY DEF UpsertedRow
<1>8. Undisturbed \/ Disturb("db")
  BY DEF RecordError, Succeeds, Fails
<1> HIDE DEF row
<1> QED
  BY <1>1, <1>2, <1>3, <1>4, <1>5, <1>6, <1>7, <1>8

LEMMA MarkPolledRowFacts ==
    ASSUME TickInv, NEW r \in Requests, MarkPolledRow(r)
    PROVE  /\ tickPc = "mark" /\ Current(r) /\ r \in InBatch
           /\ UNCHANGED <<expired, lastError, pending, told, jobs>>
           /\ \A q \in Requests \ {r} : rows'[q] = rows[q]
           /\ rows'[r].ext \in {rows[r].ext, batch[r].ext}
           /\ \/ UNCHANGED rows
              \/ /\ rows'[r].status = TerminalGuard(rows[r].status, MarkedStatus(r))
                 /\ rows'[r].err = NoError
           /\ ~expired /\ Exists(r) =>
                \/ Disturb("db")
                \/ rows'[r].status = TerminalGuard(rows[r].status, MarkedStatus(r))
           /\ Undisturbed \/ Disturb("db")
           /\ MarkedStatus(r) \in Statuses
           /\ \/ /\ tickPc' = "row" /\ InBatch' = InBatch \ {r}
                 /\ MarkedStatus(r) = batch[r].status
              \/ /\ tickPc' = "publish" /\ UNCHANGED <<answer, batch>>
                 /\ \A q \in Requests : Current(q)' <=> Current(q)
                 /\ MarkedStatus(r) = answer
<1> DEFINE row == [status |-> TerminalGuard(rows[r].status, MarkedStatus(r)),
                   ext    |-> Coalesce(batch[r].ext, rows[r].ext, NoJob),
                   err    |-> NoError]
<1>1. tickPc = "mark" /\ Current(r) /\ UNCHANGED <<expired, lastError, pending, told, jobs>>
  BY DEF MarkPolledRow
<1>2. r \in InBatch /\ rows \in [Requests -> Row]
  BY <1>1 DEF Current, TickInv, Base, TypeOK, StoreTypeOK
<1>3. batch[r].status \in Statuses
  BY <1>2 DEF TickInv, Base, BatchOK
<1>4. MarkedStatus(r) \in Statuses
  BY <1>3, MarkPolledRowType DEF TickInv, Base
<1>5. \/ tickPc' = "row" /\ InBatch' = InBatch \ {r} /\ MarkedStatus(r) = batch[r].status
      \/ /\ tickPc' = "publish" /\ UNCHANGED <<answer, batch>>
         /\ MarkedStatus(r) = answer
  BY NextRowFacts DEF MarkPolledRow, MarkedStatus, TickInv, Base
<1>6. UNCHANGED rows \/ rows' = [rows EXCEPT ![r] = row]
  BY DEF MarkPolledRow, Succeeds, Fails, MarkPolled, storeVars
<1>7. ~expired /\ Exists(r) => rows' = [rows EXCEPT ![r] = row] \/ Disturb("db")
  BY DEF MarkPolledRow, Succeeds, Fails, MarkPolled
<1>8. Undisturbed \/ Disturb("db")
  BY DEF MarkPolledRow, Succeeds, Fails
<1>9. row.ext \in {rows[r].ext, batch[r].ext} /\ row.err = NoError
      /\ row.status = TerminalGuard(rows[r].status, MarkedStatus(r))
  BY DEF Coalesce
<1>10. UNCHANGED batch => \A q \in Requests : Current(q)' <=> Current(q)
  BY DEF Current, InBatch
<1> HIDE DEF row
<1>11. /\ \A q \in Requests \ {r} : rows'[q] = rows[q]
       /\ rows'[r] = rows[r] \/ rows'[r] = row
       /\ ~expired /\ Exists(r) => rows'[r] = row \/ Disturb("db")
  BY <1>2, <1>6, <1>7
<1> QED
  BY <1>1, <1>2, <1>4, <1>5, <1>6, <1>8, <1>9, <1>10, <1>11

LEMMA PublishFacts ==
    ASSUME TickInv, NEW r \in Requests, PublishTransition(r)
    PROVE  /\ tickPc = "publish" /\ Current(r) /\ r \in InBatch /\ answer \in Statuses
           /\ UNCHANGED <<expired, lastError, rows, pollOrder, pending, jobs>>
           /\ tickPc' = "row" /\ InBatch' = InBatch \ {r}
           /\ \A q \in Requests \ {r} : told'[q] = told[q]
           /\ told'[r] \in {told[r], told[r] \cup {EventFor(answer)}}
           /\ ~expired => (told'[r] = told[r] \cup {EventFor(answer)} \/ Disturb("publish"))
           /\ Undisturbed \/ Disturb("publish")
           /\ expired => UNCHANGED told
<1>1. /\ tickPc = "publish" /\ Current(r) /\ NextRow(r)
      /\ UNCHANGED <<expired, lastError, rows, pollOrder, pending, jobs>>
  BY DEF PublishTransition, storeVars
<1>2. r \in InBatch /\ answer \in Statuses /\ told \in [Requests -> SUBSET EventNames]
  BY <1>1 DEF Current, TickInv, Base, TypeOK, ReconcilerTypeOK, EnvTypeOK
<1>3. tickPc' = "row" /\ InBatch' = InBatch \ {r}
  BY <1>1, NextRowFacts DEF TickInv, Base
<1>4. \/ ~expired /\ Undisturbed /\ told' = [told EXCEPT ![r] = @ \cup {EventFor(answer)}]
      \/ ((expired /\ Undisturbed) \/ (~expired /\ Disturb("publish"))) /\ UNCHANGED told
  <2>1. IF expired THEN Undisturbed /\ UNCHANGED told ELSE Publish(r, EventFor(answer))
    BY Zenon DEF PublishTransition
  <2> QED
    BY <2>1, Zenon DEF Publish
<1>5. CASE ~expired /\ Undisturbed /\ told' = [told EXCEPT ![r] = @ \cup {EventFor(answer)}]
  BY <1>1, <1>2, <1>3, <1>5
<1>6. CASE ((expired /\ Undisturbed) \/ (~expired /\ Disturb("publish"))) /\ UNCHANGED told
  BY <1>1, <1>2, <1>3, <1>6
<1> QED
  BY <1>4, <1>5, <1>6

\* What the handlers and the operators do to a row

LEMMA ConsumerRows ==
    ASSUME Base, ConsumerStep, NEW r \in Requests
    PROVE  /\ \/ rows'[r].status = rows[r].status
              \/ ~IsTerminal(r) /\ rows'[r].status \in {"submitted", "acknowledged", "failed"}
           /\ \/ rows'[r].ext = rows[r].ext
              \/ \E h \in Handlers : handler[h].req = r /\ handler[h].job = rows'[r].ext
           /\ \/ rows'[r].err = rows[r].err
              \/ rows'[r].status \in Terminal
           /\ rows'[r].status = "acknowledged" =>
                \/ rows[r].status = "acknowledged"
                \/ \E h \in Handlers : /\ At(h, "recordAck") /\ handler[h].req = r
                                       /\ handler[h].job # NoJob => rows'[r].ext # NoJob
<1>1. PICK h \in Handlers : HandlerStep(h) \/ \E q \in Requests : Receive(h, q)
  BY DEF ConsumerStep
<1>2. rows \in [Requests -> Row]
  BY DEF Base, TypeOK, StoreTypeOK
<1> DEFINE Wrote(q, ext, status, err) == rows' = [rows EXCEPT ![q] = UpsertedRow(q, ext, status, err)]
<1>3. ASSUME NEW q \in Requests, NEW ext, NEW status, NEW err, Wrote(q, ext, status, err)
      PROVE  /\ q # r => rows'[r] = rows[r]
             /\ q = r => /\ rows'[r].status = TerminalGuard(rows[r].status, status)
                         /\ rows'[r].ext = Coalesce(ext, rows[r].ext, NoJob)
                         /\ rows'[r].err = Coalesce(err, rows[r].err, NoError)
  <2>1. q # r => rows'[r] = rows[r]
    BY <1>2, <1>3
  <2>2. q = r => rows'[r] = UpsertedRow(r, ext, status, err)
    BY <1>2, <1>3
  <2> QED
    BY <2>1, <2>2 DEF UpsertedRow
<1>4. CASE UNCHANGED rows
  BY <1>4
<1>5. CASE \E q \in Requests : Wrote(q, NoJob, "submitted", NoError)
  <2>1. PICK q \in Requests : Wrote(q, NoJob, "submitted", NoError)
    BY <1>5
  <2> HIDE DEF Wrote
  <2> QED
    BY <1>3, <2>1 DEF TerminalGuard, Coalesce, IsTerminal, Terminal
<1>6. CASE \E q \in Requests, err \in {"no metadata", "not accepted"} : Wrote(q, NoJob, "failed", err)
  <2>1. PICK q \in Requests, err \in {"no metadata", "not accepted"} : Wrote(q, NoJob, "failed", err)
    BY <1>6
  <2> HIDE DEF Wrote
  <2>2. q # r => rows'[r] = rows[r]
    BY <1>3, <2>1
  <2>3. q = r => /\ rows'[r].status = TerminalGuard(rows[r].status, "failed")
                 /\ rows'[r].ext = Coalesce(NoJob, rows[r].ext, NoJob)
    BY <1>3, <2>1
  <2>4. q = r => /\ rows'[r].ext = rows[r].ext /\ rows'[r].status \in Terminal
                 /\ rows'[r].status = rows[r].status \/ ~IsTerminal(r)
                 /\ rows'[r].status = rows[r].status \/ rows'[r].status = "failed"
    BY <2>3 DEF TerminalGuard, Coalesce, IsTerminal, Terminal
  <2>5. q = r => rows'[r].status # "acknowledged"
    BY <2>4 DEF Terminal
  <2> QED
    BY <1>4, <2>2, <2>4, <2>5
<1>7. CASE /\ handler[h].req \in Requests /\ At(h, "recordAck")
           /\ Wrote(handler[h].req, handler[h].job, "acknowledged", NoError)
  <2> HIDE DEF Wrote
  <2> QED
    BY <1>3, <1>7 DEF TerminalGuard, Coalesce, IsTerminal, Terminal
<1>8. handler[h].pc # "idle" => handler[h].req \in Requests
  BY DEF Base, BusyOK, TypeOK, ConsumerTypeOK, Handler
<1>9. CASE RecordFailed(h) \/ RejectMissingMetadata(h)
  <2>1. handler[h].req \in Requests
    BY <1>8, <1>9 DEF RecordFailed, RejectMissingMetadata, At
  <2>2. \/ UNCHANGED rows \/ Wrote(handler[h].req, NoJob, "failed", "no metadata")
        \/ Wrote(handler[h].req, NoJob, "failed", "not accepted")
    BY <1>9 DEF RecordFailed, RejectMissingMetadata, UpsertForwardedRequest, storeVars
  <2> HIDE DEF Wrote
  <2> QED
    BY <1>4, <1>6, <2>1, <2>2
<1>10. CASE RecordAck(h)
  <2>1. handler[h].req \in Requests /\ At(h, "recordAck")
    BY <1>8, <1>10 DEF RecordAck, At
  <2>2. UNCHANGED rows \/ Wrote(handler[h].req, handler[h].job, "acknowledged", NoError)
    BY <1>10 DEF RecordAck, UpsertForwardedRequest, storeVars
  <2> HIDE DEF Wrote
  <2> QED
    BY <1>4, <1>7, <2>1, <2>2
<1>11. CASE \E q \in Requests : Receive(h, q)
  <2>1. UNCHANGED rows \/ \E q \in Requests : Wrote(q, NoJob, "submitted", NoError)
    BY <1>11 DEF Receive, UpsertForwardedRequest, storeVars
  <2> HIDE DEF Wrote
  <2> QED
    BY <1>4, <1>5, <2>1
<1>12. CASE AddMonitoring(h) \/ TellFailed(h) \/ TellAck(h)
  BY <1>4, <1>12 DEF AddMonitoring, TellFailed, TellAck, storeVars
<1> QED
  BY <1>1, <1>9, <1>10, <1>11, <1>12 DEF HandlerStep

LEMMA AdminRows ==
    ASSUME Base, AdminStep
    PROVE  /\ UNCHANGED <<pending, told, jobs, handler, reconcilerVars>>
           /\ disturbances' = disturbances + 1
           /\ \E q \in Requests :
                /\ \A r \in Requests \ {q} : rows'[r] = rows[r]
                /\ rows'[q].ext = rows[q].ext
                /\ \/ /\ rows'[q].status = "failed" /\ "markfailed" \in Disturbances
                   \/ /\ rows'[q].status = "acknowledged" /\ Tracked(q)
                      /\ "retry" \in Disturbances
<1>1. PICK q \in Requests : AdminRetry(q) \/ AdminMarkFailed(q)
  BY DEF AdminStep
<1>2. /\ UNCHANGED <<pending, told, jobs, handler, reconcilerVars>>
      /\ disturbances' = disturbances + 1
  BY <1>1 DEF AdminRetry, AdminMarkFailed, Disturb
<1>3. CASE AdminRetry(q)
  <2>1. RetryRequest(q) /\ Tracked(q) /\ "retry" \in Disturbances
    BY <1>3 DEF AdminRetry, RetryRequest, Disturb
  <2> QED
    BY <1>2, <2>1, RetryFacts DEF Base, TypeOK
<1>4. CASE AdminMarkFailed(q)
  <2>1. MarkFailedManually(q) /\ "markfailed" \in Disturbances
    BY <1>4 DEF AdminMarkFailed, Disturb
  <2> QED
    BY <1>2, <2>1, MarkFailedFacts DEF Base, TypeOK
<1> QED
  BY <1>1, <1>3, <1>4

\* The host, the upstream and a crash leave the table alone.
LEMMA OutsideRows ==
    ASSUME HostStep \/ UpstreamStep \/ Crash \/ UNCHANGED vars
    PROVE  UNCHANGED <<rows, pollOrder, told>>
  BY DEF HostStep, UpstreamStep, Crash, Redeliver, UpstreamProgress, storeVars, vars, envVars

\* The portal hears of a row from the handlers, of a failure or an
\* acknowledgement, and from the tick.
LEMMA ToldSources ==
    ASSUME Base, [Next]_vars, NEW r \in Requests
    PROVE  /\ told[r] \subseteq told'[r]
           /\ \/ told'[r] \subseteq told[r] \cup {"request_failed", "request_acknowledged"}
              \/ PublishTransition(r)
<1>1. CASE told'[r] = told[r]
  BY <1>1
<1>2. told \in [Requests -> SUBSET EventNames]
  BY DEF Base, TypeOK, EnvTypeOK
<1>3. ASSUME NEW q, NEW event, Publish(q, event)
      PROVE  /\ told[r] \subseteq told'[r] /\ told'[r] \subseteq told[r] \cup {event}
             /\ q # r => told'[r] = told[r]
  BY <1>2, <1>3 DEF Publish
<1>4. CASE ConsumerStep
  <2>1. PICK h \in Handlers : HandlerStep(h) \/ \E q \in Requests : Receive(h, q)
    BY <1>4 DEF ConsumerStep
  <2>2. CASE TellFailed(h) \/ TellAck(h)
    BY <1>3, <2>2 DEF TellFailed, TellAck
  <2>3. CASE ~(TellFailed(h) \/ TellAck(h))
    BY <1>1, <2>1, <2>3 DEF HandlerStep, Receive, RejectMissingMetadata, AddMonitoring,
                            RecordFailed, RecordAck
  <2> QED
    BY <2>2, <2>3
<1>5. CASE TickStep
  <2>1. CASE \E q \in Requests : PublishTransition(q)
    <3>1. PICK q \in Requests : PublishTransition(q)
      BY <2>1
    <3>2. UNCHANGED told \/ Publish(q, EventFor(answer))
      BY <3>1 DEF PublishTransition
    <3> QED
      BY <1>1, <1>3, <3>1, <3>2
  <2>2. CASE ~\E q \in Requests : PublishTransition(q)
    BY <1>1, <1>5, <2>2 DEF TickStep, TickBegin, TickFailsToList, TickParked, TickSkipped,
         TickTimeout, TickFinish, BackoffElapsed, Poll, RecordError, MarkPolledRow, envVars
  <2> QED
    BY <2>1, <2>2
<1>6. CASE AdminStep
  BY <1>1, <1>6 DEF AdminStep, AdminRetry, AdminMarkFailed
<1>7. CASE HostStep \/ UpstreamStep \/ Crash \/ UNCHANGED vars
  BY <1>1, <1>7, OutsideRows
<1> QED
  BY <1>4, <1>5, <1>6, <1>7 DEF Next

-----------------------------------------------------------------------------
(* A fulfilment is genuine.  A job is followed from the upstream's answer   *)
(* to the row and to the snapshot: whoever holds its id holds it for a      *)
(* request on whose behalf it runs.                                         *)

Fulfilled(r) == \E j \in JobIds : r \in jobs[j].owners /\ jobs[j].status \in Completed

OwnersOK ==
    /\ \A h \in Handlers : handler[h].job # NoJob => handler[h].req \in jobs[handler[h].job].owners
    /\ \A r \in Requests : rows[r].ext # NoJob => r \in jobs[rows[r].ext].owners
    /\ \A r \in InBatch : r \in jobs[batch[r].ext].owners

AnswerOK ==
    tickPc \in {"mark", "publish"} /\ answer = "imported" =>
        \A r \in Requests : Current(r) => Fulfilled(r)

GenuineInv == TickInv /\ OwnersOK /\ AnswerOK /\ FulfilmentIsGenuine

\* The upstream never takes back an owner or a completion.
JobsKept ==
    \A j \in JobIds : /\ jobs[j].owners \subseteq jobs'[j].owners
                      /\ jobs[j].status \in Completed => jobs'[j].status \in Completed

LEMMA JobsAreKept ==
    ASSUME Base, [Next]_vars
    PROVE  JobsKept
<1>1. CASE UNCHANGED jobs
  BY <1>1 DEF JobsKept
<1>2. ASSUME NEW r, NEW j \in JobIds, StartJob(r, j) PROVE JobsKept
  BY <1>2 DEF StartJob, JobsKept, Base, TypeOK, EnvTypeOK, Job
<1>3. ASSUME NEW j \in JobIds, UpstreamProgress(j) PROVE JobsKept
  BY <1>3 DEF UpstreamProgress, JobsKept, Base, TypeOK, EnvTypeOK, Job
<1>4. CASE ConsumerStep
  BY <1>1, <1>2, <1>4 DEF ConsumerStep, Receive, HandlerStep, RejectMissingMetadata,
         AddMonitoring, RecordFailed, RecordAck, TellFailed, TellAck
<1>5. CASE TickStep
  BY <1>1, <1>5 DEF TickStep, TickBegin, TickFailsToList, TickParked, TickSkipped, TickTimeout,
         TickFinish, BackoffElapsed, Poll, RecordError, MarkPolledRow, PublishTransition, envVars
<1>6. CASE AdminStep \/ HostStep \/ Crash \/ UNCHANGED vars
  BY <1>1, <1>6 DEF AdminStep, AdminRetry, AdminMarkFailed, HostStep, Redeliver, Crash, vars, envVars
<1>7. CASE UpstreamStep
  BY <1>3, <1>7 DEF UpstreamStep
<1> QED
  BY <1>4, <1>5, <1>6, <1>7 DEF Next

LEMMA FulfilledStays ==
    ASSUME JobsKept, NEW r, Fulfilled(r)
    PROVE  Fulfilled(r)'
  BY DEF JobsKept, Fulfilled

\* A handler's job is the one it had, or one just started for its request.
LEMMA HandlersOwn ==
    ASSUME Base, Base', OwnersOK, [Next]_vars, NEW h \in Handlers, handler'[h].job # NoJob
    PROVE  handler'[h].req \in jobs'[handler'[h].job].owners
<1>1. JobsKept
  BY JobsAreKept
<1>2. handler'[h].job \in JobIds
  BY DEF Base, TypeOK, ConsumerTypeOK, Handler, MaybeJob
<1>3. CASE handler'[h].req = handler[h].req /\ handler'[h].job = handler[h].job
  BY <1>1, <1>2, <1>3 DEF OwnersOK, JobsKept
<1>4. CASE Crash
  BY <1>4 DEF Crash, Idle
<1>5. CASE UNCHANGED handler
  BY <1>3, <1>5
<1>6. CASE ConsumerStep
  <2>1. PICK g \in Handlers : HandlerStep(g) \/ \E r \in Requests : Receive(g, r)
    BY <1>6 DEF ConsumerStep
  <2>2. (\E pc \in HandlerPcs : MoveTo(g, pc)) => 
            handler'[h].req = handler[h].req /\ handler'[h].job = handler[h].job
    <3>1. SUFFICES ASSUME NEW pc \in HandlerPcs, MoveTo(g, pc)
                   PROVE  handler'[h].req = handler[h].req /\ handler'[h].job = handler[h].job
      OBVIOUS
    <3> QED
      BY <3>1, MoveFacts DEF Base, TypeOK
  <2>3. Release(g) => handler'[h].req = handler[h].req /\ handler'[h].job = handler[h].job
    BY ReleaseFacts DEF Base, TypeOK, Idle
  <2>4. CASE \E r \in Requests : Receive(g, r)
    <3>1. PICK r \in Requests : Receive(g, r)
      BY <2>4
    <3>2. UNCHANGED handler \/ handler' = [handler EXCEPT ![g] =
              [pc |-> IF r \in NoMetadata THEN "reject" ELSE "add",
               req |-> r, job |-> NoJob]]
      BY <3>1, Zenon DEF Receive
    <3>3. h = g => UNCHANGED handler
      BY <3>2 DEF Base, TypeOK, ConsumerTypeOK
    <3>4. handler'[h] = handler[h]
      BY <3>2, <3>3 DEF Base, TypeOK, ConsumerTypeOK
    <3> QED
      BY <1>3, <3>4
  <2>5. CASE RejectMissingMetadata(g) \/ RecordFailed(g) \/ RecordAck(g) \/ TellFailed(g) \/ TellAck(g)
    <3>1. Release(g) \/ \E pc \in HandlerPcs : MoveTo(g, pc)
      BY <2>5 DEF RejectMissingMetadata, RecordFailed, RecordAck, TellFailed, TellAck, Ack, Nack,
                  HandlerPcs
    <3> QED
      BY <1>3, <2>2, <2>3, <3>1
  <2>6. CASE AddMonitoring(g)
    <3>1. CASE \E pc \in HandlerPcs : MoveTo(g, pc)
      BY <1>3, <2>2, <3>1
    <3>2. CASE \E j \in JobIds :
                 /\ StartJob(handler[g].req, j)
                 /\ handler' = [handler EXCEPT ![g].pc = "recordAck", ![g].job = j]
      <4>1. PICK j \in JobIds :
                 /\ StartJob(handler[g].req, j)
                 /\ handler' = [handler EXCEPT ![g].pc = "recordAck", ![g].job = j]
        BY <3>2
      <4>2. CASE h = g
        <5>1. handler'[h].req = handler[g].req /\ handler'[h].job = j
          BY <4>1, <4>2 DEF Base, TypeOK, ConsumerTypeOK, Handler
        <5>2. handler[g].req \in jobs'[j].owners
          BY <4>1 DEF StartJob, Base, TypeOK, EnvTypeOK, Job
        <5> QED
          BY <5>1, <5>2
      <4>3. CASE h # g
        BY <1>3, <4>1, <4>3 DEF Base, TypeOK, ConsumerTypeOK
      <4> QED
        BY <4>2, <4>3
    <3> QED
      BY <2>6, <3>1, <3>2 DEF AddMonitoring, HandlerPcs
  <2> QED
    BY <2>1, <2>4, <2>5, <2>6 DEF HandlerStep
<1>7. CASE AdminStep
  BY <1>5, <1>7 DEF AdminStep, AdminRetry, AdminMarkFailed
<1> QED
  BY <1>4, <1>5, <1>6, <1>7 DEF Next, vars

LEMMA TickRows ==
    ASSUME TickInv, TickStep, NEW r \in Requests
    PROVE  \/ rows'[r] = rows[r]
           \/ /\ rows'[r].status = rows[r].status
              /\ RecordError(r) \/ MarkPolledRow(r)
              /\ rows'[r].ext \in {rows[r].ext, batch[r].ext} /\ r \in InBatch
           \/ /\ RecordError(r) /\ ~IsTerminal(r) /\ rows'[r].status = batch[r].status
              /\ rows'[r].ext \in {rows[r].ext, batch[r].ext} /\ r \in InBatch
           \/ /\ MarkPolledRow(r) /\ ~IsTerminal(r) /\ rows'[r].status = MarkedStatus(r)
              /\ rows'[r].ext \in {rows[r].ext, batch[r].ext} /\ r \in InBatch
<1>1. CASE RecordError(r)
  BY <1>1, RecordErrorFacts DEF TerminalGuard, IsTerminal
<1>2. CASE MarkPolledRow(r)
  BY <1>2, MarkPolledRowFacts DEF TerminalGuard, IsTerminal
<1>3. CASE \E q \in Requests \ {r} : RecordError(q) \/ MarkPolledRow(q)
  BY <1>3, RecordErrorFacts, MarkPolledRowFacts
<1>4. CASE \/ TickBegin \/ TickFailsToList \/ TickParked \/ TickSkipped
           \/ TickTimeout \/ TickFinish \/ BackoffElapsed
           \/ \E q \in Requests : Poll(q) \/ PublishTransition(q)
  BY <1>4 DEF TickBegin, TickFailsToList, TickParked, TickSkipped, TickTimeout, TickFinish,
              BackoffElapsed, Poll, PublishTransition, storeVars
<1> QED
  BY <1>1, <1>2, <1>3, <1>4 DEF TickStep

\* Where the status and the job of a row come from
LEMMA RowSources ==
    ASSUME TickInv, [Next]_vars, NEW r \in Requests
    PROVE  /\ \/ rows'[r].status = rows[r].status
              \/ /\ ConsumerStep /\ ~IsTerminal(r)
                 /\ rows'[r].status \in {"submitted", "acknowledged", "failed"}
              \/ AdminStep /\ rows'[r].status \in {"acknowledged", "failed"}
              \/ RecordError(r) /\ ~IsTerminal(r) /\ rows'[r].status = batch[r].status
              \/ MarkPolledRow(r) /\ ~IsTerminal(r) /\ rows'[r].status = MarkedStatus(r)
           /\ \/ rows'[r].ext = rows[r].ext
              \/ r \in InBatch /\ rows'[r].ext = batch[r].ext
              \/ \E h \in Handlers : handler[h].req = r /\ handler[h].job = rows'[r].ext
<1>1. CASE rows'[r] = rows[r]
  BY <1>1
<1>2. CASE ConsumerStep
  <2>1. \/ rows'[r].status = rows[r].status
        \/ ~IsTerminal(r) /\ rows'[r].status \in {"submitted", "acknowledged", "failed"}
    BY <1>2, ConsumerRows DEF TickInv
  <2>2. \/ rows'[r].ext = rows[r].ext
        \/ \E h \in Handlers : handler[h].req = r /\ handler[h].job = rows'[r].ext
    BY <1>2, ConsumerRows DEF TickInv
  <2> QED
    BY <1>2, <2>1, <2>2
<1>3. CASE AdminStep
  <2>1. PICK q \in Requests :
            /\ \A s \in Requests \ {q} : rows'[s] = rows[s]
            /\ rows'[q].ext = rows[q].ext
            /\ rows'[q].status \in {"acknowledged", "failed"}
    BY <1>3, AdminRows DEF TickInv
  <2> QED
    BY <1>3, <2>1
<1>4. CASE TickStep
  BY <1>4, TickRows
<1>5. CASE HostStep \/ UpstreamStep \/ Crash \/ UNCHANGED vars
  BY <1>1, <1>5, OutsideRows
<1> QED
  BY <1>2, <1>3, <1>4, <1>5 DEF Next

\* The snapshot of a new tick
LEMMA ListedRow ==
    ASSUME TickBegin, NEW r \in InBatch'
    PROVE  /\ r \in Requests /\ Exists(r) /\ ~IsTerminal(r) /\ Tracked(r)
           /\ batch'[r].status = rows[r].status /\ batch'[r].ext = rows[r].ext
<1>1. r \in Requests /\ batch'[r].pos > 0
  BY DEF InBatch
<1>2. batch'[r] = IF r \in ListNonTerminal /\ Tracked(r)
                  THEN [status |-> rows[r].status, ext |-> rows[r].ext,
                        pos |-> PollPosition(r)]
                  ELSE NoRow
  BY <1>1 DEF TickBegin
<1>3. r \in ListNonTerminal /\ Tracked(r)
  BY <1>1, <1>2 DEF NoRow
<1> QED
  BY <1>1, <1>2, <1>3 DEF ListNonTerminal, NonTerminal

LEMMA OwnersNext ==
    ASSUME TickInv, TickInv', OwnersOK, [Next]_vars
    PROVE  OwnersOK'
<1> USE DEF TickInv
<1>1. JobsKept
  BY JobsAreKept
<1>2. \A h \in Handlers : handler'[h].job # NoJob => handler'[h].req \in jobs'[handler'[h].job].owners
  BY HandlersOwn
<1>3. ASSUME NEW r \in Requests, rows'[r].ext # NoJob
      PROVE  r \in jobs'[rows'[r].ext].owners
  <2>1. rows'[r].ext \in JobIds
    BY <1>3 DEF Base, TypeOK, StoreTypeOK, Row, MaybeJob
  <2>2. r \in jobs[rows'[r].ext].owners
    BY <1>3, RowSources DEF OwnersOK
  <2> QED
    BY <1>1, <2>1, <2>2 DEF JobsKept
<1>4. ASSUME NEW r \in InBatch'
      PROVE  r \in jobs'[batch'[r].ext].owners
  <2>1. batch'[r].ext \in JobIds
    BY <1>4 DEF Base, BatchOK, TypeOK, ReconcilerTypeOK, BatchRow, MaybeJob, InBatch
  <2>2. CASE TickBegin
    BY <1>1, <2>1, <2>2, ListedRow DEF OwnersOK, JobsKept, Tracked
  <2>3. CASE InBatch' \subseteq InBatch /\ \A q \in InBatch' : batch'[q] = batch[q]
    BY <1>1, <2>1, <2>3 DEF OwnersOK, JobsKept
  <2> QED
    BY <2>2, <2>3, BatchSteps
<1> QED
  BY <1>2, <1>3, <1>4 DEF OwnersOK

\* The answer is about the job of the current row, which was listed with it.
LEMMA AnswerNext ==
    ASSUME TickInv, OwnersOK, AnswerOK, [Next]_vars
    PROVE  AnswerOK'
<1> USE DEF TickInv
<1>1. JobsKept
  BY JobsAreKept
<1>2. CASE tickPc' \notin {"mark", "publish"}
  BY <1>2 DEF AnswerOK
<1>3. ASSUME UNCHANGED <<tickPc, answer>>, \A r \in Requests : Current(r)' <=> Current(r)
      PROVE  AnswerOK'
  BY <1>1, <1>3, FulfilledStays DEF AnswerOK
<1>4. CASE UNCHANGED reconcilerVars
  BY <1>3, <1>4, OutsideTick
<1>5. CASE Pause
  BY <1>3, <1>5, PauseFacts
<1>6. ASSUME NEW r \in Requests, Poll(r), tickPc' = "mark", answer' = "imported"
      PROVE  \A q \in Requests : Current(q)' => Fulfilled(q)'
  <2>1. /\ Current(r) /\ answer' = TranslateStatus(jobs[batch[r].ext].status)
        /\ UNCHANGED <<batch, jobs>>
    <3>1. NoAnswer # "mark" /\ "row" # "mark" /\ "record" # "mark"
      BY DEF NoAnswer
    <3> QED
      BY <1>6, <3>1, PollFacts
  <2>2. jobs[batch[r].ext].status \in Completed
    BY <1>6, <2>1 DEF TranslateStatus, Completed, NoAnswer
  <2>3. r \in InBatch /\ batch[r].ext \in JobIds
    BY <2>1 DEF Current, Base, BatchOK, TypeOK, ReconcilerTypeOK, BatchRow, MaybeJob, InBatch
  <2>4. Fulfilled(r)
    BY <2>2, <2>3 DEF OwnersOK, Fulfilled
  <2>5. \A q \in Requests : Current(q)' => q = r
    <3>1. \A q \in Requests : Current(q)' <=> Current(q)
      BY <2>1 DEF Current, InBatch
    <3> QED
      BY <2>1, <3>1, OneCurrent DEF Base
  <2> QED
    BY <1>1, <2>4, <2>5, FulfilledStays
<1>7. CASE \E r \in Requests : Poll(r)
  <2>1. tickPc' # "publish"
    BY <1>7, PollFacts
  <2> QED
    BY <1>6, <1>7, <2>1 DEF AnswerOK
<1>8. CASE \E r \in Requests : RecordError(r) \/ PublishTransition(r)
  BY <1>2, <1>8, RecordErrorFacts, PublishFacts
<1>9. CASE \E r \in Requests : MarkPolledRow(r)
  <2>1. PICK r \in Requests : MarkPolledRow(r)
    BY <1>9
  <2>2. CASE tickPc' = "row"
    BY <1>2, <2>2
  <2>3. CASE tickPc = "mark" /\ UNCHANGED answer /\ \A q \in Requests : Current(q)' <=> Current(q)
    BY <1>1, <2>3, FulfilledStays DEF AnswerOK
  <2> QED
    BY <2>1, <2>2, <2>3, MarkPolledRowFacts
<1>10. CASE TickBegin \/ TickFinish \/ Crash
  BY <1>2, <1>10, BetweenTicks
<1>11. CASE AdminStep
  BY <1>4, <1>11, AdminRows
<1> QED
  BY <1>4, <1>5, <1>7, <1>8, <1>9, <1>10, <1>11 DEF Next, TickStep, Pause, vars

LEMMA GenuineNext == GenuineInv /\ [Next]_vars => GenuineInv'
<1> SUFFICES ASSUME GenuineInv, [Next]_vars PROVE GenuineInv'
  OBVIOUS
<1> USE DEF GenuineInv
<1>1. TickInv' /\ OwnersOK' /\ AnswerOK' /\ JobsKept
  BY TickInvNext, OwnersNext, AnswerNext, JobsAreKept DEF TickInv
<1>2. ASSUME NEW r \in Requests, rows'[r].status = "imported"
      PROVE  Fulfilled(r)'
  <2>1. CASE rows[r].status = "imported"
    BY <1>1, <2>1, FulfilledStays DEF FulfilmentIsGenuine, Fulfilled
  <2>2. CASE RecordError(r) /\ rows'[r].status = batch[r].status
    BY <1>2, <2>2, RecordErrorFacts DEF TickInv, Terminal
  <2>3. CASE MarkPolledRow(r) /\ rows'[r].status = MarkedStatus(r)
    <3>1. r \in InBatch /\ tickPc = "mark" /\ Current(r)
      BY <2>3, MarkPolledRowFacts
    <3>2. MarkedStatus(r) # batch[r].status
      BY <1>2, <2>3, <3>1 DEF TickInv, Terminal
    <3>3. answer = "imported"
      BY <1>2, <2>3, <3>2 DEF MarkedStatus
    <3> QED
      BY <1>1, <3>1, <3>3, FulfilledStays DEF AnswerOK
  <2> QED
    BY <1>2, <2>1, <2>2, <2>3, RowSources
<1>3. ASSUME NEW r \in Requests, "request_fulfilled" \in told'[r]
      PROVE  Fulfilled(r)'
  <2>1. CASE "request_fulfilled" \in told[r]
    BY <1>1, <2>1, FulfilledStays DEF FulfilmentIsGenuine, Fulfilled
  <2>2. CASE "request_fulfilled" \notin told[r]
    <3>1. PublishTransition(r)
      BY <1>3, <2>2, ToldSources DEF TickInv
    <3>2. answer = "imported"
      BY <1>3, <2>2, <3>1, PublishFacts DEF EventFor
    <3> QED
      BY <1>1, <3>1, <3>2, PublishFacts, FulfilledStays DEF AnswerOK
  <2> QED
    BY <2>1, <2>2
<1>4. FulfilmentIsGenuine'
  BY <1>2, <1>3 DEF FulfilmentIsGenuine, Fulfilled
<1> QED
  BY <1>1, <1>4

\* A row is imported, and the portal told of a fulfilment, only when a job that
\* was started for this request has completed: stale snapshots, replaced jobs and
\* rows that share a job do not mix requests up (reconciler.go:205-267).
THEOREM FulfilmentIsGenuineHolds == Spec => []FulfilmentIsGenuine
<1>1. Init => GenuineInv
  <2> SUFFICES ASSUME Init PROVE GenuineInv
    OBVIOUS
  <2>1. InBatch = {}
    BY DEF Init, ReconcilerInit, NoTick, NoRow, InBatch
  <2>2. OwnersOK
    BY <2>1 DEF Init, ConsumerInit, StoreInit, AbsentRow, Idle, OwnersOK
  <2>3. AnswerOK
    BY DEF Init, ReconcilerInit, NoTick, AnswerOK
  <2>4. FulfilmentIsGenuine
    BY DEF Init, StoreInit, EnvInit, AbsentRow, FulfilmentIsGenuine
  <2> QED
    BY <2>2, <2>3, <2>4, TickInvInit DEF GenuineInv
<1>2. GenuineInv => FulfilmentIsGenuine
  BY DEF GenuineInv
<1> QED
  BY <1>1, <1>2, GenuineNext, PTL DEF Spec

-----------------------------------------------------------------------------
(* The tick does not take a row back.  A row listed with a status of the    *)
(* plugin's own can only have been given such a status, or a terminal one,  *)
(* since: the tick that listed it is the only one to write the others.      *)

NotAhead(r) ==
    batch[r].status \in LocalStatuses /\ ~(tickPc = "publish" /\ Current(r)) =>
        rows[r].status \notin PolledStatuses

SnapshotInv ==
    /\ TickInv
    /\ tickPc \in {"mark", "publish"} => answer \notin LocalStatuses
    /\ \A r \in InBatch : NotAhead(r)

LEMMA SnapshotNext == SnapshotInv /\ [Next]_vars => SnapshotInv'
<1> SUFFICES ASSUME SnapshotInv, [Next]_vars PROVE SnapshotInv'
  OBVIOUS
<1> USE DEF SnapshotInv
<1>1. TickInv' /\ RowsKept
  BY TickInvNext
<1>2. ASSUME tickPc' \in {"mark", "publish"}, tickPc' # tickPc
      PROVE  answer' \notin LocalStatuses
  <2>1. CASE \E r \in Requests : Poll(r)
    BY <1>2, <2>1, PollFacts DEF TickInv, TranslateStatus, LocalStatuses, NoAnswer
  <2>2. CASE \E r \in Requests : MarkPolledRow(r)
    BY <1>2, <2>2, MarkPolledRowFacts
  <2>3. CASE \E r \in Requests : RecordError(r) \/ PublishTransition(r)
    BY <1>2, <2>3, RecordErrorFacts, PublishFacts
  <2>4. CASE UNCHANGED reconcilerVars \/ UNCHANGED vars \/ Pause \/ AdminStep
    BY <1>2, <2>4, PauseFacts, AdminRows, OutsideTick DEF vars, TickInv
  <2>5. CASE TickBegin \/ TickFinish \/ Crash
    BY <1>2, <2>5, BetweenTicks
  <2> QED
    BY <2>1, <2>2, <2>3, <2>4, <2>5 DEF Next, TickStep, Pause
<1>3. ASSUME tickPc' \in {"mark", "publish"}, tickPc' = tickPc
      PROVE  UNCHANGED answer
  <2>1. CASE \E r \in Requests : Poll(r) \/ MarkPolledRow(r) \/ RecordError(r) \/ PublishTransition(r)
    BY <1>3, <2>1, PollFacts, MarkPolledRowFacts, RecordErrorFacts, PublishFacts DEF TickInv
  <2>2. CASE UNCHANGED reconcilerVars \/ UNCHANGED vars \/ Pause \/ AdminStep
    BY <1>3, <2>2, PauseFacts, AdminRows, OutsideTick DEF vars, TickInv
  <2>3. CASE TickBegin \/ TickFinish \/ Crash
    BY <1>3, <2>3, BetweenTicks
  <2> QED
    BY <2>1, <2>2, <2>3 DEF Next, TickStep, Pause
<1>4. ASSUME NEW r \in InBatch', InBatch' \subseteq InBatch, batch'[r] = batch[r],
             ~(tickPc' = "publish" /\ Current(r)') => ~(tickPc = "publish" /\ Current(r)),
             \/ rows'[r].status = rows[r].status
             \/ rows'[r].status \notin PolledStatuses
             \/ rows'[r].status = batch[r].status
             \/ tickPc' = "publish" /\ Current(r)'
      PROVE  NotAhead(r)'
  <2>1. LocalStatuses \cap PolledStatuses = {}
    BY DEF LocalStatuses, PolledStatuses
  <2> QED
    BY <1>4, <2>1 DEF NotAhead
<1>5. {"submitted", "acknowledged", "failed"} \cap PolledStatuses = {}
  BY DEF PolledStatuses
<1>6. CASE UNCHANGED reconcilerVars \/ UNCHANGED vars \/ AdminStep
  <2>1. UNCHANGED reconcilerVars
    BY <1>6, AdminRows DEF vars, TickInv
  <2>2. /\ UNCHANGED batch /\ InBatch' = InBatch /\ UNCHANGED tickPc
        /\ \A r \in Requests : Current(r)' <=> Current(r)
    BY <2>1, OutsideTick
  <2>3. ASSUME NEW r \in InBatch' PROVE NotAhead(r)'
    <3>1. r \in Requests
      BY <2>3 DEF InBatch
    <3>2. \/ rows'[r].status = rows[r].status
          \/ rows'[r].status \notin PolledStatuses
          \/ rows'[r].status = batch[r].status
          \/ MarkPolledRow(r)
      BY <1>5, <3>1, RowSources
    <3>3. ~MarkPolledRow(r)
      BY <2>1, <2>2, <3>1, MarkPolledRowFacts
    <3> QED
      BY <1>4, <2>2, <2>3, <3>1, <3>2, <3>3
  <2> QED
    BY <1>1, <1>2, <1>3, <2>3
<1>7. ASSUME NEW r \in Requests, RecordError(r) \/ MarkPolledRow(r) \/ PublishTransition(r) \/ Poll(r),
             NEW q \in InBatch'
      PROVE  NotAhead(q)'
  <2>1. q \in Requests /\ q \in InBatch /\ InBatch' \subseteq InBatch /\ batch'[q] = batch[q]
    <3>1. ~TickBegin
      BY <1>7, RecordErrorFacts, MarkPolledRowFacts, PublishFacts, PollFacts, BetweenTicks DEF TickInv
    <3> QED
      BY <3>1, BatchSteps DEF InBatch, TickInv
  <2>2. CASE Poll(r)
    BY <1>4, <2>1, <2>2, PollFacts DEF TickInv
  <2>3. CASE RecordError(r)
    <3>1. q # r /\ rows'[q] = rows[q] /\ tickPc = "record"
      BY <2>1, <2>3, RecordErrorFacts
    <3> QED
      BY <1>4, <2>1, <3>1
  <2>4. CASE MarkPolledRow(r)
    <3>1. tickPc = "mark" /\ (q # r => rows'[q] = rows[q])
      BY <2>1, <2>4, MarkPolledRowFacts
    <3>2. q = r => tickPc' = "publish" /\ Current(r)'
      BY <2>1, <2>4, MarkPolledRowFacts
    <3> QED
      BY <1>4, <2>1, <3>1, <3>2
  <2>5. CASE PublishTransition(r)
    <3>1. UNCHANGED rows /\ q # r /\ Current(r)
      BY <2>1, <2>5, PublishFacts
    <3>2. ~Current(q)
      BY <2>1, <3>1, OneCurrent DEF TickInv, Base
    <3> QED
      BY <1>4, <2>1, <3>1, <3>2
  <2> QED
    BY <1>7, <2>2, <2>3, <2>4, <2>5
<1>8. CASE \E r \in Requests : RecordError(r) \/ MarkPolledRow(r) \/ PublishTransition(r) \/ Poll(r)
  BY <1>1, <1>2, <1>3, <1>7, <1>8
<1>9. CASE Pause
  <2>1. UNCHANGED <<tickPc, batch, rows>> /\ \A r \in Requests : Current(r)' <=> Current(r)
    BY <1>9, PauseFacts
  <2>2. \A r \in InBatch' : NotAhead(r)'
    BY <1>4, <2>1 DEF InBatch
  <2> QED
    BY <1>1, <1>2, <1>3, <2>2
<1>10. CASE TickBegin
  <2>1. ASSUME NEW r \in InBatch' PROVE NotAhead(r)'
    <3>1. batch'[r].status = rows[r].status /\ UNCHANGED rows
      BY <1>10, <2>1, ListedRow, BetweenTicks
    <3> QED
      BY <3>1 DEF NotAhead, LocalStatuses, PolledStatuses
  <2> QED
    BY <1>1, <1>2, <1>3, <2>1
<1>11. CASE TickFinish \/ Crash
  BY <1>1, <1>2, <1>3, <1>11, BetweenTicks
<1> QED
  BY <1>6, <1>8, <1>9, <1>10, <1>11 DEF Next, TickStep, Pause

\* Whatever the snapshot of a tick, it does not write an earlier status over one
\* that a poll reported (reconciler.go:235-239, 315-319).
THEOREM TickNeverRegressesHolds == Spec => TickNeverRegresses
<1>1. Init => SnapshotInv
  <2> SUFFICES ASSUME Init PROVE SnapshotInv
    OBVIOUS
  <2>1. InBatch = {} /\ tickPc = "idle"
    BY DEF Init, ReconcilerInit, NoTick, NoRow, InBatch
  <2> QED
    BY <2>1, TickInvInit DEF SnapshotInv
<1>2. ASSUME SnapshotInv, [Next]_vars
      PROVE  [\A r \in Requests :
                /\ rows[r].status \in PolledStatuses
                /\ rows'[r].status \in LocalStatuses
                => UNCHANGED tickVars]_vars
  <2>1. SUFFICES ASSUME Next, NEW r \in Requests,
                        rows[r].status \in PolledStatuses, rows'[r].status \in LocalStatuses
                 PROVE  UNCHANGED tickVars
    BY <1>2
  <2>2. rows'[r].status # rows[r].status
    BY <2>1 DEF LocalStatuses, PolledStatuses
  <2>3. CASE UNCHANGED reconcilerVars
    BY <2>3 DEF reconcilerVars
  <2>4. CASE AdminStep
    BY <2>3, <2>4, <1>2, AdminRows DEF SnapshotInv, TickInv
  <2>5. CASE Crash
    BY <2>2, <2>5, OutsideRows
  <2>6. CASE TickStep
    <3>1. CASE RecordError(r) /\ rows'[r].status = batch[r].status
      BY <1>2, <2>1, <3>1, RecordErrorFacts DEF SnapshotInv, NotAhead
    <3>2. CASE MarkPolledRow(r) /\ rows'[r].status = MarkedStatus(r)
      <4>1. tickPc = "mark" /\ r \in InBatch
        BY <1>2, <3>2, MarkPolledRowFacts DEF SnapshotInv
      <4>2. batch[r].status \in LocalStatuses
        BY <1>2, <2>1, <3>2, <4>1 DEF MarkedStatus, SnapshotInv
      <4> QED
        BY <1>2, <2>1, <4>1, <4>2 DEF SnapshotInv, NotAhead
    <3> QED
      BY <1>2, <2>2, <2>6, <3>1, <3>2, TickRows DEF SnapshotInv
  <2> QED
    BY <2>1, <2>3, <2>4, <2>5, <2>6 DEF Next
<1> QED
  BY <1>1, <1>2, SnapshotNext, PTL DEF Spec, TickNeverRegresses

-----------------------------------------------------------------------------
(* An import is announced.                                                  *)

AnnouncedInv ==
    /\ TickInv
    /\ expired = FALSE
    /\ \A r \in Requests : rows[r].status = "imported" =>
          \/ "request_fulfilled" \in told[r]
          \/ tickPc = "publish" /\ Current(r) /\ answer = "imported"

\* Where no message is lost, no tick times out and the process does not die, each
\* imported row is announced, although the table and the portal are written one
\* after the other and the first may fail (reconciler.go:255-267).
THEOREM ImportedIsAnnouncedHolds ==
    ASSUME {"publish", "timeout", "crash"} \cap Disturbances = {}
    PROVE  Spec => []ImportedIsAnnounced
<1>1. Init => AnnouncedInv
  BY TickInvInit DEF Init, StoreInit, AbsentRow, ReconcilerInit, NoTick, AnnouncedInv
<1>2. AnnouncedInv /\ [Next]_vars => AnnouncedInv'
  <2> SUFFICES ASSUME AnnouncedInv, [Next]_vars PROVE AnnouncedInv'
    OBVIOUS
  <2> USE DEF AnnouncedInv
  <2>1. TickInv' /\ RowsKept /\ Base
    BY TickInvNext DEF TickInv
  <2>2. ~Disturb("publish") /\ ~Disturb("timeout") /\ ~Crash
    BY DEF Disturb, Crash
  <2>3. expired' = FALSE
    <3>1. CASE \E r \in Requests : Poll(r)
      BY <2>2, <3>1 DEF Poll, PollSucceeds, PollRateLimited
    <3>2. CASE \E r \in Requests : RecordError(r) \/ MarkPolledRow(r) \/ PublishTransition(r)
      BY <3>2 DEF RecordError, MarkPolledRow, PublishTransition
    <3>3. CASE TickBegin \/ TickFinish \/ TickFailsToList \/ TickParked \/ TickSkipped \/ BackoffElapsed
      BY <3>3 DEF TickBegin, TickFinish, TickFailsToList, TickParked, TickSkipped, BackoffElapsed, tickVars
    <3>4. CASE UNCHANGED reconcilerVars \/ UNCHANGED vars \/ AdminStep
      BY <2>1, <3>4, AdminRows, OutsideTick DEF vars
    <3> QED
      BY <2>2, <3>1, <3>2, <3>3, <3>4 DEF Next, TickStep, TickTimeout
  <2>4. ASSUME NEW r \in Requests, rows'[r].status = "imported"
        PROVE  \/ "request_fulfilled" \in told'[r]
               \/ tickPc' = "publish" /\ Current(r)' /\ answer' = "imported"
    <3>1. CASE "request_fulfilled" \in told[r]
      BY <2>1, <3>1, ToldSources
    <3>2. CASE rows[r].status # "imported"
      <4>1. CASE MarkPolledRow(r) /\ rows'[r].status = MarkedStatus(r)
        <5>1. r \in InBatch /\ MarkedStatus(r) = "imported" /\ Current(r)
          BY <2>4, <4>1, MarkPolledRowFacts
        <5>2. MarkedStatus(r) # batch[r].status
          BY <5>1 DEF TickInv, Terminal
        <5> QED
          BY <4>1, <5>1, <5>2, MarkPolledRowFacts
      <4>2. CASE RecordError(r) /\ rows'[r].status = batch[r].status
        BY <2>4, <4>2, RecordErrorFacts DEF TickInv, Terminal
      <4> QED
        BY <2>4, <3>2, <4>1, <4>2, RowSources
    <3>3. CASE tickPc = "publish" /\ Current(r) /\ answer = "imported"
      <4>1. CASE \E q \in Requests : PublishTransition(q)
        <5>1. PICK q \in Requests : PublishTransition(q)
          BY <4>1
        <5>2. q = r
          BY <2>1, <3>3, <5>1, PublishFacts, OneCurrent DEF TickInv, Base
        <5>3. told'[r] = told[r] \cup {EventFor(answer)}
          BY <2>2, <5>1, <5>2, PublishFacts
        <5> QED
          BY <3>3, <5>3 DEF EventFor
      <4>2. CASE UNCHANGED reconcilerVars \/ UNCHANGED vars \/ Pause \/ AdminStep
        BY <2>1, <3>3, <4>2, PauseFacts, AdminRows, OutsideTick DEF vars
      <4>3. CASE \E q \in Requests : Poll(q) \/ RecordError(q) \/ MarkPolledRow(q)
        BY <2>1, <3>3, <4>3, PollFacts, RecordErrorFacts, MarkPolledRowFacts
      <4>4. CASE TickBegin \/ TickFinish
        BY <3>3, <4>4, BetweenTicks
      <4> QED
        BY <2>2, <4>1, <4>2, <4>3, <4>4 DEF Next, TickStep, Pause
    <3> QED
      BY <3>1, <3>2, <3>3
  <2> QED
    BY <2>1, <2>3, <2>4
<1>3. AnnouncedInv => ImportedIsAnnounced
  BY DEF AnnouncedInv, ImportedIsAnnounced
<1> QED
  BY <1>1, <1>2, <1>3, PTL DEF Spec

-----------------------------------------------------------------------------
(* A fulfilment is announced once.                                          *)

OnceInv ==
    /\ TickInv
    /\ \A r \in Requests : "request_fulfilled" \in told[r] => IsTerminal(r) /\ r \notin InBatch
    /\ tickPc = "publish" /\ answer = "imported" /\ ~expired =>
          \A r \in Requests : Current(r) => IsTerminal(r)
    /\ \A r \in InBatch : Exists(r)

LEMMA OnceNext ==
    ASSUME {"db", "retry"} \cap Disturbances = {}
    PROVE  OnceInv /\ [Next]_vars => OnceInv'
<1> SUFFICES ASSUME OnceInv, [Next]_vars PROVE OnceInv'
  OBVIOUS
<1> USE DEF OnceInv
<1>1. TickInv' /\ RowsKept /\ Base
  BY TickInvNext DEF TickInv
<1>2. ~Disturb("db")
  BY DEF Disturb
<1>3. \A r \in Requests : IsTerminal(r) => IsTerminal(r)'
  <2> SUFFICES ASSUME NEW r \in Requests, IsTerminal(r) PROVE IsTerminal(r)'
    OBVIOUS
  <2>1. CASE AdminStep
    BY <1>1, <2>1, AdminRows DEF IsTerminal, Terminal
  <2>2. CASE rows'[r].status = rows[r].status
    BY <2>2 DEF IsTerminal
  <2> QED
    BY <2>1, <2>2, RowSources
<1>4. \A r \in Requests : Exists(r) => Exists(r)'
  <2> SUFFICES ASSUME NEW r \in Requests, Exists(r), ~Exists(r)' PROVE FALSE
    OBVIOUS
  <2>1. CASE RecordError(r) \/ MarkPolledRow(r)
    BY <1>1, <2>1, RecordErrorFacts, MarkPolledRowFacts
       DEF Exists, TickInv, Base, BatchOK, Statuses, LocalStatuses, PolledStatuses, Terminal, TerminalGuard
  <2> QED
    BY <2>1, RowSources DEF Exists
<1>5. \A r \in InBatch' : Exists(r)'
  <2>1. CASE TickBegin
    BY <2>1, ListedRow, BetweenTicks DEF Exists
  <2> QED
    BY <1>1, <1>4, <2>1, BatchSteps DEF InBatch
<1>6. ASSUME NEW r \in Requests, "request_fulfilled" \in told'[r]
      PROVE  IsTerminal(r)' /\ r \notin InBatch'
  <2>1. CASE "request_fulfilled" \in told[r]
    <3>1. IsTerminal(r) /\ r \notin InBatch
      BY <2>1
    <3>2. r \notin InBatch'
      BY <1>1, <3>1, BatchSteps, ListedRow
    <3> QED
      BY <1>3, <3>1, <3>2
  <2>2. CASE "request_fulfilled" \notin told[r]
    <3>1. PublishTransition(r)
      BY <1>1, <1>6, <2>2, ToldSources
    <3>2. /\ answer = "imported" /\ tickPc = "publish" /\ Current(r)
          /\ InBatch' = InBatch \ {r}
      BY <1>6, <2>2, <3>1, PublishFacts DEF EventFor
    <3>3. expired => UNCHANGED told
      BY <3>1, PublishFacts
    <3> QED
      BY <1>3, <1>6, <2>2, <3>2, <3>3
  <2> QED
    BY <2>1, <2>2
<1>7. ASSUME tickPc' = "publish", answer' = "imported", ~expired', NEW r \in Requests, Current(r)'
      PROVE  IsTerminal(r)'
  <2>1. CASE \E q \in Requests : MarkPolledRow(q)
    <3>1. PICK q \in Requests : MarkPolledRow(q)
      BY <2>1
    <3>2. /\ tickPc = "mark" /\ Current(q) /\ q \in InBatch /\ UNCHANGED expired
          /\ Current(r) /\ MarkedStatus(q) = answer /\ UNCHANGED answer
      BY <1>7, <3>1, MarkPolledRowFacts
    <3>3. q = r
      BY <3>2, OneCurrent DEF TickInv, Base
    <3>4. ~expired
      BY <1>7, <3>2 DEF TickInv, Base, TypeOK, ReconcilerTypeOK
    <3>5. rows'[r].status = TerminalGuard(rows[r].status, MarkedStatus(r))
      BY <1>2, <3>1, <3>2, <3>3, <3>4, MarkPolledRowFacts
    <3> QED
      BY <1>7, <3>2, <3>3, <3>5 DEF TerminalGuard, IsTerminal, Terminal
  <2>2. CASE UNCHANGED reconcilerVars \/ UNCHANGED vars \/ AdminStep
    <3>1. UNCHANGED reconcilerVars
      BY <1>1, <2>2, AdminRows DEF vars
    <3>2. UNCHANGED <<tickPc, answer, expired>> /\ Current(r)
      BY <1>7, <3>1, OutsideTick
    <3>3. ~expired
      BY <1>7, <3>2 DEF TickInv, Base, TypeOK, ReconcilerTypeOK
    <3> QED
      BY <1>3, <1>7, <3>2, <3>3
  <2>3. CASE Pause
    <3>1. UNCHANGED <<tickPc, answer>> /\ Current(r)
      BY <1>7, <2>3, PauseFacts
    <3>2. ~expired
      BY <1>7, <2>3 DEF Pause, TickFailsToList, TickParked, TickSkipped, TickTimeout,
                        BackoffElapsed, tickVars, TickInv, Base, TypeOK, ReconcilerTypeOK
    <3> QED
      BY <1>3, <1>7, <3>1, <3>2
  <2>4. CASE \E q \in Requests : Poll(q) \/ RecordError(q) \/ PublishTransition(q)
    BY <1>1, <1>7, <2>4, PollFacts, RecordErrorFacts, PublishFacts
  <2>5. CASE TickBegin \/ TickFinish \/ Crash
    BY <1>7, <2>5, BetweenTicks
  <2> QED
    BY <2>1, <2>2, <2>3, <2>4, <2>5 DEF Next, TickStep, Pause
<1> QED
  BY <1>1, <1>5, <1>6, <1>7

\* The portal hears of a fulfilment at most once, across crashes, redeliveries,
\* timeouts and manual failures, if every statement succeeds and no row is
\* retried (reconciler.go:255-275, status-translation.md:55-61).
THEOREM FulfilledOnceHolds ==
    ASSUME {"db", "retry"} \cap Disturbances = {}
    PROVE  Spec => FulfilledOnce
<1>1. Init => OnceInv
  <2> SUFFICES ASSUME Init PROVE OnceInv
    OBVIOUS
  <2>1. InBatch = {} /\ tickPc = "idle" /\ \A r \in Requests : told[r] = {}
    BY DEF Init, EnvInit, ReconcilerInit, NoTick, NoRow, InBatch
  <2> QED
    BY <2>1, TickInvInit DEF OnceInv
<1>2. OnceInv => [\A r \in Requests :
                    PublishTransition(r) /\ answer = "imported"
                       => "request_fulfilled" \notin told[r]]_vars
  BY DEF OnceInv, PublishTransition, Current
<1> QED
  BY <1>1, <1>2, OnceNext, PTL DEF Spec, FulfilledOnce
=============================================================================
