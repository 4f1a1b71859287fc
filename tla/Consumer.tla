------------------------------ MODULE Consumer ------------------------------
(***************************************************************************)
(* internal/consumer: HandleEvent, one step per statement or remote call.  *)
(* A handler works on the delivery it took from pending; returning an      *)
(* error (a nack) puts the delivery back, returning a response (an ack)    *)
(* drops it.  The payload checks that need no state (event name, target,   *)
(* request id) are left out; every delivery here passes them.              *)
(***************************************************************************)
EXTENDS Environment

CONSTANTS
    Handlers,    \* deliveries the host may have in progress at once
    NoRequest,   \* what an idle handler works on
    NoMetadata   \* requests whose payload has neither title nor isbn

ASSUME NoRequestAssumption  == NoRequest \notin Requests
ASSUME NoMetadataAssumption == NoMetadata \subseteq Requests

VARIABLE handler   \* handler[h]: where HandleEvent is, on what, with which job

HandlerPcs == { "idle",          \* no delivery
                "reject",        \* submitted; about to record the missing metadata
                "add",           \* submitted; about to call AddMonitoring
                "recordFailed",  \* AddMonitoring failed
                "recordAck",     \* AddMonitoring answered
                "tellFailed",    \* failure recorded; about to publish it
                "tellAck" }      \* job recorded; about to publish it

Handler == [pc : HandlerPcs, req : Requests \cup {NoRequest}, job : MaybeJob]
Idle    == [pc |-> "idle", req |-> NoRequest, job |-> NoJob]

ConsumerTypeOK == handler \in [Handlers -> Handler]
ConsumerInit   == handler = [h \in Handlers |-> Idle]

InHand == {handler[h].req : h \in Handlers} \ {NoRequest}

At(h, pc)      == handler[h].pc = pc
MoveTo(h, pc)  == handler' = [handler EXCEPT ![h].pc = pc]
Release(h)     == handler' = [handler EXCEPT ![h] = Idle]

\* return &HandleEventResponse{}, nil
Ack(h)  == Release(h) /\ UNCHANGED pending
\* return nil, err: the host delivers the event again
Nack(h) == Release(h) /\ pending' = pending \cup {handler[h].req}

-----------------------------------------------------------------------------
\* "persist before kicking off the upstream download".  A handler whose
\* plugin is not configured, or whose statement fails, nacks at once.
Receive(h, r) ==
    LET persist == UpsertForwardedRequest(r, NoJob, "submitted", NoError) IN
    /\ At(h, "idle")
    /\ r \in pending
    /\ \/ /\ Undisturbed
          /\ persist
          /\ pending' = pending \ {r}
          /\ handler' = [handler EXCEPT ![h] =
                [pc  |-> IF r \in NoMetadata THEN "reject" ELSE "add",
                 req |-> r, job |-> NoJob]]
       \/ /\ Disturb("db")
          /\ persist \/ UNCHANGED storeVars      \* applied or not
          /\ UNCHANGED <<pending, handler>>
    /\ UNCHANGED <<told, jobs>>

\* The failure of this statement is logged and otherwise ignored.
RejectMissingMetadata(h) ==
    LET r       == handler[h].req
        persist == UpsertForwardedRequest(r, NoJob, "failed", "no metadata")
    IN
    /\ At(h, "reject")
    /\ \/ Undisturbed /\ persist
       \/ Disturb("db") /\ (persist \/ UNCHANGED storeVars)
    /\ MoveTo(h, "tellFailed")
    /\ UNCHANGED <<pending, told, jobs>>

AddMonitoring(h) ==
    LET r == handler[h].req IN
    /\ At(h, "add")
    /\ \/ \E j \in JobIds :                      \* accepted
            /\ StartJob(r, j) /\ Undisturbed
            /\ handler' = [handler EXCEPT ![h].pc = "recordAck", ![h].job = j]
       \/ \E j \in JobIds :                      \* accepted, no id in the answer
            /\ StartJob(r, j) /\ Disturb("noid")
            /\ MoveTo(h, "recordAck")
       \/ \E j \in JobIds :                      \* accepted, the answer too late
            /\ StartJob(r, j) /\ Disturb("late")
            /\ MoveTo(h, "recordFailed")
       \/ /\ Disturb("upstream") /\ UNCHANGED jobs
          /\ MoveTo(h, "recordFailed")
    /\ UNCHANGED <<pending, told, storeVars>>

\* "Couldn't even record the failure - nack so it's retried"
RecordFailed(h) ==
    LET r       == handler[h].req
        persist == UpsertForwardedRequest(r, NoJob, "failed", "not accepted")
    IN
    /\ At(h, "recordFailed")
    /\ \/ /\ Undisturbed /\ persist
          /\ MoveTo(h, "tellFailed") /\ UNCHANGED pending
       \/ /\ Disturb("db") /\ (persist \/ UNCHANGED storeVars)
          /\ Nack(h)
    /\ UNCHANGED <<told, jobs>>

\* Mutant of RecordAck: the row is acknowledged without the external_id.
RecordAckOnly(h) ==
    LET r       == handler[h].req
        persist == UpsertForwardedRequest(r, NoJob, "acknowledged", NoError)
    IN
    /\ At(h, "recordAck")
    /\ \/ /\ Undisturbed /\ persist
          /\ MoveTo(h, "tellAck") /\ UNCHANGED pending
       \/ /\ Disturb("db") /\ (persist \/ UNCHANGED storeVars)
          /\ Nack(h)
    /\ UNCHANGED <<told, jobs>>

\* "Must persist the external_id"
RecordAck(h) ==
    LET r       == handler[h].req
        persist == UpsertForwardedRequest(r, handler[h].job, "acknowledged", NoError)
    IN
    /\ At(h, "recordAck")
    /\ \/ /\ Undisturbed /\ persist
          /\ MoveTo(h, "tellAck") /\ UNCHANGED pending
       \/ /\ Disturb("db") /\ (persist \/ UNCHANGED storeVars)
          /\ Nack(h)
    /\ UNCHANGED <<told, jobs>>

TellFailed(h) ==
    /\ At(h, "tellFailed")
    /\ Publish(handler[h].req, "request_failed")
    /\ Ack(h)
    /\ UNCHANGED <<jobs, storeVars>>

TellAck(h) ==
    /\ At(h, "tellAck")
    /\ Publish(handler[h].req, "request_acknowledged")
    /\ Ack(h)
    /\ UNCHANGED <<jobs, storeVars>>

HandlerStep(h) ==
    \/ RejectMissingMetadata(h) \/ AddMonitoring(h)
    \/ RecordFailed(h) \/ RecordAck(h)
    \/ TellFailed(h) \/ TellAck(h)
=============================================================================
