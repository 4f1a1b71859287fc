---------------------------- MODULE RequestLedger ----------------------------
(***************************************************************************)
(* What the plugin promises of a request, without its consumer, reconciler *)
(* or table: a request stays owed until it is tracked or decided, what is  *)
(* tracked stays tracked, and a decision is undone by an operator only.    *)
(*                                                                         *)
(*   status[r]  "open", or the decision "imported" or "failed"             *)
(*   tracked    the requests for which a job is known                      *)
(*   owed       the requests the host would deliver again after a crash    *)
(***************************************************************************)
CONSTANT Requests

VARIABLES status, tracked, owed

ledger == <<status, tracked, owed>>

LedgerTypeOK ==
    /\ status \in [Requests -> {"open", "imported", "failed"}]
    /\ tracked \subseteq Requests
    /\ owed \subseteq Requests

Init ==
    /\ status = [r \in Requests |-> "open"]
    /\ tracked = {}
    /\ owed = Requests

\* A job is known for r from now on, decided or not.
Track(r) ==
    /\ r \in owed
    /\ tracked' = tracked \cup {r}
    /\ UNCHANGED <<status, owed>>

\* r was rejected, or its job could not be started.
Reject(r) ==
    /\ r \in owed /\ status[r] = "open"
    /\ status' = [status EXCEPT ![r] = "failed"]
    /\ UNCHANGED <<tracked, owed>>

\* The host is told that the event of r needs no more attention.
Settle(r) ==
    /\ r \in tracked \/ status[r] # "open"
    /\ owed' = owed \ {r}
    /\ UNCHANGED <<status, tracked>>

\* The host delivers once more, settled or not.
Redeliver(r) ==
    /\ owed' = owed \cup {r}
    /\ UNCHANGED <<status, tracked>>

\* The job of r ended.
Decide(r) ==
    /\ r \in tracked /\ status[r] = "open"
    /\ \E s \in {"imported", "failed"} : status' = [status EXCEPT ![r] = s]
    /\ UNCHANGED <<tracked, owed>>

OperatorFail(r) ==
    /\ status' = [status EXCEPT ![r] = "failed"]
    /\ UNCHANGED <<tracked, owed>>

OperatorRetry(r) ==
    /\ r \in tracked
    /\ status' = [status EXCEPT ![r] = "open"]
    /\ UNCHANGED <<tracked, owed>>

Next == \E r \in Requests :
    \/ Track(r) \/ Reject(r) \/ Settle(r) \/ Redeliver(r)
    \/ Decide(r) \/ OperatorFail(r) \/ OperatorRetry(r)

Spec == Init /\ [][Next]_ledger
=============================================================================
