---------------------------- MODULE RequestStore ----------------------------
(***************************************************************************)
(* The table forwarded_request (migrate/files/0001_init.up.sql) and the    *)
(* statements of internal/store/request.go.  Every statement is one        *)
(* Postgres statement on one row, hence one atomic operator here; what a   *)
(* caller does between two statements is its own business.                 *)
(*                                                                         *)
(* A row is a record [status, ext, err].  A row that does not exist has    *)
(* status "absent".  NULL and '' are not told apart by the code and are    *)
(* NoJob (external_id) and NoError (error_text).  Of last_polled only the  *)
(* order matters: pollOrder is the set of pairs <<q, r>> such that both    *)
(* have been stamped and q's stamp is not later than r's, so r has a       *)
(* non-NULL last_polled exactly when <<r, r>> \in pollOrder.               *)
(***************************************************************************)
EXTENDS Naturals, FiniteSets

CONSTANTS
    Requests,    \* request_ids; naturals, so that they are ordered
    JobIds,      \* ids the upstream may give to a monitoring job
    NoJob,       \* the NULL or empty external_id
    BatchLimit   \* the limit Tick passes to ListNonTerminal (200)

ASSUME RequestsAssumption   == Requests \subseteq Nat /\ IsFiniteSet(Requests)
ASSUME NoJobAssumption      == NoJob \notin JobIds
ASSUME BatchLimitAssumption == BatchLimit \in Nat \ {0}

VARIABLES rows, pollOrder

storeVars == <<rows, pollOrder>>

-----------------------------------------------------------------------------
LocalStatuses  == {"submitted", "acknowledged"}
PolledStatuses == {"searching", "found", "downloading"}
Terminal       == {"imported", "failed"}
Statuses       == LocalStatuses \cup PolledStatuses \cup Terminal

NoError    == "none"
PollErrors == {"unreachable", "rate limited", "gone"}
ErrorTexts == PollErrors \cup {NoError, "no metadata", "not accepted", "by admin"}

MaybeJob == JobIds \cup {NoJob}

Row       == [status : Statuses \cup {"absent"}, ext : MaybeJob, err : ErrorTexts]
AbsentRow == [status |-> "absent", ext |-> NoJob, err |-> NoError]

StoreTypeOK ==
    /\ rows \in [Requests -> Row]
    /\ pollOrder \subseteq Requests \X Requests

StoreInit ==
    /\ rows = [r \in Requests |-> AbsentRow]
    /\ pollOrder = {}

Exists(r)     == rows[r].status # "absent"
IsTerminal(r) == rows[r].status \in Terminal
Tracked(r)    == rows[r].ext # NoJob

-----------------------------------------------------------------------------
(* The two expressions the statements share. *)

\* Mutant of TerminalGuard: no guard.
Unguarded(old, new) == new

\* CASE WHEN status IN ('imported','failed') THEN status ELSE new END
TerminalGuard(old, new) == IF old \in Terminal THEN old ELSE new

\* Mutant of Coalesce: the column is overwritten with NULL.
Overwrite(new, old, null) == new

\* COALESCE(new, old), with null for NULL
Coalesce(new, old, null) == IF new = null THEN old ELSE new

\* last_polled := now: r becomes the last of the stamped rows
Stamped(order) == {r \in Requests : <<r, r>> \in order}
WithoutStamp(order, r) == {p \in order : p[1] # r /\ p[2] # r}
Stamp(order, r) ==
    WithoutStamp(order, r) \cup {<<q, r>> : q \in Stamped(order) \cup {r}}

-----------------------------------------------------------------------------
(* The statements, as the table they leave. *)

UpsertedRow(r, ext, status, err) ==
    [status |-> TerminalGuard(rows[r].status, status),
     ext    |-> Coalesce(ext, rows[r].ext, NoJob),
     err    |-> Coalesce(err, rows[r].err, NoError)]

\* UpsertForwardedRequest by the consumer, which leaves last_polled NULL
UpsertForwardedRequest(r, ext, status, err) ==
    /\ rows' = [rows EXCEPT ![r] = UpsertedRow(r, ext, status, err)]
    /\ UNCHANGED pollOrder

\* UpsertForwardedRequest by the reconciler, which sets last_polled to now
UpsertPolled(r, ext, status, err) ==
    /\ rows' = [rows EXCEPT ![r] = UpsertedRow(r, ext, status, err)]
    /\ pollOrder' = Stamp(pollOrder, r)

\* Mutant of MarkPolled: error_text is left alone.
MarkPolledKeepingError(r, ext, status) ==
    /\ rows' = [rows EXCEPT ![r] = UpsertedRow(r, ext, status, NoError)]
    /\ pollOrder' = Stamp(pollOrder, r)

\* MarkPolled is an UPDATE: no effect when the row is gone
MarkPolled(r, ext, status) ==
    IF Exists(r)
    THEN /\ rows' = [rows EXCEPT ![r] =
                        [status |-> TerminalGuard(rows[r].status, status),
                         ext    |-> Coalesce(ext, rows[r].ext, NoJob),
                         err    |-> NoError]]
         /\ pollOrder' = Stamp(pollOrder, r)
    ELSE UNCHANGED storeVars

\* Mutant of RetryRequest: rows without an external_id are retried too.
RetryAnyRequest(r) ==
    /\ Exists(r)
    /\ rows' = [rows EXCEPT ![r] =
                    [status |-> "acknowledged", ext |-> rows[r].ext, err |-> NoError]]
    /\ pollOrder' = WithoutStamp(pollOrder, r)

\* RetryRequest has no terminal guard: it is how a row leaves a terminal status
RetryRequest(r) ==
    /\ Exists(r) /\ Tracked(r)                      \* else ErrNotFound
    /\ rows' = [rows EXCEPT ![r] =
                    [status |-> "acknowledged", ext |-> rows[r].ext, err |-> NoError]]
    /\ pollOrder' = WithoutStamp(pollOrder, r)

\* MarkFailedManually takes any row, whatever its status
MarkFailedManually(r) ==
    /\ Exists(r)                                    \* else ErrNotFound
    /\ rows' = [rows EXCEPT ![r] =
                    [status |-> "failed", ext |-> rows[r].ext, err |-> "by admin"]]
    /\ UNCHANGED pollOrder

-----------------------------------------------------------------------------
(* ListNonTerminal: NULL stamps first, then the oldest stamp, ties by id. *)

\* Mutant of Before: ordered by request_id alone.
BeforeById(q, r) == q < r

Before(q, r) ==
    LET stamped == Stamped(pollOrder) IN
    \/ q \notin stamped /\ r \in stamped
    \/ q \notin stamped /\ r \notin stamped /\ q < r
    \/ q # r /\ <<q, r>> \in pollOrder

NonTerminal     == {r \in Requests : Exists(r) /\ ~IsTerminal(r)}
PollPosition(r) == Cardinality({q \in NonTerminal : Before(q, r)}) + 1
ListNonTerminal == {r \in NonTerminal : PollPosition(r) <= BatchLimit}
=============================================================================
