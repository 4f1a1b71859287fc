----------------------------- MODULE AdminQueue -----------------------------
(***************************************************************************)
(* GET /api/v1/admin/requests: handleListRequests (internal/server),       *)
(* ListRequests (internal/store), and a client that walks from page to     *)
(* page as the admin page does, while the pipeline and operators go on.    *)
(* A request for a page is two statements, a count and a select, with no   *)
(* transaction around them.                                                *)
(*                                                                         *)
(* Row i is the i-th that was created, so that ORDER BY created_at DESC is *)
(* the descending order of the numbers.  A filter (status, or a search on  *)
(* the ids) is whether a row matches; a search on request_id matches or    *)
(* not for ever, a status comes and goes.                                  *)
(***************************************************************************)
EXTENDS Integers, FiniteSets

CONSTANTS
    MaxRows,       \* bound on the rows that are ever created
    MaxChanges,    \* bound on the rows that come into or leave the filter
    LimitParams,   \* what ?limit= may say; a negative number is one that is
                   \* missing, does not parse, or is negative
                   \* (0, for which every page is the first, is left out)
    DefaultLimit,  \* 50
    MaxLimit       \* 200

ASSUME BoundAssumption == MaxRows \in Nat /\ MaxChanges \in Nat
ASSUME LimitAssumption ==
    /\ LimitParams \subseteq Int \ {0}
    /\ DefaultLimit \in Nat \ {0} /\ MaxLimit \in Nat /\ DefaultLimit <= MaxLimit

VARIABLES
    created,    \* number of rows in the table
    matching,   \* the rows that match the filter of the walk
    walk,       \* the client: where it is, with which limit, and what it saw
    \* history since the walk began:
    steady,     \* rows that matched at the beginning and ever since
    left,       \* how many rows left the filter
    joined,     \* how many came in, by creation or by a change
    torn        \* how many came in between the last count and its select

tableVars   == <<created, matching>>
historyVars == <<steady, left, joined, torn>>
vars        == <<tableVars, walk, historyVars>>

Rows == 1..created
Walk == [pc : {"idle", "count", "select", "done"}, limit : Nat \ {0},
         page : Nat \ {0}, total : Nat, seen : SUBSET (1..MaxRows), repeats : Nat]

TypeOK ==
    /\ created \in 0..MaxRows
    /\ matching \subseteq Rows /\ steady \subseteq matching
    /\ walk \in Walk
    /\ left \in Nat /\ joined \in Nat /\ torn \in Nat

\* The walk begins on a queue of any length.
Init ==
    /\ created \in 0..MaxRows /\ matching \in SUBSET (1..created)
    /\ walk = [pc |-> "idle", limit |-> DefaultLimit, page |-> 1,
               total |-> 0, seen |-> {}, repeats |-> 0]
    /\ steady = {} /\ left = 0 /\ joined = 0 /\ torn = 0

-----------------------------------------------------------------------------
(* Others change the table. *)

Comes ==
    /\ joined' = joined + 1
    /\ torn' = IF walk.pc = "select" THEN torn + 1 ELSE torn
    /\ UNCHANGED <<walk, steady, left>>

\* The consumer's first upsert of a request
Create ==
    /\ created < MaxRows
    /\ created' = created + 1
    /\ \/ matching' = matching \cup {created'} /\ Comes
       \/ UNCHANGED <<matching, walk, historyVars>>

\* A handler, a tick or an operator changes the status of a row.
ChangeStatus(i) ==
    /\ left + joined < MaxChanges
    /\ \/ i \notin matching /\ matching' = matching \cup {i} /\ Comes
       \/ /\ i \in matching /\ matching' = matching \ {i}
          /\ steady' = steady \ {i} /\ left' = left + 1
          /\ UNCHANGED <<walk, joined, torn>>
    /\ UNCHANGED created

-----------------------------------------------------------------------------
(* The server. *)

\* Mutant of AtoiOr: a negative number is taken as it is.
AtoiAsIs(n, default) == n

AtoiOr(n, default) == IF n < 0 THEN default ELSE n

\* The handler multiplies with the limit that was asked for ...
Offset(page, limit) == (page - 1) * limit

\* Mutants of EffectiveLimit: 200 is refused as well; a limit below the
\* default is raised to it.
ExclusiveLimit(limit) == IF limit >= MaxLimit THEN DefaultLimit ELSE limit
RaisedLimit(limit) ==
    IF limit < DefaultLimit \/ limit > MaxLimit THEN DefaultLimit ELSE limit

\* ... and the store may select with another.
EffectiveLimit(limit) ==
    IF limit <= 0 \/ limit > MaxLimit THEN DefaultLimit ELSE limit

Rank(i)           == Cardinality({j \in matching : j >= i})
Page(page, limit) ==
    {i \in matching : /\ Rank(i) > Offset(page, limit)
                      /\ Rank(i) <= Offset(page, limit) + EffectiveLimit(limit)}

-----------------------------------------------------------------------------
(* The client. *)

BeginWalk ==
    /\ walk.pc = "idle"
    /\ \E n \in LimitParams :
          walk' = [walk EXCEPT !.pc = "count", !.limit = AtoiOr(n, DefaultLimit)]
    /\ steady' = matching /\ left' = 0 /\ joined' = 0 /\ torn' = 0
    /\ UNCHANGED tableVars

Count ==
    /\ walk.pc = "count"
    /\ walk' = [walk EXCEPT !.pc = "select", !.total = Cardinality(matching)]
    /\ torn' = 0
    /\ UNCHANGED <<tableVars, steady, left, joined>>

\* "Next" is enabled while page < ceil(total / limit).
Select ==
    LET rows == Page(walk.page, walk.limit) IN
    /\ walk.pc = "select"
    /\ walk' = [walk EXCEPT
          !.seen    = @ \cup rows,
          !.repeats = @ + Cardinality(rows \cap walk.seen),
          !.pc      = IF walk.page * walk.limit < walk.total THEN "count" ELSE "done",
          !.page    = IF walk.page * walk.limit < walk.total THEN @ + 1 ELSE @]
    /\ UNCHANGED <<tableVars, historyVars>>

Next ==
    \/ Create \/ \E i \in Rows : ChangeStatus(i)
    \/ BeginWalk \/ Count \/ Select

Spec == Init /\ [][Next]_vars

-----------------------------------------------------------------------------
\* A walk with a limit the store accepts misses a row that was there all the
\* time only if another row left the filter meanwhile, or came in between the
\* count and the select of the page the walk took for the last; and it misses
\* no more rows than that (server.go:101-107, store/request.go:173-214).
WalkMissesFew ==
    walk.pc = "done" /\ walk.limit <= MaxLimit
        => Cardinality(steady \ walk.seen) <= left + torn

\* It shows a row a second time at most once for each row that came in.
WalkRepeatsFew == walk.repeats <= joined
=============================================================================
