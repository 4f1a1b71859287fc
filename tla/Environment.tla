----------------------------- MODULE Environment -----------------------------
(***************************************************************************)
(* What surrounds the plugin: the host that delivers request_submitted     *)
(* events at least once and relays the plugin's own events to the portal,  *)
(* the upstream EbookDB that runs the monitoring jobs, and whatever goes   *)
(* wrong or is done by an operator.  None of it is code of the repository; *)
(* it is modelled from how internal/consumer, internal/reconciler,         *)
(* internal/event and internal/ebookdb use it.                             *)
(*                                                                         *)
(* Every misfortune and every operator intervention is a "disturbance".    *)
(* Disturbances names the kinds that may happen in a run, MaxDisturbances  *)
(* bounds how many do: the only bound on behaviours, and what makes        *)
(* "disturbances eventually stop" part of every liveness property.         *)
(***************************************************************************)
EXTENDS RequestStore

CONSTANTS
    Disturbances,      \* the kinds of disturbance that may happen
    MaxDisturbances,   \* how many of them
    UpstreamStatuses   \* statuses a monitoring job moves through

DisturbanceKinds ==
    { "db",          \* a statement returns an error, applied or not
      "publish",     \* Publish fails; the publisher logs and forgets
      "duplicate",   \* the host delivers an event once more
      "crash",       \* the plugin process dies
      "upstream",    \* an upstream call fails without effect
      "late",        \* AddMonitoring times out after the job was created
      "noid",        \* AddMonitoring answers 2xx with a status and no id
      "ratelimit",   \* GetMonitoring answers 429
      "timeout",     \* the tick's context expires
      "retry",       \* an operator retries a row
      "markfailed" } \* an operator marks a row failed

RawStatuses == { "monitored", "searching", "searching_now", "found",
                 "found_pending", "grabbed", "downloading", "completed",
                 "imported", "failed", "not_found", "error", "paused" }

\* "gone" is a job the upstream has forgotten: GetMonitoring answers 404.
Gone      == "gone"
Completed == {"completed", "imported"}

ASSUME DisturbancesAssumption == Disturbances \subseteq DisturbanceKinds
ASSUME UpstreamAssumption     == UpstreamStatuses \subseteq RawStatuses \cup {Gone}

VARIABLES
    pending,       \* requests whose request_submitted event is to be delivered
    told,          \* told[r]: names of the events about r the host has received
    jobs,          \* jobs[j]: on whose behalf it runs, and its status
    disturbances   \* how many disturbances have happened

envVars == <<pending, told, jobs, disturbances>>

EventNames == { "request_acknowledged", "request_failed",
                "request_fulfilled", "request_status_changed" }
Job        == [owners : SUBSET Requests, status : RawStatuses \cup {Gone}]

EnvTypeOK ==
    /\ pending \subseteq Requests
    /\ told \in [Requests -> SUBSET EventNames]
    /\ jobs \in [JobIds -> Job]
    /\ disturbances \in Nat

EnvInit ==
    /\ pending = Requests
    /\ told = [r \in Requests |-> {}]
    /\ jobs = [j \in JobIds |-> [owners |-> {}, status |-> "monitored"]]
    /\ disturbances = 0

-----------------------------------------------------------------------------
Disturb(kind) ==
    /\ kind \in Disturbances
    /\ disturbances < MaxDisturbances
    /\ disturbances' = disturbances + 1

Undisturbed == UNCHANGED disturbances

\* A call of the publisher: the event arrives, or is lost without a trace.
Publish(r, event) ==
    \/ Undisturbed /\ told' = [told EXCEPT ![r] = @ \cup {event}]
    \/ Disturb("publish") /\ UNCHANGED told

Started(j) == jobs[j].owners # {}

\* The upstream answers AddMonitoring for r with job j: a new job, or the one
\* it already runs for the same book.
StartJob(r, j) == jobs' = [jobs EXCEPT ![j].owners = @ \cup {r}]

-----------------------------------------------------------------------------
\* The host delivers the event of r once more (delivery is at least once).
Redeliver(r) ==
    /\ Disturb("duplicate")
    /\ r \notin pending
    /\ pending' = pending \cup {r}
    /\ UNCHANGED <<told, jobs, storeVars>>

\* A job moves; a completed job stays completed and a forgotten one forgotten.
UpstreamProgress(j) ==
    /\ Started(j)
    /\ jobs[j].status \notin Completed \cup {Gone}
    /\ \E s \in UpstreamStatuses \ {jobs[j].status} :
           jobs' = [jobs EXCEPT ![j].status = s]
    /\ UNCHANGED <<pending, told, disturbances, storeVars>>
=============================================================================
