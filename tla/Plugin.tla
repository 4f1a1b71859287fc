------------------------------- MODULE Plugin -------------------------------
(***************************************************************************)
(* cmd/silo-plugin-ebook-requests/main.go and internal/runtime: what       *)
(* Configure builds, the pointers through which the capability servers     *)
(* reach it, and the work that is under way when they are exchanged: a     *)
(* delivery in the consumer, ticks, and PATCH requests on the row of       *)
(* app_config from which Configure takes its settings (module AppConfig).  *)
(*                                                                         *)
(* Configure call g builds generation g: a pool, and, if base_url and      *)
(* api_key are set, the consumer's Deps and a Reconciler on that pool.     *)
(* Each Reconciler has a tickMu of its own.  A statement on a closed pool  *)
(* returns an error.  One request stands for the table, and its way is     *)
(* reduced to what a change of generation can disturb; the whole of        *)
(* HandleEvent and of Tick is in modules Consumer and Reconciler.          *)
(***************************************************************************)
EXTENDS AppConfig, FiniteSets

CONSTANTS
    MaxConfigures,   \* how many times Configure is called
    MaxRunning,      \* how many calls may overlap; 1 if the host awaits each
    HostConfigs      \* what the host may send; Configure rejects an invalid URL

ASSUME MaxConfiguresAssumption == MaxConfigures \in Nat \ {0}
ASSUME MaxRunningAssumption    == MaxRunning \in Nat \ {0}
ASSUME HostAssumption          == HostConfigs \subseteq Config

Generations == 1..MaxConfigures
None        == 0

VARIABLES
    configure,      \* configure[g]: where Configure call g is
    conf,           \* conf[g]: the host's configuration, then the one in force
    pool,           \* pool[g]
    consumerDeps,   \* consumerDepsP
    reconciler,     \* reconcilerPtr
    handler,        \* the generation of the handler SetHandler stored
    poolPtr,        \* poolPtr
    edited,         \* history: app_config was written since Configure read it
    delivery,       \* HandleEvent on the one request_submitted event
    tick,           \* tick[g]: the running Tick of g's Reconciler
    rowStatus,      \* status of the row; it has its external_id once acknowledged
    jobStatus,      \* status of the job AddMonitoring started last
    announced       \* announced[g]: request_fulfilled events g's Reconciler sent

pointers == <<consumerDeps, reconciler, handler, poolPtr>>
wiring   == <<configure, conf, pool, pointers>>
settings == <<configVars, edited>>
rowVars  == <<rowStatus, jobStatus, announced>>
work     == <<delivery, tick, rowVars>>
vars     == <<wiring, settings, work>>

ConfigurePcs == {"waiting", "migrate", "importRead", "importWrite", "importReread",
                 "pointers", "reconciler", "handler", "swap", "done", "failed"}
Pointer      == Generations \cup {None}
OpenStatuses == {"acknowledged", "downloading"}
RowStatuses  == {"absent", "submitted", "imported"} \cup OpenStatuses
Tick         == [pc : {"idle", "row", "mark", "publish"},
                 listed : OpenStatuses \cup {""}, seen : {"", "downloading", "imported"}]
NoTick       == [pc |-> "idle", listed |-> "", seen |-> ""]
Delivery     == [pc : {"pending", "submit", "add", "record", "settled"}, gen : Pointer]

TypeOK ==
    /\ data \in StoredConfig
    /\ configure \in [Generations -> ConfigurePcs]
    /\ conf \in [Generations -> Config]
    /\ \A g \in Generations :
          configure[g] \in {"pointers", "done"} => conf[g] \in StoredConfig
    /\ pool \in [Generations -> {"none", "open", "closed"}]
    /\ {consumerDeps, reconciler, handler, poolPtr} \subseteq Pointer
    /\ edited \in BOOLEAN
    /\ delivery \in Delivery
    /\ tick \in [Generations -> Tick]
    /\ rowStatus \in RowStatuses
    /\ jobStatus \in {"none", "downloading", "imported"}
    /\ announced \in [Generations -> Nat]

Init ==
    /\ ConfigInit(None) /\ edited = FALSE
    /\ configure = [g \in Generations |-> "waiting"]
    /\ conf = [g \in Generations |-> DefaultAppConfig]
    /\ pool = [g \in Generations |-> "none"]
    /\ consumerDeps = None /\ reconciler = None /\ handler = None /\ poolPtr = None
    /\ delivery = [pc |-> "pending", gen |-> None]
    /\ tick = [g \in Generations |-> NoTick]
    /\ rowStatus = "absent" /\ jobStatus = "none"
    /\ announced = [g \in Generations |-> 0]

Running  == {g \in Generations : configure[g] \notin {"waiting", "done", "failed"}}
IsOpen(g) == pool[g] = "open"
Provider(g) == ProviderConfigured(conf[g])

Proceed(g, from, to) ==
    /\ configure[g] = from
    /\ configure' = [configure EXCEPT ![g] = to]

-----------------------------------------------------------------------------
(* Configure, up to each point where others can observe it. *)

\* Calls come in order of their numbers.
Called(g) ==
    /\ \A f \in Generations : f < g => configure[f] # "waiting"
    /\ Cardinality(Running) < MaxRunning

\* No database_url: the call succeeds and builds nothing.  A URL or a DSN that
\* is not valid: it fails before the pool exists.
ConfigureEndsEarly(g) ==
    /\ Called(g)
    /\ Proceed(g, "waiting", "done") \/ Proceed(g, "waiting", "failed")
    /\ UNCHANGED <<conf, pool, pointers, settings, work>>

\* A pool is opened; nothing refers to it yet.
OpenPool(g) ==
    /\ Called(g)
    /\ Proceed(g, "waiting", "migrate")
    /\ \E c \in HostConfigs : IsValid(c) /\ conf' = [conf EXCEPT ![g] = c]
    /\ pool' = [pool EXCEPT ![g] = "open"]
    /\ UNCHANGED <<pointers, settings, work>>

Importing == {"importRead", "importWrite", "importReread"}

\* Mutant of Abort: the pool is left open.
AbortLeakingPool(g) ==
    /\ \E pc \in Importing \cup {"migrate"} : Proceed(g, pc, "failed")
    /\ UNCHANGED <<conf, pool, pointers, settings, work>>

\* migrate.Run or a statement of ImportLegacyAppConfig fails: the pool is
\* closed again, but what the import has written stays.
Abort(g) ==
    /\ \E pc \in Importing \cup {"migrate"} : Proceed(g, pc, "failed")
    /\ pool' = [pool EXCEPT ![g] = "closed"]
    /\ UNCHANGED <<conf, pointers, settings, work>>

Migrate(g) ==
    /\ Proceed(g, "migrate", "importRead")
    /\ UNCHANGED <<conf, pool, pointers, settings, work>>

TakeStored(g, from) ==
    /\ Proceed(g, from, "pointers")
    /\ conf' = [conf EXCEPT ![g] = GetAppConfig]
    /\ edited' = FALSE
    /\ UNCHANGED <<pool, pointers, configVars, work>>

ImportRead(g) ==
    \/ ~ImportNeeded(conf[g]) /\ TakeStored(g, "importRead")
    \/ /\ ImportNeeded(conf[g]) /\ Proceed(g, "importRead", "importWrite")
       /\ UNCHANGED <<conf, pool, pointers, settings, work>>

\* The row is overwritten on the strength of what was read before.
ImportWrite(g) ==
    /\ Proceed(g, "importWrite", "importReread")
    /\ UpdateAppConfig(conf[g])
    /\ edited' = TRUE
    /\ UNCHANGED <<conf, pool, pointers, admin, edits, work>>

\* Mutant of ImportReread: the host's configuration is taken as it came.
ImportAsSent(g) ==
    /\ Proceed(g, "importReread", "pointers")
    /\ edited' = FALSE
    /\ UNCHANGED <<conf, pool, pointers, configVars, work>>

ImportReread(g) == TakeStored(g, "importReread")

StoreConsumerDeps(g) ==
    /\ Proceed(g, "pointers", "reconciler")
    /\ consumerDeps' = IF Provider(g) THEN g ELSE None
    /\ UNCHANGED <<conf, pool, reconciler, handler, poolPtr, settings, work>>

\* Mutants of StoreReconciler: without a provider the old pointer stays; only
\* the first Reconciler is stored.
StoreReconcilerKeepingOld(g) ==
    /\ Proceed(g, "reconciler", "handler")
    /\ reconciler' = IF Provider(g) THEN g ELSE reconciler
    /\ UNCHANGED <<conf, pool, consumerDeps, handler, poolPtr, settings, work>>

StoreFirstReconciler(g) ==
    /\ Proceed(g, "reconciler", "handler")
    /\ reconciler' = IF Provider(g) /\ reconciler = None THEN g ELSE reconciler
    /\ UNCHANGED <<conf, pool, consumerDeps, handler, poolPtr, settings, work>>

StoreReconciler(g) ==
    /\ Proceed(g, "reconciler", "handler")
    /\ reconciler' = IF Provider(g) THEN g ELSE None
    /\ UNCHANGED <<conf, pool, consumerDeps, handler, poolPtr, settings, work>>

SetHandler(g) ==
    /\ Proceed(g, "handler", "swap")
    /\ handler' = g
    /\ UNCHANGED <<conf, pool, consumerDeps, reconciler, poolPtr, settings, work>>

\* Close waits for connections in use; statements are atomic here.
SwapPool(g) ==
    /\ Proceed(g, "swap", "done")
    /\ poolPtr' = g
    /\ pool' = IF poolPtr = None THEN pool ELSE [pool EXCEPT ![poolPtr] = "closed"]
    /\ UNCHANGED <<conf, consumerDeps, reconciler, handler, settings, work>>

\* What a call that was let in goes on with, when nothing fails
ConfigureProceeds(g) ==
    \/ Migrate(g) \/ ImportRead(g) \/ ImportWrite(g) \/ ImportReread(g)
    \/ StoreConsumerDeps(g) \/ StoreReconciler(g) \/ SetHandler(g) \/ SwapPool(g)

ConfigureStep(g) ==
    ConfigureEndsEarly(g) \/ OpenPool(g) \/ Abort(g) \/ ConfigureProceeds(g)

-----------------------------------------------------------------------------
(* PATCH /admin/config, on the store of the handler that serves it.  It     *)
(* writes the row and nothing else: the configuration in force stays.       *)

AdminRead(a) ==
    /\ handler # None /\ IsOpen(handler)
    /\ PatchRead(a, handler)
    /\ UNCHANGED <<wiring, edited, work>>

AdminWrite(a) ==
    LET reachable == IsOpen(admin[a].store) IN
    /\ PatchWrite(a, reachable)
    /\ edited' = (edited \/ (reachable /\ Accepted(a)))
    /\ UNCHANGED <<wiring, work>>

-----------------------------------------------------------------------------
(* HandleEvent.  It uses the Deps it loaded first; on an error the host     *)
(* delivers the event again, and the next attempt loads them anew.          *)

Deliver(pc, gen) == delivery' = [pc |-> pc, gen |-> gen]
Nack             == Deliver("pending", None)

\* While there are no Deps, HandleEvent nacks at once.
Receive ==
    /\ delivery.pc = "pending" /\ consumerDeps # None
    /\ Deliver("submit", consumerDeps)
    /\ UNCHANGED <<wiring, settings, tick, rowVars>>

Submit ==
    /\ delivery.pc = "submit"
    /\ IF IsOpen(delivery.gen)
       THEN rowStatus' = "submitted" /\ Deliver("add", delivery.gen)
       ELSE Nack /\ UNCHANGED rowStatus
    /\ UNCHANGED <<wiring, settings, tick, jobStatus, announced>>

\* Every attempt starts a job of its own; an earlier one is orphaned.
AddMonitoring ==
    /\ delivery.pc = "add"
    /\ jobStatus' = "downloading"
    /\ Deliver("record", delivery.gen)
    /\ UNCHANGED <<wiring, settings, tick, rowStatus, announced>>

\* Mutant of Record: the error of the statement is logged, as in the path
\* without metadata, and the event acknowledged.
RecordAcking ==
    /\ delivery.pc = "record"
    /\ Deliver("settled", None)
    /\ rowStatus' = IF IsOpen(delivery.gen) THEN "acknowledged" ELSE rowStatus
    /\ UNCHANGED <<wiring, settings, tick, jobStatus, announced>>

\* Without the external_id the request would be lost: nack.
Record ==
    /\ delivery.pc = "record"
    /\ IF IsOpen(delivery.gen)
       THEN rowStatus' = "acknowledged" /\ Deliver("settled", None)
       ELSE Nack /\ UNCHANGED rowStatus
    /\ UNCHANGED <<wiring, settings, tick, jobStatus, announced>>

DeliveryStep == Receive \/ Submit \/ AddMonitoring \/ Record

-----------------------------------------------------------------------------
(* Ticks.  The scheduler reaches the Reconciler through reconcilerPtr, the  *)
(* admin API through the handler that served the request.                   *)

TickOf(g, t) == tick' = [tick EXCEPT ![g] = t]

\* A tick whose pool is closed fails to list and ends there.
TickBegin(g) ==
    /\ g = reconciler \/ (g = handler /\ Provider(g))
    /\ tick[g].pc = "idle"
    /\ IsOpen(g)
    /\ rowStatus \in OpenStatuses
    /\ TickOf(g, [pc |-> "row", listed |-> rowStatus, seen |-> ""])
    /\ UNCHANGED <<wiring, settings, delivery, rowVars>>

TickPoll(g) ==
    /\ tick[g].pc = "row"
    /\ TickOf(g, [tick[g] EXCEPT !.pc = "mark", !.seen = jobStatus])
    /\ UNCHANGED <<wiring, settings, delivery, rowVars>>

\* Mutant of TickMark: a terminal status is announced but not written.
TickMarkOpenOnly(g) ==
    /\ tick[g].pc = "mark"
    /\ rowStatus' = IF IsOpen(g) /\ rowStatus # "imported" /\ tick[g].seen # "imported"
                    THEN tick[g].seen ELSE rowStatus
    /\ TickOf(g, IF tick[g].seen = tick[g].listed
                 THEN NoTick ELSE [tick[g] EXCEPT !.pc = "publish"])
    /\ UNCHANGED <<wiring, settings, delivery, jobStatus, announced>>

\* MarkPolled fails on a closed pool, which does not stop the event.
TickMark(g) ==
    /\ tick[g].pc = "mark"
    /\ rowStatus' = IF IsOpen(g) /\ rowStatus # "imported"
                    THEN tick[g].seen ELSE rowStatus
    /\ TickOf(g, IF tick[g].seen = tick[g].listed
                 THEN NoTick ELSE [tick[g] EXCEPT !.pc = "publish"])
    /\ UNCHANGED <<wiring, settings, delivery, jobStatus, announced>>

TickPublish(g) ==
    /\ tick[g].pc = "publish"
    /\ announced' = IF tick[g].seen = "imported"
                    THEN [announced EXCEPT ![g] = @ + 1] ELSE announced
    /\ TickOf(g, NoTick)
    /\ UNCHANGED <<wiring, settings, delivery, rowStatus, jobStatus>>

TickStep(g) == TickBegin(g) \/ TickPoll(g) \/ TickMark(g) \/ TickPublish(g)

\* The upstream completes the job.
Complete ==
    /\ jobStatus = "downloading"
    /\ jobStatus' = "imported"
    /\ UNCHANGED <<wiring, settings, delivery, tick, rowStatus, announced>>

Next ==
    \/ \E g \in Generations : ConfigureStep(g) \/ TickStep(g)
    \/ \E a \in Admins : AdminRead(a) \/ AdminWrite(a)
    \/ DeliveryStep
    \/ Complete

Spec == Init /\ [][Next]_vars

\* A Configure call that was let in goes on or fails, the host delivers the
\* event until it is acknowledged, the scheduler fires ticks and they run, and
\* the job completes; whether Configure is called again is up to the host, and
\* whether an admin runs a tick or sends a PATCH is up to the admin.
FairSpec ==
    /\ Spec
    /\ WF_vars(Complete)
    /\ WF_vars(DeliveryStep)
    /\ \A g \in Generations :
          /\ WF_vars(Abort(g) \/ ConfigureProceeds(g))
          /\ WF_vars(TickStep(g) /\ (tick[g].pc = "idle" => g = reconciler))

-----------------------------------------------------------------------------
\* What the servers can reach always has an open pool: pointers are exchanged
\* before the pool they replace is closed (main.go:92-118).
PointersAreOpen ==
    \A g \in {consumerDeps, reconciler, handler, poolPtr} \ {None} : IsOpen(g)

\* Between Configure calls there is exactly the one pool in use: a call that
\* failed closed its own and left the previous generation in force
\* (main.go:73-82, 116-118).
OneGenerationInForce ==
    Running = {} =>
        /\ {g \in Generations : IsOpen(g)} = {poolPtr} \ {None}
        /\ handler = poolPtr
        /\ consumerDeps = reconciler
        /\ reconciler = IF poolPtr # None /\ Provider(poolPtr) THEN poolPtr ELSE None

\* Between Configure calls the plugin runs on what is stored, unless the row
\* was written since: by a PATCH, which takes effect with the next Configure,
\* or by the import of a call that failed afterwards (main.go:78-84,
\* store.go:72-89).
InForceIsStored ==
    Running = {} /\ poolPtr # None /\ ~edited => conf[poolPtr] = data

\* A stored base_url is blank or valid, whoever wrote the row last and on the
\* strength of whatever it had read before (store.go:52-57, runtime.go:100-104).
StoredUrlIsValid == IsValid(data)

\* An acknowledged event has left a job the reconciler polls, even if its pool
\* was closed under the handler (consumer/handler.go:134-143, main.go:116-118).
SettledIsTracked ==
    delivery.pc = "settled" =>
        rowStatus \in OpenStatuses \cup {"imported"} /\ jobStatus # "none"

\* One Reconciler announces a fulfilment at most once, although the pool may
\* be closed between its polling and its writing (status-translation.md:55-61).
OncePerGeneration == \A g \in Generations : announced[g] <= 1

\* The same for all Reconcilers together: exactly one event for a transition.
FulfilledOnce ==
    OncePerGeneration /\ Cardinality({g \in Generations : announced[g] > 0}) <= 1

\* A PATCH with a blank key keeps the key it has read, if the row is still the
\* one it has read (admin-api.md:31).
BlankKeyKeepsKey ==
    [][\A a \in Admins :
         /\ admin[a].pc = "write" /\ admin'[a].pc = "idle"
         /\ admin[a].body.key = "" /\ admin[a].cur = data
         => data'.key = data.key]_vars

\* If the plugin stays configured with a provider, the request is recorded,
\* completed and announced, whatever was under way when Configure was called.
ServedAcrossReconfigure ==
    <>[](consumerDeps # None /\ reconciler # None)
        => <>(rowStatus = "imported" /\ \E g \in Generations : announced[g] > 0)
=============================================================================
