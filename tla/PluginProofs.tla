---------------------------- MODULE PluginProofs ----------------------------
(***************************************************************************)
(* Proofs about module Plugin.                                             *)
(*                                                                         *)
(* Three parts of the state are looked at one after the other: the         *)
(* settings (SettingsInv), the Configure calls (ConfigureInv), and the     *)
(* work under way (WorkInv); together they give TypeOK and what holds for  *)
(* any number of overlapping Configure calls.  On top of them:             *)
(*   - AnnouncedInv, for what one Reconciler announces;                    *)
(*   - WiringInv, for what the pointers refer to when the host awaits each *)
(*     Configure call (MaxRunning = 1);                                    *)
(*   - StoredInv, for which configuration is in force.                     *)
(***************************************************************************)
EXTENDS Plugin, FiniteSetTheorems, TLAPS

-----------------------------------------------------------------------------
(* The settings. *)

Patches == [pc : {"idle", "write"}, store : Pointer, cur : StoredConfig, body : Config]

SettingsInv ==
    /\ data \in StoredConfig /\ IsValid(data)
    /\ edited \in BOOLEAN
    /\ admin \in [Admins -> Patches]
    /\ conf \in [Generations -> Config]
    /\ \A g \in Generations : IsValid(conf[g])

(* The Configure calls. *)

\* Where Configure is after it has read back what is stored
Taken == {"pointers", "reconciler", "handler", "swap"}

ConfigureInv ==
    /\ configure \in [Generations -> ConfigurePcs]
    /\ pool \in [Generations -> {"none", "open", "closed"}]
    /\ consumerDeps \in Pointer /\ reconciler \in Pointer
    /\ handler \in Pointer /\ poolPtr \in Pointer
    /\ \A g \in Generations :
          /\ g = poolPtr => configure[g] = "done"
          /\ configure[g] = "waiting" => conf[g] = DefaultAppConfig /\ pool[g] = "none"
          /\ configure[g] \in Taken \cup {"done"} => conf[g] \in StoredConfig

(* The work under way. *)

Tracked == rowStatus \in OpenStatuses \cup {"imported"}

TicksInv ==
    /\ tick \in [Generations -> Tick]
    /\ \A g \in Generations :
          /\ tick[g].pc # "idle" => delivery.pc = "settled"
          /\ tick[g].pc \in {"mark", "publish"} => tick[g].seen # ""

WorkInv ==
    /\ delivery \in Delivery
    /\ rowStatus \in RowStatuses
    /\ jobStatus \in {"none", "downloading", "imported"}
    /\ announced \in [Generations -> Nat]
    /\ delivery.pc = "settled" <=> Tracked
    /\ delivery.pc \in {"record", "settled"} => jobStatus # "none"
    /\ TicksInv

-----------------------------------------------------------------------------
(* What one Reconciler announces. *)

AnnouncedInv ==
    \A g \in Generations :
       /\ announced[g] <= 1
       /\ configure[g] = "waiting" => tick[g].pc = "idle" /\ announced[g] = 0
       /\ tick[g].pc # "idle" => announced[g] = 0
       /\ announced[g] = 1 \/ (tick[g].pc = "publish" /\ tick[g].seen = "imported")
             => rowStatus = "imported" \/ ~IsOpen(g)

-----------------------------------------------------------------------------
(* What the pointers refer to if Configure calls do not overlap. *)

\* The Reconciler and the Deps of generation p
BuiltBy(p) == IF p # None /\ Provider(p) THEN p ELSE None

IsAt(g, pcs) == configure[g] \in pcs

PoolsInv == \A g \in Generations : IsOpen(g) <=> g = poolPtr \/ g \in Running

\* A pointer refers to the generation of the running call from the step on
\* that stores it, and to that of the last call that was completed before.
PointersInv ==
    /\ \A g \in Generations :
          /\ IsAt(g, {"reconciler", "handler", "swap"}) => consumerDeps = BuiltBy(g)
          /\ IsAt(g, {"handler", "swap"}) => reconciler = BuiltBy(g)
          /\ IsAt(g, {"swap"}) => handler = g
    /\ (\A g \in Generations : ~IsAt(g, {"reconciler", "handler", "swap"}))
          => consumerDeps = BuiltBy(poolPtr)
    /\ (\A g \in Generations : ~IsAt(g, {"handler", "swap"}))
          => reconciler = BuiltBy(poolPtr)
    /\ (\A g \in Generations : ~IsAt(g, {"swap"})) => handler = poolPtr

WiringInv ==
    /\ \A f, g \in Running : f = g
    /\ PoolsInv
    /\ PointersInv

(* Which configuration is in force *)
StoredInv ==
    ~edited =>
       /\ \A g \in Generations : configure[g] \in Taken => conf[g] = data
       /\ poolPtr # None /\ (\A g \in Generations : configure[g] \notin Taken)
             => conf[poolPtr] = data
-----------------------------------------------------------------------------
(* Facts about the operators of AppConfig. *)

LEMMA ConfigFacts ==
    /\ StoredConfig \subseteq Config
    /\ DefaultAppConfig \in StoredConfig /\ IsValid(DefaultAppConfig)
BY CoverAssumption DEF StoredConfig, Config, DefaultAppConfig, IsValid

\* Normalize gives what can be stored, keeps the URL, and does nothing twice.
LEMMA NormalizeFacts ==
    ASSUME NEW c \in Config
    PROVE  /\ Normalize(c) \in StoredConfig
           /\ Normalize(c).url = c.url /\ Normalize(c).key = c.key
           /\ c \in StoredConfig => Normalize(c) = c
<1>1. c \in StoredConfig => c.cover # ""
  BY BlankAssumption DEF StoredConfig
<1>2. CASE c.cover = ""
  BY <1>1, <1>2, CoverAssumption DEF Normalize, Config, StoredConfig, DefaultCover
<1>3. CASE c.cover # ""
  BY <1>3 DEF Normalize, Config, StoredConfig
<1> QED
  BY <1>2, <1>3

LEMMA PatchedFacts ==
    ASSUME NEW a \in Admins, admin \in [Admins -> Patches]
    PROVE  /\ PatchedConfig(a) \in Config
           /\ admin[a].body.key = "" => PatchedConfig(a).key = admin[a].cur.key
<1>1. admin[a].body \in Config /\ admin[a].cur \in Config
  BY ConfigFacts DEF Patches
<1> QED
  BY <1>1 DEF PatchedConfig, Config

-----------------------------------------------------------------------------
(* What each part of the system leaves alone. *)

LEMMA GenerationFacts ==
    /\ Generations \subseteq Nat /\ None \notin Generations
    /\ Generations \subseteq Pointer /\ None \in Pointer
BY MaxConfiguresAssumption DEF Generations, None, Pointer

LEMMA ConfigureFrame ==
    ASSUME NEW g \in Generations, ConfigureStep(g)
    PROVE  UNCHANGED <<work, admin, edits>>
BY DEF ConfigureStep, ConfigureProceeds, ConfigureEndsEarly, OpenPool, Abort, Migrate,
       ImportRead, ImportWrite, ImportReread, TakeStored, StoreConsumerDeps,
       StoreReconciler, SetHandler, SwapPool, settings, configVars

LEMMA AdminFrame ==
    ASSUME NEW a \in Admins, AdminRead(a) \/ AdminWrite(a)
    PROVE  UNCHANGED <<wiring, work>>
BY DEF AdminRead, AdminWrite

LEMMA WorkFrame ==
    ASSUME DeliveryStep \/ Complete \/ \E g \in Generations : TickStep(g)
    PROVE  UNCHANGED <<wiring, settings>>
BY DEF DeliveryStep, Receive, Submit, AddMonitoring, Record, Complete, TickStep,
       TickBegin, TickPoll, TickMark, TickPublish

\* The steps, sorted by the part of the state they are about
LEMMA NextCases ==
    ASSUME [Next]_vars
    PROVE  \/ \E g \in Generations : ConfigureStep(g)
           \/ \E a \in Admins : AdminRead(a) \/ AdminWrite(a)
           \/ DeliveryStep \/ Complete \/ (\E g \in Generations : TickStep(g))
           \/ UNCHANGED <<wiring, settings, work>>
BY DEF Next, vars

-----------------------------------------------------------------------------
(* The settings: whatever is stored or in force has a URL that is valid.    *)

LEMMA SettingsInit == Init => SettingsInv
<1> SUFFICES ASSUME Init PROVE SettingsInv
  OBVIOUS
<1>1. \A a \in Admins : admin[a] \in Patches
  BY ConfigFacts, GenerationFacts DEF Init, ConfigInit, Patches
<1>2. admin \in [Admins -> Patches]
  BY <1>1 DEF Init, ConfigInit
<1> QED
  BY <1>2, ConfigFacts DEF SettingsInv, Init, ConfigInit

LEMMA ConfigureSettings ==
    ASSUME SettingsInv, NEW g \in Generations, ConfigureStep(g)
    PROVE  SettingsInv'
<1>1. UNCHANGED admin
  BY ConfigureFrame
<1>2. data \in Config /\ \A f \in Generations : conf[f] \in Config
  BY ConfigFacts DEF SettingsInv
<1>3. CASE OpenPool(g)
  <2>1. UNCHANGED <<data, edited>>
    BY <1>3 DEF OpenPool, settings, configVars
  <2>2. PICK c \in HostConfigs : IsValid(c) /\ conf' = [conf EXCEPT ![g] = c]
    BY <1>3 DEF OpenPool
  <2>3. c \in Config
    BY HostAssumption
  <2> QED
    BY <1>1, <2>1, <2>2, <2>3 DEF SettingsInv
<1>4. ASSUME NEW pc, TakeStored(g, pc) PROVE SettingsInv'
  <2>1. /\ UNCHANGED data /\ edited' = FALSE
        /\ conf' = [conf EXCEPT ![g] = Normalize(data)]
    BY <1>4 DEF TakeStored, configVars, GetAppConfig
  <2>2. Normalize(data) \in Config /\ IsValid(Normalize(data))
    BY <1>2, NormalizeFacts, ConfigFacts DEF SettingsInv, IsValid
  <2> QED
    BY <1>1, <2>1, <2>2 DEF SettingsInv
<1>5. CASE ImportWrite(g)
  <2>1. data' = Normalize(conf[g]) /\ edited' = TRUE /\ UNCHANGED conf
    BY <1>5 DEF ImportWrite, UpdateAppConfig
  <2>2. Normalize(conf[g]) \in StoredConfig /\ IsValid(Normalize(conf[g]))
    BY <1>2, NormalizeFacts DEF SettingsInv, IsValid
  <2> QED
    BY <1>1, <2>1, <2>2 DEF SettingsInv
<1>6. CASE UNCHANGED <<conf, data, edited>>
  BY <1>1, <1>6 DEF SettingsInv, IsValid
<1>7. \/ OpenPool(g) \/ ImportWrite(g) \/ \E pc \in Importing : TakeStored(g, pc)
      \/ UNCHANGED <<conf, data, edited>>
  BY DEF ConfigureStep, ConfigureProceeds, ConfigureEndsEarly, Abort, Migrate,
         ImportRead, ImportReread, StoreConsumerDeps, StoreReconciler,
         SetHandler, SwapPool, settings, configVars, Importing
<1> QED
  BY <1>3, <1>4, <1>5, <1>6, <1>7

LEMMA AdminSettings ==
    ASSUME SettingsInv, handler \in Pointer, NEW a \in Admins,
           AdminRead(a) \/ AdminWrite(a)
    PROVE  SettingsInv'
<1>1. UNCHANGED conf
  BY AdminFrame DEF wiring
<1>2. data \in Config /\ admin \in [Admins -> Patches]
  BY ConfigFacts DEF SettingsInv
<1>3. CASE AdminRead(a)
  <2>1. UNCHANGED <<data, edited>>
    BY <1>3 DEF AdminRead, PatchRead
  <2>2. PICK body \in Bodies :
           admin' = [admin EXCEPT ![a] = [pc |-> "write", store |-> handler,
                                          cur |-> Normalize(data), body |-> body]]
    BY <1>3 DEF AdminRead, PatchRead, GetAppConfig
  <2>3. [pc |-> "write", store |-> handler, cur |-> Normalize(data), body |-> body]
           \in Patches
    BY <1>2, NormalizeFacts, BodyAssumption DEF Patches
  <2>4. admin' \in [Admins -> Patches]
    BY <1>2, <2>2, <2>3
  <2> QED
    BY <1>1, <2>1, <2>4 DEF SettingsInv, IsValid
<1>4. CASE AdminWrite(a)
  <2>1. admin' = [admin EXCEPT ![a].pc = "idle"]
    BY <1>4 DEF AdminWrite, PatchWrite
  <2>2. [admin[a] EXCEPT !.pc = "idle"] \in Patches
    BY <1>2 DEF Patches
  <2>3. admin' \in [Admins -> Patches]
    BY <1>2, <2>1, <2>2
  <2>4. data' \in StoredConfig /\ IsValid(data')
    <3>1. CASE UNCHANGED data
      BY <3>1 DEF SettingsInv
    <3>2. CASE Accepted(a) /\ data' = Normalize(PatchedConfig(a))
      BY <1>2, <3>2, PatchedFacts, NormalizeFacts DEF Accepted, IsValid
    <3> QED
      BY <1>4, <3>1, <3>2 DEF AdminWrite, PatchWrite, UpdateAppConfig
  <2>5. edited' \in BOOLEAN
    BY <1>4 DEF AdminWrite
  <2> QED
    BY <1>1, <2>3, <2>4, <2>5 DEF SettingsInv, IsValid
<1> QED
  BY <1>3, <1>4

-----------------------------------------------------------------------------
(* The Configure calls. *)

LEMMA ConfigureInit == Init => ConfigureInv
<1> SUFFICES ASSUME Init PROVE ConfigureInv
  OBVIOUS
<1> QED
  BY GenerationFacts, ConfigFacts DEF Init, ConfigInit, ConfigureInv, ConfigurePcs, Taken

LEMMA ConfigureTypes ==
    ASSUME ConfigureInv, SettingsInv, NEW g \in Generations, ConfigureStep(g)
    PROVE  ConfigureInv'
<1>1. ASSUME NEW pc \in Importing, TakeStored(g, pc) PROVE ConfigureInv'
  <2>1. /\ configure[g] # "done"
        /\ UNCHANGED <<pool, consumerDeps, reconciler, handler, poolPtr>>
        /\ configure' = [configure EXCEPT ![g] = "pointers"]
        /\ conf' = [conf EXCEPT ![g] = Normalize(data)]
    BY <1>1 DEF TakeStored, Proceed, pointers, GetAppConfig, Importing
  <2>2. Normalize(data) \in StoredConfig
    BY ConfigFacts, NormalizeFacts DEF SettingsInv
  <2>3. conf \in [Generations -> Config]
    BY DEF SettingsInv
  <2>4. "pointers" \in ConfigurePcs
    BY DEF ConfigurePcs
  <2> QED
    BY <2>1, <2>2, <2>3, <2>4 DEF ConfigureInv
<1>2. CASE OpenPool(g)
  <2>1. PICK c : conf' = [conf EXCEPT ![g] = c]
    BY <1>2 DEF OpenPool
  <2>2. /\ UNCHANGED <<consumerDeps, reconciler, handler, poolPtr>>
        /\ configure[g] = "waiting"
        /\ configure' = [configure EXCEPT ![g] = "migrate"]
        /\ pool' = [pool EXCEPT ![g] = "open"]
    BY <1>2 DEF OpenPool, Proceed, pointers
  <2>3. conf \in [Generations -> Config]
    BY DEF SettingsInv
  <2> QED
    BY <2>1, <2>2, <2>3 DEF ConfigureInv, ConfigurePcs, Taken
<1>3. CASE ConfigureEndsEarly(g)
  <2>1. UNCHANGED <<conf, pool, consumerDeps, reconciler, handler, poolPtr>>
    BY <1>3 DEF ConfigureEndsEarly, pointers
  <2>2. /\ configure[g] = "waiting"
        /\ \/ configure' = [configure EXCEPT ![g] = "done"]
           \/ configure' = [configure EXCEPT ![g] = "failed"]
    BY <1>3 DEF ConfigureEndsEarly, Proceed
  <2>3. conf[g] \in StoredConfig
    BY <2>2, ConfigFacts DEF ConfigureInv
  <2> QED
    BY <2>1, <2>2, <2>3 DEF ConfigureInv, ConfigurePcs, Taken
<1>4. CASE Abort(g)
  <2>1. UNCHANGED <<conf, consumerDeps, reconciler, handler, poolPtr>>
    BY <1>4 DEF Abort, pointers
  <2>2. /\ configure[g] \notin {"waiting", "done"}
        /\ configure' = [configure EXCEPT ![g] = "failed"]
        /\ pool' = [pool EXCEPT ![g] = "closed"]
    BY <1>4 DEF Abort, Proceed, Importing
  <2> QED
    BY <2>1, <2>2 DEF ConfigureInv, ConfigurePcs, Taken
<1>5. CASE /\ UNCHANGED <<conf, pool, pointers>>
           /\ \/ Proceed(g, "migrate", "importRead")
              \/ Proceed(g, "importRead", "importWrite")
              \/ Proceed(g, "importWrite", "importReread")
  <2>1. UNCHANGED <<conf, pool, consumerDeps, reconciler, handler, poolPtr>>
    BY <1>5 DEF pointers
  <2>2. PICK to \in {"importRead", "importWrite", "importReread"} :
           /\ configure[g] \notin {"waiting", "done"}
           /\ configure' = [configure EXCEPT ![g] = to]
    BY <1>5 DEF Proceed
  <2> QED
    BY <2>1, <2>2 DEF ConfigureInv, ConfigurePcs, Taken
<1>6. CASE StoreConsumerDeps(g) \/ StoreReconciler(g) \/ SetHandler(g)
  <2>1. UNCHANGED <<conf, pool, poolPtr>>
    BY <1>6 DEF StoreConsumerDeps, StoreReconciler, SetHandler
  <2>2. /\ consumerDeps' \in Pointer /\ reconciler' \in Pointer
        /\ handler' \in Pointer
    BY <1>6, GenerationFacts
    DEF StoreConsumerDeps, StoreReconciler, SetHandler, ConfigureInv
  <2>3. PICK to \in Taken :
           configure[g] \in Taken /\ configure' = [configure EXCEPT ![g] = to]
    BY <1>6 DEF StoreConsumerDeps, StoreReconciler, SetHandler, Proceed, Taken
  <2> QED
    BY <2>1, <2>2, <2>3 DEF ConfigureInv, ConfigurePcs, Taken
<1>7. CASE SwapPool(g)
  <2>1. UNCHANGED <<conf, consumerDeps, reconciler, handler>> /\ poolPtr' \in Pointer
    BY <1>7, GenerationFacts DEF SwapPool
  <2>2. /\ configure[g] = "swap"
        /\ configure' = [configure EXCEPT ![g] = "done"]
    BY <1>7 DEF SwapPool, Proceed
  <2>3. pool' \in [Generations -> {"none", "open", "closed"}]
    BY <1>7 DEF SwapPool, ConfigureInv
  <2>4. poolPtr' = g
    BY <1>7 DEF SwapPool
  <2>5. ASSUME NEW f \in Generations, configure'[f] = "waiting"
        PROVE  pool'[f] = "none"
    BY <1>7, <2>2, <2>5 DEF SwapPool, ConfigureInv, Pointer
  <2> QED
    BY <2>1, <2>2, <2>3, <2>4, <2>5, GenerationFacts DEF ConfigureInv, ConfigurePcs, Taken
<1> QED
  BY <1>1, <1>2, <1>3, <1>4, <1>5, <1>6, <1>7
  DEF ConfigureStep, ConfigureProceeds, Migrate, ImportRead, ImportWrite, ImportReread,
      Importing

-----------------------------------------------------------------------------
(* The work under way. *)

LEMMA WorkInit == Init => WorkInv
<1> SUFFICES ASSUME Init PROVE WorkInv
  OBVIOUS
<1>1. NoTick \in Tick /\ NoTick.pc = "idle"
  BY DEF NoTick, Tick
<1>2. delivery \in Delivery /\ delivery.pc = "pending"
  BY GenerationFacts DEF Init, Delivery
<1>3. rowStatus \in RowStatuses /\ ~Tracked
  BY DEF Init, RowStatuses, Tracked, OpenStatuses
<1> QED
  BY <1>1, <1>2, <1>3 DEF Init, WorkInv, TicksInv

LEMMA DeliveryWork ==
    ASSUME WorkInv, consumerDeps \in Pointer, DeliveryStep
    PROVE  WorkInv'
<1>1. UNCHANGED <<tick, announced>>
  BY DEF DeliveryStep, Receive, Submit, AddMonitoring, Record, rowVars
<1>2. delivery.pc \notin {"settled"}
  BY DEF DeliveryStep, Receive, Submit, AddMonitoring, Record
<1>3. ~Tracked /\ \A g \in Generations : tick[g].pc = "idle"
  <2>1. ~Tracked
    BY <1>2 DEF WorkInv
  <2>2. \A g \in Generations : tick[g].pc = "idle"
    BY <1>2 DEF WorkInv, TicksInv
  <2> QED
    BY <2>1, <2>2
<1>4. TicksInv'
  BY <1>1, <1>3 DEF WorkInv, TicksInv
<1>5. delivery.gen \in Pointer
  BY DEF WorkInv, Delivery
<1> DEFINE Moved(pc) ==
        /\ delivery' \in Delivery
        /\ delivery'.pc = pc
<1>6. ASSUME NEW pc \in {"pending", "submit", "add", "record", "settled"},
             NEW gen \in Pointer, Deliver(pc, gen)
      PROVE  Moved(pc)
  BY <1>6 DEF Deliver, Delivery
<1> HIDE DEF Moved
<1>7. CASE Receive
  <2>1. Moved("submit")
    BY <1>6, <1>7 DEF Receive
  <2>2. UNCHANGED <<rowStatus, jobStatus>>
    BY <1>7 DEF Receive, rowVars
  <2> QED
    BY <1>1, <1>3, <1>4, <2>1, <2>2 DEF Moved, WorkInv, Tracked
<1>8. CASE Submit
  <2>1. UNCHANGED jobStatus
    BY <1>8 DEF Submit
  <2>2. Moved("add") \/ Moved("pending")
    BY <1>5, <1>6, <1>8, GenerationFacts DEF Submit, Nack
  <2>3. rowStatus' \in {"submitted", rowStatus}
    BY <1>8 DEF Submit
  <2>4. rowStatus' \in RowStatuses /\ ~Tracked'
    BY <1>3, <2>3 DEF WorkInv, RowStatuses, Tracked, OpenStatuses
  <2> QED
    BY <1>1, <1>4, <2>1, <2>2, <2>4 DEF Moved, WorkInv
<1>9. CASE AddMonitoring
  <2>1. Moved("record")
    BY <1>5, <1>6, <1>9 DEF AddMonitoring
  <2>2. jobStatus' = "downloading" /\ UNCHANGED rowStatus
    BY <1>9 DEF AddMonitoring
  <2> QED
    BY <1>1, <1>3, <1>4, <2>1, <2>2 DEF Moved, WorkInv, Tracked
<1>10. CASE Record
  <2>1. UNCHANGED jobStatus /\ jobStatus # "none"
    BY <1>10 DEF Record, WorkInv
  <2>2. \/ Moved("settled") /\ rowStatus' = "acknowledged"
        \/ Moved("pending") /\ UNCHANGED rowStatus
    BY <1>6, <1>10, GenerationFacts DEF Record, Nack
  <2>3. CASE Moved("settled") /\ rowStatus' = "acknowledged"
    BY <1>1, <1>4, <2>1, <2>3 DEF Moved, WorkInv, RowStatuses, Tracked, OpenStatuses
  <2>4. CASE Moved("pending") /\ UNCHANGED rowStatus
    BY <1>1, <1>3, <1>4, <2>1, <2>4 DEF Moved, WorkInv, Tracked
  <2> QED
    BY <2>2, <2>3, <2>4
<1> QED
  BY <1>7, <1>8, <1>9, <1>10 DEF DeliveryStep

LEMMA CompleteWork == WorkInv /\ Complete => WorkInv'
<1> SUFFICES ASSUME WorkInv, Complete PROVE WorkInv'
  OBVIOUS
<1>1. jobStatus' = "imported" /\ UNCHANGED <<delivery, tick, rowStatus, announced>>
  BY DEF Complete
<1> QED
  BY <1>1 DEF WorkInv, TicksInv, Tracked

\* A record of ticks in which one is exchanged
LEMMA TicksUpdate ==
    ASSUME TicksInv, NEW g \in Generations, NEW t \in Tick, TickOf(g, t),
           UNCHANGED delivery,
           t.pc # "idle" => delivery.pc = "settled",
           t.pc \in {"mark", "publish"} => t.seen # ""
    PROVE  TicksInv'
<1>1. tick' = [tick EXCEPT ![g] = t]
  BY DEF TickOf
<1> QED
  BY <1>1 DEF TicksInv

LEMMA TickWork ==
    ASSUME WorkInv, NEW g \in Generations, TickStep(g)
    PROVE  WorkInv'
<1>1. NoTick \in Tick /\ NoTick.pc = "idle"
  BY DEF NoTick, Tick
<1>2. tick[g] \in Tick /\ UNCHANGED <<delivery, jobStatus>>
  BY DEF WorkInv, TicksInv, TickStep, TickBegin, TickPoll, TickMark, TickPublish, rowVars
<1>3. delivery.pc = "settled" /\ Tracked /\ jobStatus # "none"
  BY DEF WorkInv, TicksInv, TickStep, TickBegin, TickPoll, TickMark, TickPublish, Tracked
<1>4. CASE TickBegin(g)
  <2>1. [pc |-> "row", listed |-> rowStatus, seen |-> ""] \in Tick
    BY <1>4 DEF TickBegin, Tick
  <2>2. TicksInv'
    BY <1>2, <1>3, <1>4, <2>1, TicksUpdate DEF TickBegin, WorkInv
  <2> QED
    BY <1>2, <1>4, <2>2 DEF TickBegin, WorkInv, rowVars, Tracked
<1>5. CASE TickPoll(g)
  <2> DEFINE t == [tick[g] EXCEPT !.pc = "mark", !.seen = jobStatus]
  <2>1. t \in Tick /\ t.seen # ""
    BY <1>2, <1>3 DEF Tick, WorkInv
  <2>2. TickOf(g, t) /\ UNCHANGED <<rowStatus, announced>>
    BY <1>5 DEF TickPoll, rowVars
  <2> HIDE DEF t
  <2>3. TicksInv'
    BY <1>2, <1>3, <2>1, <2>2, TicksUpdate DEF WorkInv
  <2> QED
    BY <1>2, <2>2, <2>3 DEF WorkInv, Tracked
<1>6. CASE TickMark(g)
  <2> DEFINE t == [tick[g] EXCEPT !.pc = "publish"]
  <2>1. t \in Tick /\ t.seen = tick[g].seen
    BY <1>2 DEF Tick
  <2>2. tick[g].seen \in {"downloading", "imported"} /\ tick[g].pc = "mark"
    BY <1>2, <1>6 DEF TickMark, WorkInv, TicksInv, Tick
  <2>3. TickOf(g, NoTick) \/ TickOf(g, t)
    BY <1>6 DEF TickMark
  <2> HIDE DEF t
  <2>4. TicksInv'
    BY <1>1, <1>2, <1>3, <2>1, <2>2, <2>3, TicksUpdate DEF WorkInv
  <2>5. rowStatus' \in {rowStatus, tick[g].seen} /\ UNCHANGED announced
    BY <1>6 DEF TickMark
  <2>6. rowStatus' \in RowStatuses /\ Tracked'
    BY <1>3, <2>2, <2>5 DEF WorkInv, RowStatuses, Tracked, OpenStatuses
  <2> QED
    BY <1>2, <1>3, <2>4, <2>5, <2>6 DEF WorkInv
<1>7. CASE TickPublish(g)
  <2>1. TicksInv'
    BY <1>1, <1>2, <1>7, TicksUpdate DEF TickPublish, WorkInv
  <2>2. announced' \in [Generations -> Nat] /\ UNCHANGED rowStatus
    BY <1>7 DEF TickPublish, WorkInv
  <2> QED
    BY <1>2, <2>1, <2>2 DEF WorkInv, Tracked
<1> QED
  BY <1>4, <1>5, <1>6, <1>7 DEF TickStep

-----------------------------------------------------------------------------
(* Together. *)

PluginInv == SettingsInv /\ ConfigureInv /\ WorkInv

LEMMA PluginInit == Init => PluginInv
BY SettingsInit, ConfigureInit, WorkInit DEF PluginInv

LEMMA PluginNext == PluginInv /\ [Next]_vars => PluginInv'
<1> SUFFICES ASSUME PluginInv, [Next]_vars PROVE PluginInv'
  OBVIOUS
<1>0. SettingsInv /\ ConfigureInv /\ WorkInv
  BY DEF PluginInv
<1>1. ASSUME UNCHANGED <<settings, conf>> PROVE SettingsInv'
  BY <1>0, <1>1 DEF SettingsInv, settings, configVars, IsValid
<1>2. ASSUME UNCHANGED wiring PROVE ConfigureInv'
  BY <1>0, <1>2 DEF ConfigureInv, wiring, pointers
<1>3. ASSUME UNCHANGED work PROVE WorkInv'
  BY <1>0, <1>3 DEF WorkInv, TicksInv, Tracked, work, rowVars
<1>4. ASSUME NEW g \in Generations, ConfigureStep(g) PROVE PluginInv'
  BY <1>0, <1>3, <1>4, ConfigureFrame, ConfigureSettings, ConfigureTypes DEF PluginInv
<1>5. ASSUME NEW a \in Admins, AdminRead(a) \/ AdminWrite(a) PROVE PluginInv'
  <2>1. handler \in Pointer
    BY <1>0 DEF ConfigureInv
  <2> QED
    BY <1>0, <1>2, <1>3, <1>5, <2>1, AdminFrame, AdminSettings DEF PluginInv
<1>6. CASE DeliveryStep \/ Complete \/ \E g \in Generations : TickStep(g)
  <2>1. consumerDeps \in Pointer
    BY <1>0 DEF ConfigureInv
  <2>2. WorkInv'
    BY <1>0, <1>6, <2>1, DeliveryWork, CompleteWork, TickWork
  <2>3. UNCHANGED <<wiring, settings>>
    BY <1>6, WorkFrame
  <2>4. UNCHANGED conf
    BY <2>3 DEF wiring
  <2> QED
    BY <1>1, <1>2, <2>2, <2>3, <2>4 DEF PluginInv
<1>7. CASE UNCHANGED <<wiring, settings, work>>
  BY <1>1, <1>2, <1>3, <1>7 DEF PluginInv, wiring
<1> QED
  BY <1>4, <1>5, <1>6, <1>7, NextCases

LEMMA PluginInvHolds == Spec => []PluginInv
BY PluginInit, PluginNext, PTL DEF Spec

\* Configure, the admin API, the consumer and the reconciler keep the plugin's
\* state well typed (main.go:66-136, runtime.go, store.go:44-89).
THEOREM TypeCorrect == Spec => []TypeOK
<1>1. PluginInv => TypeOK
  <2> SUFFICES ASSUME PluginInv PROVE TypeOK
    OBVIOUS
  <2> QED
    BY DEF PluginInv, SettingsInv, ConfigureInv, WorkInv, TicksInv, Taken, TypeOK
<1> QED
  BY <1>1, PluginInvHolds, PTL

\* Nothing that is stored has a URL that is neither blank nor valid, whatever
\* was read before it was written (store.go:52-57, runtime.go:100-104).
THEOREM StoredUrlIsValidHolds == Spec => []StoredUrlIsValid
<1>1. PluginInv => StoredUrlIsValid
  BY DEF PluginInv, SettingsInv, StoredUrlIsValid
<1> QED
  BY <1>1, PluginInvHolds, PTL

\* An acknowledged event has left a row and a job, even if Configure closed the
\* pool under the handler (consumer/handler.go:134-143, main.go:116-118).
THEOREM SettledIsTrackedHolds == Spec => []SettledIsTracked
<1>1. PluginInv => SettledIsTracked
  BY DEF PluginInv, WorkInv, Tracked, SettledIsTracked
<1> QED
  BY <1>1, PluginInvHolds, PTL

-----------------------------------------------------------------------------
(* A Reconciler announces a fulfilment once.  After it has announced one,   *)
(* either the row says "imported", so that no later tick lists it, or the   *)
(* Reconciler's pool is closed for good, so that no later tick begins.      *)

LEMMA AnnouncedInit == Init => AnnouncedInv
<1> SUFFICES ASSUME Init PROVE AnnouncedInv
  OBVIOUS
<1>1. \A g \in Generations : tick[g].pc = "idle" /\ announced[g] = 0
  BY DEF Init, NoTick
<1> QED
  BY <1>1 DEF AnnouncedInv, IsOpen

\* No step of Configure opens a pool that has been in use.
LEMMA OpensOnlyWaiting ==
    ASSUME ConfigureInv, NEW g \in Generations, ConfigureStep(g),
           NEW f \in Generations
    PROVE  /\ configure'[f] = "waiting" => configure[f] = "waiting"
           /\ IsOpen(f)' => IsOpen(f) \/ (f = g /\ configure[g] = "waiting")
<1>1. \E from, to : to # "waiting" /\ Proceed(g, from, to)
  BY DEF ConfigureStep, ConfigureProceeds, ConfigureEndsEarly, OpenPool, Abort, Migrate,
         ImportRead, ImportWrite, ImportReread, TakeStored, StoreConsumerDeps,
         StoreReconciler, SetHandler, SwapPool
<1>2. configure'[f] = "waiting" => configure[f] = "waiting"
  BY <1>1 DEF Proceed, ConfigureInv
<1>3. CASE OpenPool(g)
  BY <1>2, <1>3 DEF OpenPool, Proceed, ConfigureInv, IsOpen
<1>4. CASE Abort(g) \/ SwapPool(g)
  BY <1>2, <1>4 DEF Abort, SwapPool, ConfigureInv, IsOpen
<1>5. CASE UNCHANGED pool
  BY <1>2, <1>5 DEF IsOpen
<1> QED
  BY <1>3, <1>4, <1>5
  DEF ConfigureStep, ConfigureProceeds, ConfigureEndsEarly, Migrate, ImportRead,
      ImportWrite, ImportReread, TakeStored, StoreConsumerDeps, StoreReconciler, SetHandler

LEMMA TickAnnounced ==
    ASSUME PluginInv, AnnouncedInv, NEW g \in Generations, TickStep(g)
    PROVE  AnnouncedInv'
<1>1. UNCHANGED <<configure, pool>>
  BY WorkFrame DEF wiring
<1>2. /\ tick \in [Generations -> Tick] /\ announced \in [Generations -> Nat]
      /\ configure[g] = "waiting" => pool[g] = "none"
  BY DEF PluginInv, WorkInv, TicksInv, ConfigureInv
<1>3. configure[g] # "waiting"
  BY <1>2 DEF TickStep, TickBegin, TickPoll, TickMark, TickPublish, AnnouncedInv, IsOpen
<1>4. CASE TickBegin(g)
  <2>1. /\ IsOpen(g) /\ rowStatus # "imported" /\ UNCHANGED <<rowStatus, announced>>
        /\ tick' = [tick EXCEPT ![g] = [pc |-> "row", listed |-> rowStatus, seen |-> ""]]
    BY <1>4 DEF TickBegin, TickOf, rowVars, OpenStatuses
  <2>2. announced[g] # 1 /\ announced[g] <= 1
    BY <2>1 DEF AnnouncedInv, IsOpen
  <2>3. announced[g] = 0
    BY <1>2, <2>2
  <2>4. tick'[g].pc = "row"
    BY <1>2, <2>1
  <2>5. \A f \in Generations \ {g} : tick'[f] = tick[f]
    BY <1>2, <2>1
  <2> QED
    BY <1>1, <1>3, <2>1, <2>3, <2>4, <2>5 DEF AnnouncedInv, IsOpen
<1>5. CASE TickPoll(g)
  <2>1. /\ tick[g].pc = "row" /\ UNCHANGED <<rowStatus, announced>>
        /\ tick' = [tick EXCEPT ![g] = [tick[g] EXCEPT !.pc = "mark", !.seen = jobStatus]]
    BY <1>5 DEF TickPoll, TickOf, rowVars
  <2>2. [tick[g] EXCEPT !.pc = "mark", !.seen = jobStatus].pc = "mark"
    BY <1>2 DEF Tick
  <2> QED
    BY <1>1, <1>2, <1>3, <2>1, <2>2 DEF AnnouncedInv, IsOpen
<1>6. CASE TickMark(g)
  <2>1. tick[g].pc = "mark" /\ UNCHANGED announced
    BY <1>6 DEF TickMark
  <2>2. announced[g] = 0
    BY <2>1 DEF AnnouncedInv
  <2>3. rowStatus = "imported" => rowStatus' = "imported"
    BY <1>6 DEF TickMark
  <2>4. tick[g].seen = "imported" /\ IsOpen(g) => rowStatus' = "imported"
    BY <1>6 DEF TickMark
  <2>5. /\ tick' = [tick EXCEPT ![g] = tick'[g]]
        /\ tick'[g].pc = "publish" => tick'[g].seen = tick[g].seen
    BY <1>2, <1>6 DEF TickMark, TickOf, NoTick, Tick
  <2> QED
    BY <1>1, <1>2, <1>3, <2>1, <2>2, <2>3, <2>4, <2>5 DEF AnnouncedInv, IsOpen
<1>7. CASE TickPublish(g)
  <2>1. tick[g].pc = "publish" /\ UNCHANGED rowStatus
    BY <1>7 DEF TickPublish
  <2>2. announced[g] = 0
    BY <2>1 DEF AnnouncedInv
  <2>3. tick' = [tick EXCEPT ![g] = NoTick]
    BY <1>7 DEF TickPublish, TickOf
  <2>4. CASE tick[g].seen = "imported"
    <3>1. announced' = [announced EXCEPT ![g] = 1]
      BY <1>2, <1>7, <2>2, <2>4 DEF TickPublish
    <3>2. rowStatus' = "imported" \/ pool'[g] # "open"
      BY <1>1, <2>1, <2>4 DEF AnnouncedInv, IsOpen
    <3>3. announced'[g] = 1 /\ tick'[g].pc = "idle" /\ configure'[g] # "waiting"
      BY <1>1, <1>2, <1>3, <2>3, <3>1 DEF NoTick
    <3>4. ASSUME NEW f \in Generations \ {g}
          PROVE  announced'[f] = announced[f] /\ tick'[f] = tick[f]
      BY <1>2, <2>3, <3>1
    <3> QED
      BY <1>1, <2>1, <3>2, <3>3, <3>4 DEF AnnouncedInv, IsOpen
  <2>5. CASE tick[g].seen # "imported"
    <3>1. UNCHANGED announced
      BY <1>7, <2>5 DEF TickPublish
    <3> QED
      BY <1>1, <1>2, <1>3, <2>1, <2>2, <2>3, <3>1 DEF AnnouncedInv, IsOpen, NoTick
  <2> QED
    BY <2>4, <2>5
<1> QED
  BY <1>4, <1>5, <1>6, <1>7 DEF TickStep

LEMMA AnnouncedNext == PluginInv /\ AnnouncedInv /\ [Next]_vars => AnnouncedInv'
<1> SUFFICES ASSUME PluginInv, AnnouncedInv, [Next]_vars PROVE AnnouncedInv'
  OBVIOUS
<1>1. ASSUME NEW g \in Generations, ConfigureStep(g) PROVE AnnouncedInv'
  <2>1. UNCHANGED <<tick, rowStatus, announced>>
    BY <1>1, ConfigureFrame DEF work, rowVars
  <2> QED
    BY <1>1, <2>1, OpensOnlyWaiting DEF AnnouncedInv, PluginInv
<1>2. CASE UNCHANGED <<wiring, rowStatus, tick, announced>>
  BY <1>2 DEF AnnouncedInv, IsOpen, wiring
<1>3. ASSUME NEW a \in Admins, AdminRead(a) \/ AdminWrite(a) PROVE AnnouncedInv'
  BY <1>2, <1>3, AdminFrame DEF work, rowVars
<1>4. CASE DeliveryStep
  <2>1. rowStatus # "imported"
    BY <1>4 DEF DeliveryStep, Receive, Submit, AddMonitoring, Record, PluginInv, WorkInv,
                Tracked
  <2>2. UNCHANGED <<configure, pool, tick, announced>>
    BY <1>4 DEF DeliveryStep, Receive, Submit, AddMonitoring, Record, rowVars, wiring
  <2> QED
    BY <2>1, <2>2 DEF AnnouncedInv, IsOpen
<1>5. CASE Complete
  BY <1>2, <1>5 DEF Complete
<1>6. ASSUME NEW g \in Generations, TickStep(g) PROVE AnnouncedInv'
  BY <1>6, TickAnnounced
<1> QED
  BY <1>1, <1>2, <1>3, <1>4, <1>5, <1>6, NextCases DEF work, rowVars

\* One Reconciler announces a fulfilment at most once, although the pool may be
\* closed between its polling and its writing (status-translation.md:55-61).
THEOREM OncePerGenerationHolds == Spec => []OncePerGeneration
<1>1. AnnouncedInv => OncePerGeneration
  BY DEF AnnouncedInv, OncePerGeneration
<1> QED
  BY <1>1, AnnouncedInit, AnnouncedNext, PluginInvHolds, PTL DEF Spec

-----------------------------------------------------------------------------
(* An action property of the settings. *)

LEMMA BlankKeyStep ==
    ASSUME PluginInv, [Next]_vars, NEW a \in Admins,
           admin[a].pc = "write", admin'[a].pc = "idle",
           admin[a].body.key = "", admin[a].cur = data
    PROVE  data'.key = data.key
<1>1. admin \in [Admins -> Patches] /\ data \in StoredConfig
  BY DEF PluginInv, SettingsInv
<1>2. ~UNCHANGED admin
  OBVIOUS
<1>3. PICK b \in Admins : AdminRead(b) \/ AdminWrite(b)
  BY <1>2, NextCases, ConfigureFrame, WorkFrame DEF settings, configVars
<1>4. CASE AdminRead(b)
  <2>1. admin[b].pc = "idle" /\ \A c \in Admins \ {b} : admin'[c] = admin[c]
    BY <1>1, <1>4 DEF AdminRead, PatchRead
  <2> QED
    BY <2>1
<1>5. CASE AdminWrite(b)
  <2>1. b = a
    BY <1>1, <1>5 DEF AdminWrite, PatchWrite
  <2>2. PatchedConfig(a) \in Config /\ PatchedConfig(a).key = data.key
    BY <1>1, PatchedFacts
  <2>3. data' \in {data, Normalize(PatchedConfig(a))}
    BY <1>5, <2>1 DEF AdminWrite, PatchWrite, UpdateAppConfig
  <2> QED
    BY <2>2, <2>3, NormalizeFacts
<1> QED
  BY <1>3, <1>4, <1>5

\* A PATCH with a blank key keeps the key it has read, if the row is still the
\* one it has read (admin-api.md:31, server.go:256-279).
THEOREM BlankKeyKeepsKeyHolds == Spec => BlankKeyKeepsKey
<1> DEFINE Kept == \A a \in Admins :
               /\ admin[a].pc = "write" /\ admin'[a].pc = "idle"
               /\ admin[a].body.key = "" /\ admin[a].cur = data
               => data'.key = data.key
<1>1. PluginInv /\ [Next]_vars => Kept
  BY BlankKeyStep
<1>2. Spec => [][Kept]_vars
  BY <1>1, PluginInvHolds, PTL DEF Spec
<1> QED
  BY <1>2 DEF BlankKeyKeepsKey

-----------------------------------------------------------------------------
(* What the pointers refer to when the host awaits each Configure call.     *)

Resting == {"waiting", "done", "failed"}

LEMMA CalledAlone ==
    ASSUME MaxRunning = 1, NEW g \in Generations, Called(g)
    PROVE  Running = {}
<1>1. IsFiniteSet(Generations)
  BY MaxConfiguresAssumption, FS_Interval DEF Generations
<1>2. IsFiniteSet(Running)
  BY <1>1, FS_Subset DEF Running
<1>3. Cardinality(Running) \in Nat /\ Cardinality(Running) < 1
  BY <1>2, FS_CardinalityType DEF Called
<1> QED
  BY <1>2, <1>3, FS_EmptySet

\* While Configure call g takes a step, no other call is under way.
LEMMA OtherCallsRest ==
    ASSUME MaxRunning = 1, ConfigureInv, WiringInv, NEW g \in Generations,
           ConfigureStep(g)
    PROVE  /\ g # poolPtr
           /\ \A f \in Generations \ {g} :
                 configure[f] \in Resting /\ configure'[f] = configure[f]
<1>1. \A f \in Running : f = g
  <2>1. CASE Called(g)
    BY <2>1, CalledAlone
  <2>2. CASE ~Called(g)
    <3>1. configure[g] \notin Resting
      BY <2>2
      DEF ConfigureStep, ConfigureProceeds, ConfigureEndsEarly, OpenPool, Abort,
          Migrate, ImportRead, ImportWrite, ImportReread, TakeStored, StoreConsumerDeps,
          StoreReconciler, SetHandler, SwapPool, Proceed, Importing, Resting
    <3> QED
      BY <3>1 DEF WiringInv, Running, Resting
  <2> QED
    BY <2>1, <2>2
<1>2. \E from, to : from # "done" /\ Proceed(g, from, to)
  BY DEF ConfigureStep, ConfigureProceeds, ConfigureEndsEarly, OpenPool, Abort, Migrate,
         ImportRead, ImportWrite, ImportReread, TakeStored, StoreConsumerDeps,
         StoreReconciler, SetHandler, SwapPool, Importing
<1>3. g # poolPtr /\ \A f \in Generations \ {g} : configure'[f] = configure[f]
  BY <1>2 DEF Proceed, ConfigureInv
<1> QED
  BY <1>1, <1>3 DEF Running, Resting

LEMMA WiringInit == Init => WiringInv
<1> SUFFICES ASSUME Init PROVE WiringInv
  OBVIOUS
<1>1. Running = {} /\ \A g \in Generations : configure[g] = "waiting" /\ ~IsOpen(g)
  BY DEF Init, Running, IsOpen
<1>2. consumerDeps = None /\ reconciler = None /\ handler = None /\ poolPtr = None
  BY DEF Init
<1> QED
  BY <1>1, <1>2, GenerationFacts DEF WiringInv, PoolsInv, PointersInv, IsAt, BuiltBy

LEMMA ConfigureWiring ==
    ASSUME MaxRunning = 1, PluginInv, WiringInv, NEW g \in Generations, ConfigureStep(g)
    PROVE  WiringInv'
<1>1. /\ configure \in [Generations -> ConfigurePcs]
      /\ conf \in [Generations -> Config]
      /\ pool \in [Generations -> {"none", "open", "closed"}]
      /\ poolPtr \in Pointer
  BY DEF PluginInv, ConfigureInv, SettingsInv
<1>2. /\ g # poolPtr /\ g # None
      /\ \A f \in Generations \ {g} :
            configure[f] \in Resting /\ configure'[f] = configure[f]
  BY OtherCallsRest, GenerationFacts DEF PluginInv
<1>3. \A f, h \in Running' : f = h
  BY <1>2 DEF Running, Resting
<1>4. poolPtr # None => poolPtr \in Generations
  BY <1>1 DEF Pointer
<1>5. CASE /\ ~IsAt(g, {"reconciler", "handler", "swap"})
           /\ ~IsAt(g, {"reconciler", "handler", "swap"})'
           /\ UNCHANGED pointers
           /\ \A f \in Generations \ {g} : conf'[f] = conf[f]
  <2>1. \A f \in Generations : /\ ~IsAt(f, {"reconciler", "handler", "swap"})
                               /\ ~IsAt(f, {"reconciler", "handler", "swap"})'
    BY <1>2, <1>5 DEF IsAt, Resting
  <2>2. BuiltBy(poolPtr)' = BuiltBy(poolPtr)
    BY <1>2, <1>4, <1>5 DEF BuiltBy, Provider, pointers
  <2>3. UNCHANGED <<consumerDeps, reconciler, handler, poolPtr>>
    BY <1>5 DEF pointers
  <2>4. PointersInv'
    BY <2>1, <2>2, <2>3 DEF WiringInv, PointersInv, IsAt
  <2>5. PoolsInv'
    <3>1. CASE OpenPool(g)
      <4>1. pool' = [pool EXCEPT ![g] = "open"] /\ configure'[g] = "migrate"
        BY <1>1, <3>1 DEF OpenPool, Proceed
      <4> QED
        BY <1>1, <1>2, <2>3, <4>1 DEF WiringInv, PoolsInv, IsOpen, Running
    <3>2. CASE Abort(g)
      <4>1. pool' = [pool EXCEPT ![g] = "closed"] /\ configure'[g] = "failed"
        BY <1>1, <3>2 DEF Abort, Proceed
      <4> QED
        BY <1>1, <1>2, <2>3, <4>1 DEF WiringInv, PoolsInv, IsOpen, Running
    <3>3. CASE ConfigureEndsEarly(g)
      <4>1. UNCHANGED pool /\ configure[g] \in Resting /\ configure'[g] \in Resting
        BY <1>1, <3>3 DEF ConfigureEndsEarly, Proceed, Resting
      <4> QED
        BY <1>1, <1>2, <2>3, <4>1 DEF WiringInv, PoolsInv, IsOpen, Running, Resting
    <3>4. CASE ConfigureProceeds(g)
      <4>1. /\ UNCHANGED pool
            /\ configure[g] \notin Resting /\ configure'[g] \notin Resting
        BY <1>1, <1>5, <3>4
        DEF ConfigureProceeds, Migrate, ImportRead, ImportWrite, ImportReread, TakeStored,
            StoreConsumerDeps, StoreReconciler, SetHandler, SwapPool, Proceed, Resting, IsAt
      <4> QED
        BY <1>1, <1>2, <2>3, <4>1 DEF WiringInv, PoolsInv, IsOpen, Running, Resting
    <3> QED
      BY <3>1, <3>2, <3>3, <3>4 DEF ConfigureStep
  <2> QED
    BY <1>3, <2>4, <2>5 DEF WiringInv
<1>6. CASE StoreConsumerDeps(g) \/ StoreReconciler(g) \/ SetHandler(g)
  <2>1. UNCHANGED <<conf, pool, poolPtr>>
    BY <1>6 DEF StoreConsumerDeps, StoreReconciler, SetHandler
  <2>2. configure[g] \notin Resting /\ configure'[g] \notin Resting
    BY <1>1, <1>6 DEF StoreConsumerDeps, StoreReconciler, SetHandler, Proceed, Resting
  <2>3. PoolsInv'
    BY <1>2, <2>1, <2>2 DEF WiringInv, PoolsInv, IsOpen, Running, Resting
  <2>4. BuiltBy(poolPtr)' = BuiltBy(poolPtr) /\ BuiltBy(g)' = BuiltBy(g)
    BY <2>1 DEF BuiltBy, Provider
  <2>5. \A pcs \in SUBSET {"reconciler", "handler", "swap"}, f \in Generations \ {g} :
           ~IsAt(f, pcs) /\ ~IsAt(f, pcs)'
    BY <1>2 DEF IsAt, Resting
  <2>6. CASE StoreConsumerDeps(g)
    <3>1. /\ configure[g] = "pointers" /\ configure'[g] = "reconciler"
          /\ consumerDeps' = BuiltBy(g) /\ UNCHANGED <<reconciler, handler>>
      BY <1>1, <1>2, <2>6 DEF StoreConsumerDeps, Proceed, BuiltBy
    <3>2. PointersInv'
      BY <2>1, <2>4, <2>5, <3>1 DEF WiringInv, PointersInv, IsAt
    <3> QED
      BY <1>3, <2>3, <3>2 DEF WiringInv
  <2>7. CASE StoreReconciler(g)
    <3>1. /\ configure[g] = "reconciler" /\ configure'[g] = "handler"
          /\ reconciler' = BuiltBy(g) /\ UNCHANGED <<consumerDeps, handler>>
      BY <1>1, <1>2, <2>7 DEF StoreReconciler, Proceed, BuiltBy
    <3>2. PointersInv'
      BY <2>1, <2>4, <2>5, <3>1 DEF WiringInv, PointersInv, IsAt
    <3> QED
      BY <1>3, <2>3, <3>2 DEF WiringInv
  <2>8. CASE SetHandler(g)
    <3>1. /\ configure[g] = "handler" /\ configure'[g] = "swap"
          /\ handler' = g /\ UNCHANGED <<consumerDeps, reconciler>>
      BY <1>1, <1>2, <2>8 DEF SetHandler, Proceed
    <3>2. PointersInv'
      BY <2>1, <2>4, <2>5, <3>1 DEF WiringInv, PointersInv, IsAt
    <3> QED
      BY <1>3, <2>3, <3>2 DEF WiringInv
  <2> QED
    BY <1>6, <2>6, <2>7, <2>8
<1>7. CASE SwapPool(g)
  <2>1. /\ configure[g] = "swap" /\ configure'[g] = "done" /\ poolPtr' = g
        /\ UNCHANGED <<conf, consumerDeps, reconciler, handler>>
    BY <1>1, <1>7 DEF SwapPool, Proceed
  <2>2. /\ consumerDeps = BuiltBy(g) /\ reconciler = BuiltBy(g) /\ handler = g
    BY <2>1 DEF WiringInv, PointersInv, IsAt
  <2>3. BuiltBy(poolPtr)' = BuiltBy(g)
    BY <2>1 DEF BuiltBy, Provider
  <2>4. \A f \in Generations : configure'[f] \in Resting
    BY <1>2, <2>1 DEF Resting
  <2>5. PointersInv'
    BY <2>1, <2>2, <2>3, <2>4 DEF PointersInv, IsAt, Resting
  <2>6. pool'[g] = pool[g] /\ IsOpen(g)
    BY <1>1, <1>2, <1>7, <2>1 DEF SwapPool, WiringInv, PoolsInv, Running
  <2>7. ASSUME NEW f \in Generations \ {g} PROVE ~IsOpen(f)'
    <3>1. CASE f = poolPtr
      BY <1>1, <1>7, <2>7, <3>1, GenerationFacts DEF SwapPool, IsOpen
    <3>2. CASE f # poolPtr
      <4>1. ~IsOpen(f)
        BY <1>2, <3>2 DEF WiringInv, PoolsInv, Running, Resting
      <4>2. pool'[f] = pool[f]
        BY <1>1, <1>7, <3>2 DEF SwapPool
      <4> QED
        BY <4>1, <4>2 DEF IsOpen
    <3> QED
      BY <3>1, <3>2
  <2>8. PoolsInv'
    BY <2>1, <2>4, <2>6, <2>7 DEF PoolsInv, IsOpen, Running, Resting
  <2> QED
    BY <1>3, <2>5, <2>8 DEF WiringInv
<1>8. CASE ~SwapPool(g) /\ ~StoreConsumerDeps(g) /\ ~StoreReconciler(g) /\ ~SetHandler(g)
  <2>1. UNCHANGED pointers /\ \A f \in Generations \ {g} : conf'[f] = conf[f]
    BY <1>1, <1>8
    DEF ConfigureStep, ConfigureProceeds, ConfigureEndsEarly, OpenPool, Abort, Migrate,
        ImportRead, ImportWrite, ImportReread, TakeStored
  <2>2. /\ configure[g] \notin {"reconciler", "handler", "swap"}
        /\ configure'[g] \notin {"reconciler", "handler", "swap"}
    BY <1>1, <1>8
    DEF ConfigureStep, ConfigureProceeds, ConfigureEndsEarly, OpenPool, Abort, Migrate,
        ImportRead, ImportWrite, ImportReread, TakeStored, Proceed, Importing
  <2> QED
    BY <1>5, <2>1, <2>2 DEF IsAt
<1> QED
  BY <1>6, <1>7, <1>8

LEMMA WiringNext == MaxRunning = 1 /\ PluginInv /\ WiringInv /\ [Next]_vars => WiringInv'
<1> SUFFICES ASSUME MaxRunning = 1, PluginInv, WiringInv, [Next]_vars PROVE WiringInv'
  OBVIOUS
<1>1. ASSUME UNCHANGED wiring PROVE WiringInv'
  BY <1>1 DEF wiring, pointers, WiringInv, PoolsInv, PointersInv, IsAt, IsOpen, Running,
              BuiltBy, Provider
<1>2. ASSUME NEW g \in Generations, ConfigureStep(g) PROVE WiringInv'
  BY <1>2, ConfigureWiring
<1> QED
  BY <1>1, <1>2, NextCases, AdminFrame, WorkFrame

LEMMA WiringHolds ==
    ASSUME MaxRunning = 1
    PROVE  Spec => [](PluginInv /\ WiringInv)
BY PluginInit, PluginNext, WiringInit, WiringNext, PTL DEF Spec

\* If the host awaits each Configure call, what the servers can reach always has
\* an open pool (main.go:92-118).
THEOREM PointersAreOpenHolds ==
    ASSUME MaxRunning = 1
    PROVE  Spec => []PointersAreOpen
<1>1. PluginInv /\ WiringInv => PointersAreOpen
  <2> SUFFICES ASSUME PluginInv, WiringInv PROVE PointersAreOpen
    OBVIOUS
  <2>1. /\ \A p \in {consumerDeps, reconciler, handler, poolPtr} \ {None} :
              p \in Generations
    BY DEF PluginInv, ConfigureInv, Pointer
  <2>2. \A p \in {consumerDeps, reconciler, handler, poolPtr} \ {None} :
           p = poolPtr \/ p \in Running
    <3>1. \A g \in Generations : IsAt(g, {"reconciler", "handler", "swap"}) => g \in Running
      BY DEF IsAt, Running
    <3>2. \A g \in Generations : /\ IsAt(g, {"handler", "swap"}) => g \in Running
                                 /\ IsAt(g, {"swap"}) => g \in Running
      BY DEF IsAt, Running
    <3>3. \A p : BuiltBy(p) = p \/ BuiltBy(p) = None
      BY DEF BuiltBy
    <3>4. consumerDeps # None => consumerDeps = poolPtr \/ consumerDeps \in Running
      <4>1. CASE \E g \in Generations : IsAt(g, {"reconciler", "handler", "swap"})
        BY <3>1, <3>3, <4>1 DEF WiringInv, PointersInv
      <4>2. CASE \A g \in Generations : ~IsAt(g, {"reconciler", "handler", "swap"})
        BY <3>3, <4>2 DEF WiringInv, PointersInv
      <4> QED
        BY <4>1, <4>2
    <3>5. reconciler # None => reconciler = poolPtr \/ reconciler \in Running
      <4>1. CASE \E g \in Generations : IsAt(g, {"handler", "swap"})
        BY <3>2, <3>3, <4>1 DEF WiringInv, PointersInv
      <4>2. CASE \A g \in Generations : ~IsAt(g, {"handler", "swap"})
        BY <3>3, <4>2 DEF WiringInv, PointersInv
      <4> QED
        BY <4>1, <4>2
    <3>6. handler = poolPtr \/ handler \in Running
      BY <3>2 DEF WiringInv, PointersInv
    <3> QED
      BY <3>4, <3>5, <3>6
  <2> QED
    BY <2>1, <2>2 DEF PointersAreOpen, WiringInv, PoolsInv
<1> QED
  BY <1>1, WiringHolds, PTL

\* Between Configure calls there is the one pool in use, and every pointer
\* refers to its generation (main.go:73-82, 116-118).
THEOREM OneGenerationInForceHolds ==
    ASSUME MaxRunning = 1
    PROVE  Spec => []OneGenerationInForce
<1>1. PluginInv /\ WiringInv => OneGenerationInForce
  <2> SUFFICES ASSUME PluginInv, WiringInv, Running = {} PROVE OneGenerationInForce
    BY DEF OneGenerationInForce
  <2>1. poolPtr # None => poolPtr \in Generations
    BY DEF PluginInv, ConfigureInv, Pointer
  <2>2. {g \in Generations : IsOpen(g)} = {poolPtr} \ {None}
    BY <2>1, GenerationFacts DEF WiringInv, PoolsInv
  <2>3. \A g \in Generations : configure[g] \in Resting
    BY DEF Running, Resting
  <2>4. handler = poolPtr /\ consumerDeps = BuiltBy(poolPtr) /\ reconciler = BuiltBy(poolPtr)
    BY <2>3 DEF WiringInv, PointersInv, IsAt, Resting
  <2> QED
    BY <2>2, <2>4 DEF OneGenerationInForce, BuiltBy
<1> QED
  BY <1>1, WiringHolds, PTL

-----------------------------------------------------------------------------
(* Which configuration is in force.                                         *)

LEMMA StoredInit == Init => StoredInv
BY DEF Init, StoredInv, Taken

LEMMA ConfigureStored ==
    ASSUME MaxRunning = 1, PluginInv, WiringInv, StoredInv,
           NEW g \in Generations, ConfigureStep(g)
    PROVE  StoredInv'
<1>1. /\ configure \in [Generations -> ConfigurePcs]
      /\ conf \in [Generations -> Config]
      /\ data \in StoredConfig /\ poolPtr \in Pointer
  BY DEF PluginInv, ConfigureInv, SettingsInv
<1>2. /\ g # poolPtr
      /\ \A f \in Generations \ {g} : configure[f] \notin Taken /\ configure'[f] \notin Taken
  BY OtherCallsRest DEF PluginInv, Resting, Taken
<1>3. ASSUME NEW pc, TakeStored(g, pc) PROVE StoredInv'
  <2>1. conf'[g] = Normalize(data) /\ configure'[g] = "pointers" /\ UNCHANGED data
    BY <1>1, <1>3 DEF TakeStored, Proceed, GetAppConfig, configVars
  <2>2. conf'[g] = data'
    BY <1>1, <2>1, ConfigFacts, NormalizeFacts
  <2> QED
    BY <1>2, <2>1, <2>2 DEF StoredInv, Taken
<1>4. CASE ImportWrite(g)
  BY <1>4 DEF ImportWrite, StoredInv
<1>5. CASE /\ configure[g] \notin Taken /\ configure'[g] \notin Taken
           /\ UNCHANGED <<data, edited, poolPtr>>
           /\ \A f \in Generations \ {g} : conf'[f] = conf[f]
  <2>1. poolPtr # None => conf'[poolPtr] = conf[poolPtr]
    BY <1>1, <1>2, <1>5 DEF Pointer
  <2> QED
    BY <1>2, <1>5, <2>1 DEF StoredInv
<1>6. CASE StoreConsumerDeps(g) \/ StoreReconciler(g) \/ SetHandler(g)
  <2>1. UNCHANGED <<data, edited, conf>>
    BY <1>6 DEF StoreConsumerDeps, StoreReconciler, SetHandler, settings, configVars
  <2>2. configure[g] \in Taken /\ configure'[g] \in Taken
    BY <1>1, <1>6 DEF StoreConsumerDeps, StoreReconciler, SetHandler, Proceed, Taken
  <2> QED
    BY <1>2, <2>1, <2>2 DEF StoredInv
<1>7. CASE SwapPool(g)
  <2>1. UNCHANGED <<data, edited, conf>> /\ poolPtr' = g
    BY <1>7 DEF SwapPool, settings, configVars
  <2>2. configure[g] \in Taken /\ configure'[g] \notin Taken
    BY <1>1, <1>7 DEF SwapPool, Proceed, Taken
  <2> QED
    BY <1>2, <2>1, <2>2 DEF StoredInv
<1>8. CASE ConfigureEndsEarly(g) \/ OpenPool(g) \/ Abort(g) \/ Migrate(g)
           \/ (Proceed(g, "importRead", "importWrite")
               /\ UNCHANGED <<conf, pool, pointers, settings, work>>)
  <2>1. configure[g] \notin Taken /\ configure'[g] \notin Taken
    BY <1>1, <1>8
    DEF ConfigureEndsEarly, OpenPool, Abort, Migrate, Proceed, Importing, Taken
  <2>2. UNCHANGED <<data, edited, poolPtr>> /\ \A f \in Generations \ {g} : conf'[f] = conf[f]
    BY <1>1, <1>8
    DEF ConfigureEndsEarly, OpenPool, Abort, Migrate, settings, configVars, pointers
  <2> QED
    BY <1>5, <2>1, <2>2
<1> QED
  BY <1>3, <1>4, <1>6, <1>7, <1>8
  DEF ConfigureStep, ConfigureProceeds, ImportRead, ImportReread

LEMMA StoredNext ==
    MaxRunning = 1 /\ PluginInv /\ WiringInv /\ StoredInv /\ [Next]_vars => StoredInv'
<1> SUFFICES ASSUME MaxRunning = 1, PluginInv, WiringInv, StoredInv, [Next]_vars
             PROVE  StoredInv'
  OBVIOUS
<1>1. ASSUME UNCHANGED wiring, edited' = FALSE => edited = FALSE /\ UNCHANGED data
      PROVE  StoredInv'
  <2>1. edited \in BOOLEAN
    BY DEF PluginInv, SettingsInv
  <2>2. UNCHANGED <<configure, conf, poolPtr>>
    BY <1>1 DEF wiring, pointers
  <2> QED
    BY <1>1, <2>1, <2>2 DEF StoredInv
<1>2. ASSUME NEW g \in Generations, ConfigureStep(g) PROVE StoredInv'
  BY <1>2, ConfigureStored
<1>3. ASSUME NEW a \in Admins, AdminRead(a) \/ AdminWrite(a) PROVE StoredInv'
  <2>1. UNCHANGED wiring
    BY <1>3, AdminFrame
  <2>2. edited' = FALSE => edited = FALSE /\ UNCHANGED data
    BY <1>3 DEF AdminRead, AdminWrite, PatchRead, PatchWrite, PluginInv, SettingsInv
  <2> QED
    BY <1>1, <2>1, <2>2
<1>4. ASSUME UNCHANGED <<wiring, settings>> PROVE StoredInv'
  BY <1>1, <1>4 DEF settings, configVars
<1> QED
  BY <1>2, <1>3, <1>4, NextCases, WorkFrame

\* If the host awaits each Configure call, the plugin runs between the calls on
\* what is stored, unless the row was written since (main.go:78-84, store.go:72-89).
THEOREM InForceIsStoredHolds ==
    ASSUME MaxRunning = 1
    PROVE  Spec => []InForceIsStored
<1>1. StoredInv => InForceIsStored
  <2> SUFFICES ASSUME StoredInv, Running = {}, poolPtr # None, ~edited
               PROVE  conf[poolPtr] = data
    BY DEF InForceIsStored
  <2>1. \A g \in Generations : configure[g] \notin Taken
    BY DEF Running, Taken
  <2> QED
    BY <2>1 DEF StoredInv
<1> QED
  BY <1>1, WiringHolds, StoredInit, StoredNext, PTL DEF Spec
=============================================================================
