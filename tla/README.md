# A verification development for the ebook-requests plugin

TLA+ models of the plugin in `src/`, the TLC runs that check them on small
instances, and proofs that TLAPS checks. Paths are relative to `src/`;
`consumer/`, `reconciler/`, `store/`, `server/`, `runtime/`, `ebookdb/`,
`event/`, `scheduler/`, `httproutes/`, `catalog/` and `migrate/` are under `internal/`, and
`main.go` is `cmd/silo-plugin-ebook-requests/main.go`.

## The system

A portal publishes `request_submitted`. The plugin records the request, asks an
upstream (EbookDB) to monitor it, polls the upstream's job until it ends, and
tells the portal by events. Everything durable is two Postgres tables.

| Component | State | Operations | What makes it correct |
| --- | --- | --- | --- |
| request store (`store/request.go`) | table `forwarded_request` | upsert, MarkPolled, ListNonTerminal, Retry, MarkFailed | a terminal status is left only by Retry; a known `external_id` is never forgotten; the list reaches every row |
| event consumer (`consumer/handler.go`) | none of its own; one goroutine per delivery | HandleEvent: persist, AddMonitoring, persist, publish; ack or nack | acknowledges only what is tracked or decided |
| reconciler (`reconciler/reconciler.go`) | tick mutex, last status, map of last errors, rate-limit window | Tick, LastStatus | notices every completed job, announces it, survives stale snapshots, honours 429 |
| scheduler (`scheduler/server.go`) | none | Run | drives Tick |
| publisher (`event/publisher.go`) | none | Publish, which may lose the event silently | — |
| runtime and wiring (`runtime/runtime.go`, `main.go`) | four pointers, one pool per Configure | Configure | no pointer to a closed pool, no leaked pool, all or nothing |
| configuration store (`store/store.go`) | one row of `app_config` | Get, Update, ImportLegacy | what is stored is normalised and valid; edits are kept; the plugin runs on what is stored |
| admin API (`server/server.go`) | none | retry, mark failed, run now, PATCH config, paged queue, other listings | as the stores; a walk through the queue sees every row |
| HTTP adapter (`httproutes/server.go`) | the handler pointer | SetHandler, Handle | refuses what it cannot serve; buffers the answer |
| EbookDB client (`ebookdb/`) | none | AddMonitoring, GetMonitoring, searches, streams | 429 becomes a back-off; the key is shown to the configured host only |
| catalog proxy (`catalog/`) | none | list, search, detail, external search, cover, file, snapshot | a healthy upstream is served; an error is never a success |

The components share the two tables and the pointers of `main.go`; there are no
queues or channels. What is hard is that a handler and a tick are sequences of
single statements and remote calls, run concurrently with each other, with
operators and with Configure, that any of these may fail, fail half (the
statement is applied and reported as failed) or be cut off by a crash, and that
deliveries repeat. The `hazards` of `PROJECT.json` list the places.

## The modules

| Module | Models | State and actions |
| --- | --- | --- |
| `RequestStore` | `store/request.go` | `rows`: status, external id, error per request; `pollOrder`: the order of `last_polled`. One operator per SQL statement, each atomic, as a single-row statement is |
| `Environment` | host, upstream, misfortunes (external), `event/publisher.go` | `pending`: events the host still has to deliver; `told`: events the portal received; `jobs`: the upstream's jobs; `disturbances`: how many misfortunes have happened |
| `Consumer` | `consumer/handler.go`, `AddMonitoring` | `handler`: for each delivery in progress the program counter of HandleEvent, one action per statement or call |
| `Reconciler` | `reconciler/reconciler.go`, `GetMonitoring`, `scheduler/server.go` | the program counter of Tick, the listed snapshot, the answer being processed, the context, `firstErr`, `lastError`, `parked`, `lastStatus` |
| `RequestPipeline` | the composition, with the admin's retry and mark-failed and with crashes | `Next` interleaves all of them; properties; fairness; the refinement mapping |
| `RequestLedger` | nothing: the abstract specification | a request is owed until it is tracked or decided; only an operator undoes a decision |
| `AppConfig` | `store/store.go`, PATCH config, the decision of the import | the row; PATCH requests between their read and their write. A component of `Plugin`, without a specification of its own |
| `Plugin` (EXTENDS `AppConfig`) | `main.go`, `runtime/runtime.go`, `SetHandler`, `migrate/` | generations of Configure, each with its settings and its pool; the pointers; the import, one action per statement; a tick per Reconciler, reduced to list, poll, mark, publish; the delivery of one event, reduced to the statements that need the pool; PATCH |
| `AdminQueue` | `handleListRequests`, `ListRequests`, the Next button | the rows in the order of creation and which of them match the filter; a client that walks page by page, each page a count and a select |
| `CatalogProxy` | `catalog/handler.go`, `ebookdb/client.go`, `Handle` | one request: what is wrong with it, the host it is at after the redirects so far, whether it carries the key, the reply, the answer |
| `Backoff` | `parseRetryAfter`, `setBackoff`, `backoffRemaining` | clock, `backoffUntil`; durations wrap around at `Half` |
| `RequestPipelineProofs` | — | types of the pipeline, no request is lost |
| `TickProofs` (EXTENDS `RequestPipelineProofs`) | — | what a tick does to the rows it polls |
| `PipelinePropertyProofs` (EXTENDS `TickProofs`) | — | the other properties of the pipeline, those that count among them |
| `RequestLedgerProofs` (EXTENDS `RequestPipelineProofs`) | — | the pipeline implements the ledger |
| `PluginProofs`, `AdminQueueProofs`, `CatalogProxyProofs`, `BackoffProofs` | — | the properties of these modules |
| `MCPipeline`, `MCPlugin`, `MCAdminQueue`, `MCCatalogProxy`, `MCBackoff` | — | model values, symmetry sets and inputs for TLC |

Abstractions worth knowing:

* A request is a number, a job a model value; titles, reasons and payloads are
  gone. Error texts are the three the deduplication can tell apart.
* NULL and the empty string are one value in `RequestStore`, as in the code.
* `TickBegin` joins taking the mutex, the look at the window and the listing:
  nothing another process can see happens in between. Rows without an external
  id count against the batch limit and are then skipped without an effect.
* Time in `RequestPipeline` is two Booleans, `expired` (the tick's context is
  done) and `parked` (the window is open); `Backoff` has the arithmetic.
* A *disturbance* is anything that goes wrong or that an operator does.
  `Disturbances` names the kinds of a run and `MaxDisturbances` bounds their
  number. Nothing else is bounded in the pipeline: upstream jobs may change
  status for ever, ticks repeat for ever.
* Requests that are lost, untold or silent are counted against `disturbances`
  because the code has neither an outbox nor a retry for them: what it does
  promise is that one failure costs one request, never a batch of them.
* `Plugin` keeps one request and reduces the consumer and the tick to the steps
  a change of generation can disturb; whatever else happens to a request is
  `RequestPipeline`'s. A statement on a closed pool returns an error.
* In `AdminQueue` a row is its place in the order of `created_at`; the filter is
  a set, since all a page can tell is whether a row matches.
* In `CatalogProxy` a body is one of four kinds (whole, too long, cut off, not
  the JSON asked for), and one constant says how many items fit into 10 MiB.
* The definitions named as mutants ("Mutant of ...") are plausible slips. No
  specification uses them; each shows that one property can fail.

## The runs

| Run | Instance | Shows |
| --- | --- | --- |
| `Interleavings` | 1 request, 2 handlers, 2 jobs, 3 disturbances of 10 kinds | `TypeOK`; `NoLostRequest`: a request not owed by the host is tracked or decided; `AcknowledgedIsTracked`; `AcknowledgedRowHasJob`; `FulfilmentIsGenuine`: imported only if a job of this very request completed; `TerminalIsFinal`; `TickNeverRegresses`; `ImplementsLedger` |
| `Mixed` | 3 requests, one without metadata, 1 handler, 1 disturbance of 8 kinds | `OneLossEach`: where requests can be lost, one failure or one answer without an id loses one; `ImportedIsAnnounced`, without crash, lost publish and expired tick, which break it by design; `SilencesAreCounted`: a row hides the error of its last poll only after a failed statement or a retry, one row each; `ParkedMeansQuiet` inside a batch of two tracked rows |
| `Progress` | 1 request, 1 handler, 2 disturbances of 8 kinds, fair | `EventuallySettled`, `PollErrorsAreTransient` |
| `FairPolling` | 2 requests, batch of 1, 1 disturbance of 6 kinds, fair | `LossesAreCounted`: a crash, a lost publish or an expired tick costs at most one announcement; `CompletedIsNoticed`, `FulfilledOnce` |
| `Plugin` | 3 Configures, one at a time, 1 PATCH, 1 delivery, fair | `PointersAreOpen`, `OneGenerationInForce`; `InForceIsStored`: between Configures the plugin runs on the stored settings, unless the row was written since; `StoredUrlIsValid`; `SettledIsTracked`: an acknowledged event has left a job to poll though its pool may have been closed under the handler; `OncePerGeneration`; `BlankKeyKeepsKey`; `ServedAcrossReconfigure`: a request is recorded, completed and announced whatever was under way when Configure was called |
| `AdminQueue` | up to 5 rows, 2 changes of status, limits 2 and 3 for 50 and 200 | `WalkMissesFew`: a walk misses no more rows than left the filter meanwhile, or came in between count and select of its last page; `WalkRepeatsFew` |
| `CatalogProxy` | 3 hosts, 4 calls for 10, limit 2 for 100 | `KeyStaysHome`; `HealthyIsServed`; `AnswerIsGenuine` |
| `Backoff` | quarter seconds in 16 bits, 12 headers, a clock of 1000 s | `NeverPinned`, `RetryAfterIsHonoured` |
| `V_RedeliveryFails` | 1 request, 2 handlers, 2 disturbances | `RedeliveryIsHarmless` fails: a failed redelivery fails a request that is being polled |
| `V_RejectUnrecorded` | 1 request without metadata, 1 failed statement | `NoLostRequest` fails for a request without metadata when its failure cannot be written |
| `V_Starvation` | 2 requests, batch of 1, no disturbance, fair | `CompletedIsNoticed` fails behind a full batch of rows whose job the upstream forgot |
| `V_ReconfigureTwice` | 3 Configures, no PATCH | `FulfilledOnce` fails when Configure replaces a Reconciler in mid-tick |

The `V_` runs are expected to find the violation; `findings` in `PROJECT.json`
quotes the sentence of the docs or comments that the code contradicts.

Why the bounds are enough. No step of the pipeline reads the row of another
request, except the order of the batch, so one request suffices for the safety
of a row, and two or three for what the batch decides (order, limit, break). Two
handlers are every pair of deliveries of one request; two jobs are an old and a
new one. Three disturbances reach a redelivery that meets a failure and a crash
or an operator; every known disagreement needs two at most. The limit of one in
the fair runs stands for a batch that is full. Two Configures overlap with one
tick each; the third shows what is left behind; one PATCH falls before, into and
after an import, and a second could only repeat what the first did between two
Configures. In `AdminQueue` five rows are two to five pages of
one to three rows. In `CatalogProxy` three hosts
are home, another, and another yet, so that a chain can leave the other host for
a third; four calls hold home, away, away and back. In `Backoff`, 600 s is 2400
units, far below the 32768 at which a duration wraps, as in 64 bits.

Deadlock is checked in all pipeline runs. `Plugin` (and `V_ReconfigureTwice`),
`AdminQueue`, `CatalogProxy` and `Backoff` turn it off: with the bounded number of
Configures or changes used up, the walk at its end, the request answered, or the
bounded clock at its end, the model has nothing left to do.

Fairness. `FairSpec` assumes that the host goes on delivering what is pending
(at-least-once delivery), that a started handler or tick goes on running (the Go
scheduler), that a tick is fired again after each that ended (the task runs
every minute) and that the rate-limit window passes. All weak fairness. Nothing
is assumed of the upstream's jobs, of operators or of disturbances; that the
latter are finite in number is what `MaxDisturbances` adds. In `Plugin` the
host redelivers until it gets an acknowledgement, a Configure that was let in goes
on or fails, and only ticks the scheduler fires are fair, never "run now"; nobody
has to call Configure or send a PATCH.

## What is proved

`RequestPipelineProofs` proves, for every number of requests, jobs, handlers,
disturbances and every batch limit:

* `TypeCorrect`: `Spec => []TypeOK`. `TypeOK` alone is not inductive: a step of
  a handler uses the request it holds, and a step of the tick the row at the head
  of its batch. `Base` adds `BusyOK` (a handler that is not idle holds a request)
  and `BatchOK` (a listed row has an external id and a status).
* `NoRequestIsLost`: `Spec => []NoLostRequest`, if the upstream never sends an
  answer without an id and if either every request has metadata or no statement
  fails. The two conditions are exactly the two ways the code loses requests (see
  `V_RejectUnrecorded`, and below for the other). The invariant `Recorded` adds
  `HandlersOK`: a handler about to publish stands on a row that is already
  tracked or terminal, which is what "persist before publish" buys. `RowsKept`
  is the action lemma under it: no step forgets an external id, and a row that
  is tracked or terminal stays so.

`TickProofs` adds what the tick needs. It polls the rows of a snapshot one after
the other while the table changes under it, and everything said of the answer it
holds is said of `Current(r)`. `TickInv` adds `TurnsOK` to `Base`: `pollOrder` is
an order on the stamped rows and no two rows of the batch have the same turn, so
that there is one current row at a time. On top of it:

* `FulfilmentIsGenuineHolds`, no condition. `OwnersOK` (a row or a snapshot
  with an external id, and a handler that got a job, refer to a job that runs for
  their own request) and
  `AnswerOK` (an `imported` in the tick's hand comes from a completed job that
  belongs to the current row) are what keeps a stale snapshot from importing a
  row on the answer for another.
* `TickNeverRegressesHolds`, no condition. `SnapshotInv` compares snapshot and
  table: a row that was listed with a status of the plugin's own can since have
  been given only such a status or a terminal one, since the tick that listed it
  is the only one to write the others.
* `ImportedIsAnnouncedHolds`, if no message is lost, no tick expires and the
  process does not die. These three lose an announcement by design, which
  `LossesAreCounted` counts.
* `FulfilledOnceHolds`, if every statement succeeds and no row is retried. With a
  statement that is reported as failed the code publishes a second time (see
  below), and a retried request is fulfilled anew. Crashes, redeliveries,
  expired ticks, lost messages and manual failures are allowed.

`PipelinePropertyProofs`:

* `TerminalIsFinalHolds`: every change of the table is one statement with typed
  arguments (`HandlerWrites`, `TickWrites`) or an operator's, and no statement
  takes a row out of a terminal status (`WriteKeepsTerminal`). No condition.
* `AcknowledgedIsTrackedHolds` and `AcknowledgedRowHasJobHolds`, if the upstream
  never sends an answer without an id: `AckInv` says that a handler about to
  record an acknowledgement has a job, and one about to publish it works on a
  tracked row.
* `ParkedMeansQuietHolds`: `QuietInv` says that while the window is open the
  tick is over, or has nothing left in its batch, or is recording the 429.
* `OneLossEachHolds`, `SilencesAreCountedHolds` and `LossesAreCountedHolds`, no
  condition. None of the three counts is inductive: the misfortune is counted
  when it strikes, and the row shows the damage steps later. Each proof
  therefore counts a larger set, of the rows that are damaged or bound to be,
  and shows that a step adds to it nothing, or one row and one disturbance:
  `Doomed` (with the requests whose handlers will acknowledge and have no job to
  record), `Silenced` (with a row whose error the expired context may not let
  the tick write), `Charged` (with a row that a tick without time is about to
  decide, and the requests whose failure a handler is about to record or to
  publish, charged when the upstream failed). A crash hits the tick and every
  handler at once and still charges one row, the tick's: those of the handlers
  were charged when the upstream failed, or, without metadata, are told when
  their event is delivered again.

The attempt at `LossesAreCounted` found a fault of the model: `Untold` counted a
request without metadata as untold for good while its event was still to be
delivered again, and with such a request one crash in mid-tick and mid-delivery
cost two announcements. The code rejects, and tells, such a request each time it
is delivered (`consumer/handler.go:93-108`), so `Untold` leaves it out while the
host owes it.

`RequestLedgerProofs` proves `PipelineImplementsLedger`, under the condition of
`NoRequestIsLost`: the initial states map to the ledger's, and every step is one
of the ledger's or leaves it unchanged. `LedgerInv` is `Recorded` and
`BatchIsOpen`: the snapshot of a tick holds open statuses only, so that writing
one back decides nothing.

`BackoffProofs` proves `TypeOK`, `NeverPinned` and `RetryAfterIsHonoured` of
`Backoff` for every unit, width, set of headers and clock. `WindowInv` says that
the window never reaches further than ten minutes, and that what was asked for
lies in the past or within the window, or, between the answer and `setBackoff`,
within the window that is going to be set; `AskedIsGranted` is where the
wrap-around of a duration matters.

`CatalogProxyProofs` proves the four properties of `CatalogProxy` for any hosts,
cap, limits and routes. `TypeOK` needs `WithinCap` (a call about to be made is
within the cap), which is where the off-by-one of `len(via) >= 10` would show.
`KeyInv` adds to `KeyStaysHome` that a request that carries the key is on its way
home. `AskedWell` is its converse, that a call home carries the key, plus what a
healthy reply looks like; with `ForwardedLimitFits`, which rests on the assumption
that a page of the clamped size fits into the body limit, it gives
`HealthyIsServed`.

`PluginProofs` looks at the state in three parts: the settings (`SettingsInv`),
the Configure calls (`ConfigureInv`) and the work under way (`WorkInv`); together
they are `PluginInv`. For any number of Configures, overlapping or not, of PATCH
requests and settings:

* `TypeCorrect`; `StoredUrlIsValidHolds` (`SettingsInv`: the settings of every
  generation, which an import may write over the row, are valid too);
* `SettledIsTrackedHolds`: in `WorkInv`, the event is acknowledged exactly when
  the row is tracked, and nothing a Configure does to a pool changes the row;
* `OncePerGenerationHolds`: `AnnouncedInv` says that once a Reconciler has
  announced the request, or is about to, the row is imported, or the pool
  through which it could list the row again is closed;
* `BlankKeyKeepsKeyHolds`, an action property.

With `MaxRunning = 1`, that is if the host awaits each Configure before it calls
the next, which the code itself does not enforce:

* `PointersAreOpenHolds`, `OneGenerationInForceHolds`: `WiringInv` says which
  pools are open (the one in use, and that of the call that is running) and how
  far the pointers have moved at each step of Configure, a failing one included;
* `InForceIsStoredHolds`: `StoredInv` says that, as long as nobody else wrote the
  row, it holds the settings of the call that has passed the import, or of the
  generation in force if none has.

`AdminQueueProofs` proves `TypeOK`, `WalkRepeatsFew` and `WalkMissesFew` for any
queue length, limits and number of changes. A walk by offset is right as long as
the rows it has passed are the rows before its offset. The first lemmas are about
ranks in a finite set of numbers: a number that comes in raises the rank of those
below by one and so pushes one at most over a given rank (`OneIsPushedBeyond`),
one that leaves draws one at most across it (`OneIsDrawnWithin`). `RepeatsOK` and
`MissedOK` count the rows on the wrong side of the offset, together with those
already shown twice; `TotalOK` says by how much the queue can have outgrown the
count between the two statements of a page, which is what the last page may miss.

The proofs go action by action; each lemma `<Action>Type` shows that one action
preserves the types and `RowsKept`. They rest on the named assumptions of the
modules (`RequestsAssumption`, `NoJobAssumption` and so on), which TLC evaluates
in the runs. A condition on `Disturbances` or `MaxRunning`
is stated as an ASSUME of the theorem that needs it; it says which kinds of
misfortune the code survives, and the runs that check the property satisfy it.

Only model-checked: liveness (`EventuallySettled`, `PollErrorsAreTransient`,
`CompletedIsNoticed`, `ServedAcrossReconfigure`), which is out of the prover's
reach, and the violations. Every safety invariant and action property that a
passing run checks is stated by a theorem.

## Other disagreements met while modelling

These follow from the model as well, and are not kept as runs:

* An upstream answer with a status and no id (`ebookdb/monitoring.go:94` accepts
  it) makes a row `acknowledged` without `external_id`; the reconciler skips it
  for ever (`docs/request-lifecycle.md:54` says the id "is now set").
* If a redelivery's AddMonitoring fails on an imported row, `request_failed` is
  published though the row stays imported (`consumer/handler.go:120-131`).
* A crash between the statement that makes a row terminal and the publish loses
  `request_fulfilled` or `request_failed` for good; a failed MarkPolled makes
  the next tick publish the transition a second time.
* Retry clears `error_text`, but the reconciler's map still has the text, so the
  same error is not written again and the row shows none.
* A poll that fails is not part of `firstErr`: the tick reports success
  (`reconciler/reconciler.go:189-193` says operators "can see why").
* A tick in flight writes the `external_id` of its snapshot over the one a
  redelivery stored meanwhile.
* `Retry-After: 1` parks for one second (`docs/debugging-runbook.md:95` says
  at least 60 s on any 429).
* Two concurrent PATCH requests: the one with a blank key writes back the key it
  has read over the key the other has stored since (`server/server.go:261-274`;
  `docs/admin-api.md:31` says a blank key means "keep existing").
  `BlankKeyKeepsKey` is therefore stated for a row that is still the one read.
* A PATCH is not in force until the next Configure: client, Reconciler and
  consumer keep the settings they were built with, while
  `docs/upstream-ebookdb.md:99-102` offers re-entering the key as the cure of 401.
* A Configure that fails after the import leaves the host's settings in
  `app_config` and the previous generation in force.
* The text of an error is remembered before the statement that writes it: if
  that fails, the row shows nothing while the error repeats.
* `limit=300` selects 50 rows (the comment at `store/request.go:171` says
  "clamped to [1, 200]"), but the offset is computed with 300, so that the next
  page begins 250 rows further (`server/server.go:106`).
* A row that arrives between the count and the select of the last page pushes
  the oldest row off that page, and Next is disabled.
* A row just retried counts as stuck at once: retry clears `last_polled`, and
  `created_at` is old (`store/request.go:241-245`).
* A file whose stream ends early is answered with the status and headers of the
  whole: `proxyStream` ignores the error of `io.Copy`, and the adapter buffers
  the body in a recorder (`docs/upstream-ebookdb.md:45` says it is "piped
  through to the caller").
* The eleventh hop of a chain of redirects is not followed; its 3xx is relayed
  by the cover and file routes without its `Location`.
* The import may overwrite an edit made between its read and its write, and
  imports again once an admin has set everything back to the defaults.

## Not modelled

The translation of a book into the portal's shape (`catalog/transform.go`, a copy
of fields), the conversion of a host request's query and headers, the HTML page,
the stuck list, statistics, diagnostics and test search (reads of state modelled
elsewhere), logging and masking, payload keys, formats and the addressing of an
event, `Snapshot` (one lock around one copy), the migration engine (a library).

## Plan

Done: store, environment, consumer, reconciler, their composition and its
ledger; the plugin's generations with its configuration and a delivery; the
admin queue; the catalog proxy; back-off arithmetic; the theorems above.

Next, in this order:

1. What remains of `Plugin` when Configures overlap (`MaxRunning = 2`): which of
   `PointersAreOpen`, `OneGenerationInForce` and `InForceIsStored` survive in a
   weaker form, stated and proved.
2. `FulfilledOnce` with failing statements: each failed MarkPolled repeats at most
   one announcement, a fourth property that counts.
3. An abstract specification of the wiring (one generation in force, replaced as
   a whole or not at all) that `Plugin` implements.
