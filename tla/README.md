# Hormuz in TLA+

Hormuz (`src/hormuz/`) is a gateway between coding clients (Codex, Claude Code) and model
providers. It authenticates a request, decides a route under a policy, holds budget for the
provider attempt, sends it, and settles what it cost. Around that path stand a ledger of AI work
(jobs, plans, measured profiles, exact reuse of answers), an optional local model on the user's
machine with a persistent Codex connection, and several stores of evidence.

This directory holds TLA+ models of the parts whose correctness depends on the order of steps of
several actors, the TLC configurations that check them on small instances, and proofs of their
main safety properties for every value of the constants.

Run TLC as `tlc -config X.cfg MCModule.tla` and the proofs as `tlapm ModuleProofs.tla`.
`PROJECT.json` lists components, runs, the source lines of every definition, the known hazards
with the properties that cover them, and the mutations of the code each property was seen to catch.

## 1. The system

### Components, their state and their operations

| component | source | state it keeps | operations |
|---|---|---|---|
| connected client lifetime | `connected_client.py` | `connection.json` (generation, phase, original values), the user's `config.toml`, the transaction lock | connect, disconnect, recovery of an interrupted one, status |
| router host | `connected_client_runtime.py` | the runtime lease (a kernel file lock), a control socket | serve, status, stop, qualify, routing |
| managed engine and guardian | `managed_llama.py` | the llama.cpp child, an inherited lease descriptor | launch, readiness, loss of owner, cleanup |
| attempt ledger | `store.py`, `_persistence.py` | attempts, events, reservations, usage rows in SQLite | begin, finalize, mark unknown, sweep, refresh, release, failover |
| request handlers | `server.py` | one thread per request | admit, send, stream, settle, fail over |
| gateway lifetime | `server.py`, `work_gateway.py`, `work_recovery.py` | the port, the handler threads, ownership of the work ledger | start, recover, report readiness, drain, close |
| route admission | `route_admission.py` | the local-inference slot, cached readiness | capacity, final_check, candidate routes |
| policy | `policy.py`, `policy_document.py`, `config.py` | an immutable snapshot | evaluate |
| AI work ledger | `work_runtime.py`, `work_accounting.py` | jobs, plans, attempts, observations, conversations | create, reserve, settle, confirm, observe, plan |
| work route choice | `work_runtime.py`, `work_learning.py` | exploration rows of a month, attempts and observations of a cohort | choose_route, reserve |
| work budgets | `budget_runtime.py`, `_budget_schema.py` | scopes, plan versions, activations, bindings | prepare, bind, deny |
| work receipts | `work_runtime.py`, `work_http.py` | none of their own: they read jobs, plans and attempts | receipt, page of attempts |
| exact answer cache | `work_runtime.py` | an LRU of answers bounded by entries and bytes | get, put, evict, close |
| measured profiles | `work_runtime.py`, `work_learning.py` | versions, snapshots, a queue and one worker | announce, refresh, snapshot |
| audit chain | `store.py`, `audit_chain.py`, `_audit_verifier.py` | a hash chain per organization, its head, epochs, checkpoints | append, begin an epoch, verify |
| evidence tables and schema | `_finance_schema.py`, `_budget_schema.py`, `_linear_schema.py`, ... `_persistence.py` | tables, keys, triggers; the ledger of applied versions | insert, open, upgrade |
| finance collection | `finance_collection.py` | slots and deadlines of collections | fetch a chain of pages, normalise, recheck |
| finance evidence and accounts | `usage.py`, `finance_attempts.py`, `finance_accounts.py` | counters of an answer, sidecars of attempts, registrations | observe, estimate, settle, bind an account |
| custody and anchors | `custody.py` | envelopes, retained exports | seal, rewrap, export, verify |
| native Codex path | `native_codex_*.py` | conversation leases, affinity, counters | begin, stream, finish |
| app bridge | `codex_app_bridge.py` | a record with a lock per chat, pending calls, the launch setting | relay, rebind, remember a default |
| chat owner and tasks | `chat_owner.py`, `chat_task.py` | the record of who owns the chat | register, off |
| local history | `local_history*.py` | consent, encrypted entries, files under a file lock | enable, capture, delete, disable |
| local acquisition | `local_acquisition.py`, `asset_download.py` | a generation directory, its lock, partial files | fetch, resume, publish, verify |
| local setup | `local_setup.py` | a credential and a configuration file | preview, create, connect |
| coding probe | `coding_probe.py` | one armed plan with a use count | arm, check, claim |
| model benchmark | `model_benchmark.py`, `scorecard_routing.py` | samples, a scorecard file | measure, prefer |
| observers | `work_connection.py`, `native_codex_provider.py` | what they saw of a stream | observe an event |
| configuration, contracts, parsing | `config*.py`, `contracts.py`, `redaction.py`, schemas | none | pure functions |

`PROJECT.json` names the components one by one, with what is modelled of each.

### How they interact

* Every request is a thread of `server.py`. It calls the ledger in transactions of its own
  (`BEGIN IMMEDIATE`), takes the local slot without waiting, and calls the provider with no lock held.
  Between any two of its calls other handlers, sweeps, the clock and a restart may run.
* The attempt transaction also resolves the work budget and the provider account of the attempt, and appends to the
  organization's audit chain: what was prepared before the transaction is held against what is stored by then.
* The work ledger is a second set of tables. A request that belongs to a job is prepared there, chooses a route there,
  reserves there, and settles there after the gateway's own settlement; corrections change the job at any time.
* The answer cache and the profile snapshots live in memory beside that ledger. They are changed *after*
  the transaction that makes them stale, under locks of their own.
* Gateway processes overlap: a supervisor starts one while the last is draining. They share the port, the
  database file, whose schema the newer may upgrade, and the ownership of the work ledger.
* The connected client is a command that writes a journal and a configuration, and starts a host process
  that outlives it. Command, host and guardian share nothing but the journal, a control socket and a
  kernel lease. Chat commands and the installation of the app bridge come on top, with a record and a launch setting.
* The local device stores are files changed under a file lock, or published by a link, by several processes.

### What is hard

Steps of two actors in an order no test has (a sweep while an answer streams in; a host that locks late;
a correction between a cache hit and its use; an `off` while a connection is replaced), state read outside the lock or
transaction it is used under (a work budget prepared before the reservation, a chat record looked up before its lock),
crashes between two writes (a link and the removal of its staging name, an upgrade of the schema), settlements out of
order and over a restart, answers later than their timeout, limits (holds, versions, cache bytes, slots, pages) that are reached,
numbers at a boundary (half a micro-unit, the largest stored count), long sequences of legal calls (restores of a database
from backups), and work that must eventually happen (the slot, a queued key, a stop request).
`PROJECT.json` "hazards" lists each of them at its line.

### What makes each component correct

* Ledger and handlers: no egress without a hold; a known cost is charged or stays held; outcomes are
  final; one failover, after a settlement at no cost; nothing is overcommitted; the slot is exclusive and comes free.
* Policy and budgets: what is used is allowed at every level; a reservation is counted against every limit
  in force, and a window's plans are kept whoever is admitted when.
* Work ledger: what a plan admitted stays within it; charges are final; a correction is never undone by a
  late answer; a conversation keeps its job; exploration stays within its monthly share; a receipt shows what is enforced.
* Answer cache and profiles: nothing retired is served, nothing lost is kept, memory is bounded, queued work is done.
* Evidence: every change of an audited fact is in a chain that verifies, and a rollback is noticed; what was
  written is kept; an answer settles once, at what it reported; a collection is whole or refused; an upgrade leaves a file that opens.
* Connected client: one runtime; the user's settings come back; "disconnected" means cleaned up; `off` stops
  nobody's replacement.
* Device stores: nothing withdrawn is stored; nothing unpinned is published; a command that was cut off can be given again.

## 2. The modules

| module | what it is |
|---|---|
| `ConnectedClient` | the lifetime of a connection: commands, user, hosts, guardians |
| `ConnectedClientProofs` | its type invariant and safety invariants, proved; proofs about `LocalSetup` and `ChatOwner` |
| `BudgetHolds` | the abstract promise of one organization's budget: a hold is taken, ends once, and ends paid, freed or kept |
| `AttemptLedger` | the durable ledger, one action per transaction; implements `BudgetHolds` |
| `AttemptLedgerProofs` | its invariants, two action properties and the refinement, proved |
| `GatewayRequest` | the handlers over the ledger (`EXTENDS AttemptLedger` and uses its transactions as its steps) |
| `GatewayRequestProofs` | the properties of the handlers, and what they keep of the ledger, proved |
| `GatewayLifetime` | overlapping gateway processes: start, readiness, drain, close, kill |
| `PolicyDecisions` | policies of three levels, the decisions they make and the limits they reserve against |
| `WorkLedger` | jobs, plans, reservations, settlements, conversations, pinned models |
| `WorkRoutes` | the choice of a route over measured profiles, and the exploration allowance |
| `WorkBudgets` | scopes, plans and activations, and the bindings of attempts to them |
| `WorkReceipts` | receipts and pages of attempts against what admission enforces |
| `AnswerCache` | handlers, corrections and `close` over the exact answer cache |
| `ProfileRefresh` | handlers, routing, the worker and `close` over the profile snapshots |
| `AuditChain` | writers, epochs, retained checkpoints, backups and restores of one organization's chain |
| `EvidenceTables` | keys and triggers of the append-only tables |
| `SchemaUpgrade` | gateways of several schema versions that open, upgrade and append to one file |
| `FinanceCollection` | collections of a provider's reports: slots, pages, retries, deadlines, normalisation |
| `FinanceEvidence` | what an answer reports of its usage, the estimate, and the terminal evidence |
| `FinanceAccounts` | account bindings, finance sources and the sidecar of an attempt |
| `AnchorArtifacts` | envelopes under rotated keys, exports under the head of their chain |
| `ModelBenchmark` | a benchmark against a router that restarts, and the preference its scorecard gives |
| `AppBridge` | turns, rebinding and remembered defaults of one chat between the app and its engine |
| `ChatOwner` | chat commands, `off`, reconnections and the bridge's launch setting |
| `LocalAcquisition` | commands and workers that fetch and publish pinned files |
| `LocalSetup` | setups that are cut off and given again |
| `TerminalObserver` | the two observers of a streamed answer |
| `CodingProbe` | requests that check, claim and send under a plan which is armed, ended and replaced |
| `LocalHistory` | captures of requests against the user's enabling, disabling and deleting, each of which may be cut off |
| `NativeConversations` | native handlers: slots, conversation leases, continuation memory, counters |
| `Subsequences`, `DataTheorems` | the elements of a sequence at chosen places; theorems about sums over finite sets and about subsequences |
| `WorkLedgerProofs` | type, budgets and affinity of the work ledger, proved; proofs about `WorkBudgets`, `WorkReceipts` and `WorkRoutes` |
| `GatewayPartsProofs` | proofs about `FinanceAccounts`, `FinanceEvidence`, `ProfileRefresh`, `AnswerCache`, `PolicyDecisions`, `GatewayLifetime`, `SchemaUpgrade` and `ModelBenchmark` |
| `AuditChainProofs` | the audit chain: what verifies, and that a rollback is noticed; proofs about `AnchorArtifacts` and `EvidenceTables` |
| `DevicePartsProofs` | proofs about `LocalHistory`, `NativeConversations`, `CodingProbe`, `LocalAcquisition`, `TerminalObserver` and `AppBridge` |
| `MCGatewayParts`, `MCWorkParts`, `MCDeviceParts` | sums of parts that share no state, for TLC |
| other `MC*` | the values of the constants of each for TLC |

A definition whose name has an underscore followed by a word (`HoldsLease_HostOnly`) is a plausible
mistake in the code, written beside the definition it would replace. It is not used by the
specification; it documents what the property named in `PROJECT.json` "mutants" guards against.

A property whose name ends in `IsSound` (or `IsClean`, `IsCovered`) is the conjunction of the named properties of one component, which
are stated one by one just before it, each with its comment.

### Sums of parts

`MCGatewayParts` (12 parts), `MCWorkParts` (4) and `MCDeviceParts` (8) each extend components that share no
variable in these models. A variable `part` is chosen at the start, `PartsNext` is the disjunction of the parts'
next-state relations, each under `part = ...` with the variables of all others UNCHANGED, and `StandStill` fixes one initial state for each
idle part that has several. So the states of the parts add up and do not multiply. Nothing is lost: a step of one part
neither reads nor writes the variables of another, so every behaviour of a part is a behaviour of the sum, and what
holds in the sum holds in each part. `PartsTypeOK` is a CASE on `part`.

### ConnectedClient

State: `journal` is `connection.json`; `config` the keys and provider tables of the user's file that
the program may touch; `pc, why, snap, err` the command that holds the transaction lock, the document it
compares with and the error it carries; `host`, `stop` and `guardian` the processes of each generation.
`want` and `lost` are history: what the user last chose, and whether an edit fell between a comparison
and its replace. Each file write, each comparison, each journal reading of the host, and each step of the
guardian is an action, since a crash or another process may come between any two. `HoldsLease` is the
kernel's rule: the lease is free when the last descriptor is closed, the guardian's inherited one included.
Not modelled: the preview and status views, which write nothing; what the qualification of a client
version checks (a refusal is an outcome of `Fresh`); the contents of the documents beyond the two owned
keys and the provider table.

### AttemptLedger, BudgetHolds, GatewayRequest

State: `event` is an attempt's latest event, `root` its immutable first record, `hold` the reservation
rows, `expired` those past `expires_at`, `usage` the settled cost and its month. `BeginAttempt`
includes the sweep and the purge its transaction performs first. A transaction that raises is rolled
back whole and is no step. The clock (`Expire`, `NewMonth`) is free.
`GatewayRequest` gives each handler a program counter (`pc`), the attempt it holds (`att`), whether it may
fail over (`alt`), and models the slot (`lease`) and the process (`up`). `Settle` and `GiveUpOn` are
ledger calls that may fail: `_settle` and its callers log the error and go on. `Crash` forgets the handlers, and
`Restart` sweeps. `due` is history: the cost the provider made known.
`BudgetHolds` knows of an attempt only `stage` (none, held, unknown, ended) and `paid`. The refinement
mapping reads both from `event` and `usage`.
Abstractions: one organization; one amount per hold (cost; tokens and request counts are checked by the
same comparison); limits are constants; authentication, counting and catalog requests, redaction and the
bytes of the stream are left out.

### GatewayLifetime, PolicyDecisions

`GatewayLifetime` has a stage per process, the owner of the work ledger, the processes that listen, and the state of each
exchange, with the recovery of pending attempts at the opening of the ledger, and the readiness probe in the two readings the code makes.
A kill is possible in every state. In `PolicyDecisions` a document has an organization level, a
team level and one per actor; `Effective` merges them as `overlay` does, `Evaluate` decides, and `BeginAttempt` reserves in one
transaction against every limit that applies, while other requests have been evaluated meanwhile. A failover is two transactions:
`FailOver` settles the attempt at no cost and so gives its hold back, `BeginAlternate` reserves at the alternate's price what others may have taken since,
or is denied. One organization and one team; tokens are limited as cost is; an attempt costs nothing or what it held.

### WorkLedger, WorkRoutes, WorkBudgets, WorkReceipts

`WorkLedger`: per job `state`, `pin` (pinned_model), `gen` (cache_generation), `ctx`; `attempt` and `rows` are
`ai_work_attempts` in row order; `budget` the plans; `bound` the conversations. `ceiling`, `retired`
and `moved` are history. One action is one write transaction of `WorkRuntime`; a denied reservation is
recorded and pauses the job. Abstractions: one actor; `Planned` bounds which scopes are ever given a plan;
the recurrence guard's patterns and cooldown are an outcome; references are unique by construction.

`WorkRoutes` keeps per job the rows a profile is measured from and the rows of exploration. `ChooseRoute` is the whole decision of
`choose_route`: the prior choice of the job, the alternatives on measured evidence, the exploration within the month's
share, the baseline with its reason. It decides on the profiles at hand: `ReadProfiles` copies the rows, `SaveProfiles` keeps what was made of them or
does not, `RetireProfiles` drops it. Which profiles are kept and retired when is the question of `ProfileRefresh`; here they may be of any age, though the code
uses none for more than 30 seconds, so that those which survive by the finding below are among them. A restart (`Reconfigure`) drops them.
Money and allowance are read when the choice is made. `ReserveChosen` makes a choice and its allocation, and the hold that follows. A
fingerprint of a route changes with `Reconfigure`, after which its evidence is another route's.

`WorkBudgets` holds what a control plane writes (scope versions, plan versions, activations, under the rules of
their tables) against what a request prepared: `wref` is the scope it is attributed to and `asOf` the time it read before it waited for the lock; `BeginWorkAttempt` resolves the
chain, the plans in force and the window in one transaction. `WindowsAreKept` counts a window's exposure over all
versions of its plan; `BindingsAreComplete` says no plan in force was missed.

`WorkReceipts` adds the same rows up in the two ways the code does, for the reader and for admission, and pages through
them by cursor while attempts are admitted, settled and confirmed.

### AnswerCache and ProfileRefresh

Both model the gap between a commit to the ledger and the change of what is kept in memory. In
`AnswerCache` a correction is `Retire` (the commit) and later `EvictWork`; a handler computes its key
(`Identify`), reads the cache, and has its hit admitted in a transaction (`ReserveHit`), or asks the
provider and stores what it got under the key it computes then. In `ProfileRefresh`
`Commit`, `Retire` and `QueueNext` are a handler's steps after evidence, `Take`, `Read`,
`Save`, `Requeue` and `SignOff` the worker's, and a profile is known by how much evidence it was
computed from. `refresh_benchmark` is left out: nothing in the repository calls it. (It takes its
version after its transaction's first read, unlike the worker; a caller added later would want the order of
`Take` and `Read`.)

### AuditChain, EvidenceTables, SchemaUpgrade

In `AuditChain` a digest is the tuple of what it binds, the model of a collision-free hash. A transaction is `InsertSource`,
`InsertEntry`, `AdvanceHead` and `CommitAudit`, with the write lock between, since a writer may fail at each. `CopyAudit` and
`RestoreAudit` are the operator's backup, `RetainCheckpoint` what is kept outside, and `BeginEpoch` names a
retained checkpoint. `HistoryVerifies` says that everything the gateway wrote verifies; `RollbackIsNoticed` that
a database which lost entries after a retained checkpoint does not.

`EvidenceTables` describes a table as its keys, the columns that may be NULL, what its replace guard looks at and what its other
triggers compare, and tries every insert and every `INSERT OR REPLACE` of small rows against them. The tables of a family refer to each
other and are explored together. CHECK constraints of a single row are left out. Foreign keys are
declared and not enforced by the gateway's connection, so the model does not enforce them.

`SchemaUpgrade` describes each of the 20 migrations by the tables, columns and triggers it adds, drops and puts back, since six of
them rebuild the table of audit entries. Programs of different versions open the same file, upgrade it in
one transaction, are abandoned anywhere, and append entries in between.

### FinanceCollection, FinanceEvidence, FinanceAccounts

`FinanceCollection`: a thread waits for a slot within its deadline, asks for pages, tries again a bounded number of times, and
normalises what it has to the grid of its query; `Revalidates` is the recheck before the result is stored. Amounts are
a coefficient and an exponent, so that digits and scale can be at their limits.

`FinanceEvidence` is the path of one answer: the events of a stream or one object, the counters the gateway charges by (`ChargeInput`, ...), the
native evidence (`Observe`), its validation, the estimate with half-even rounding, and the outcome under every way an answer can break off.
A count is any number: the charge takes it, the evidence only up to `MaxCount`, which is also what a column of the usage row holds. A row with more
(`TooLarge`), or evidence that is refused, rolls the settlement back, and the attempt is `pending` until `SweepStale`. A service tier beside a
usage that is no object is left out.
`FinanceAccounts` is the registration of bindings and sources (external) and the sidecar that an attempt is begun with; a binding is compared with
the upstream, the transport and the credential of the candidate.

### AnchorArtifacts, ModelBenchmark

`AnchorArtifacts` models the library of `custody.py`; nothing under `src/` calls it, so that its callers, the key service and the store
are external. `ModelBenchmark` runs cases in order against a router that may restart with other facts of a route between any two of them, and
gives the preference only to routes that are still as they were measured.

### AppBridge, ChatOwner, TerminalObserver

`AppBridge`: every request of the app is a task; `records` are the objects a chat has had, each with its lock, and a task works on the one it
looked up. Calls to the engine time out and are answered later. A write of the effort alone takes the model it finds when it arrives, and a local
selection it carries comes into effect, model included, when its answer does: a write of the model that was answered in between is undone then (`crossed`,
and `SavedIsKept` says so). A selection is in effect before it is filed, and the app is sent an error when it cannot be. Efforts have no value of their own. Requests other than turns and model writes are
left out (model/list, config/read, thread/start and fork, and the start and stop of the process).
`RebindsIdleChats` is stated there and is not a promise of the bridge (see Observations).

`ChatOwner` has one normal home, router homes with the generations and phases of `ConnectedClient`, the record, and the launch setting. A chat command
and an `off` are several steps each; only the record has a lock. A restoration reads the launch setting (`RestoreLaunch`) and writes it
(`PutLaunch`) by two processes, and a setting that the user makes in between is lost: `LaunchIsTheUsers` speaks of the others ("users own", not "users late").

`TerminalObserver` keeps the phase of each observer and what was sent; `CompleteIsComplete` compares its verdict with
grammars of complete answers, one per protocol, over the events sent so far. An event has one line of data.

### LocalAcquisition, LocalSetup

A file is its names and its content (whole or not, pinned or not). Both publish by a link from a private name, which a crash may leave
behind; `Kill` and `CrashSetup` are possible at every step. In `LocalAcquisition` the worker that receives outlives a killed command for a while
and keeps the lock it inherited. In `LocalSetup` a directory fills with other files (`FilesAppear`) and with staging files that a crash leaves (`Fill`), and
the search for the staging name of a published file (`Recovered`) gives up after `ScanLimit` entries: the file then keeps two names and is refused as unsafe,
as `docs/SHARED_LOCAL_SETUP.md:107-113` has it. `SetupCanBeRepeated` allows that refusal there and nowhere else.

### CodingProbe, LocalHistory, NativeConversations

`CodingProbe` is `CodingProbe.check` at its
three call sites (`Select`, `Claim`, `Send`), with what happens between them; `MayProceed` is the check itself, over inputs
whose items only matter as a sequence that grows. `LocalHistory` has one action per operation under the
file lock, and in each the outcomes of its first file operations alone, since a process may be killed or a
write may fail; `withdrawn` is history. A change of the retention period is left out: time passes for the oldest
first. In `NativeConversations` an answer's several keys are one, known by the request that was answered, and `old`
is a passed deadline.

## 3. The runs

Each run finishes in less than four minutes with two workers.

| run | instance | what it shows |
|---|---|---|
| `connected_client` | 2 generations, the second managed; 2 user values | `RuntimeIsSound` (one runtime, and it is the current one), `DisconnectIsClean`, `UserChoiceKept` in every interleaving and crash |
| `connected_client_live` | 1 managed generation | `ProcessesEnd` under `ProcessFairness`: a stop frees the lease, an engine follows its router |
| `disconnected_not_stopped` | as the first | violated: see Findings |
| `attempt_ledger` | 3 attempts, 1 lone row, 2 actors, limits 3 and 2, 2 months | `WithinLimits`, `LedgerIsSound` (a hold exactly while open, failover after settlement, outcomes final), `ImplementsHolds` |
| `gateway_request` | 2 local requests, 3 attempts, limit 2 | `EgressIsCovered` (held before it is sent, its cost charged or held), `FailoverOnceAndFree`, and `LeaseComesFree` under fairness |
| `work_ledger` | 2 jobs of a repository, 2 requests, a conversation, plans on the repository and a job, 2 months, 1 correction | `BudgetIsSound`: plans kept, charges final, conversations keep their job |
| `work_parts` | 4 parts, 1.4 million states; bounds below | `AffinityIsSound`, `WorkBudgetsAreSound`, `RoutesAreSound`, `ReceiptsAreSound` |
| `profile_refresh` | 2 keys of a cohort, 2 handlers, room for both | `RefreshIsSound`: snapshots are current, and a queued key is taken |
| `profile_refresh_forgotten` | 3 keys, room for one | violated: see Findings |
| `gateway_parts` | 12 parts, 1.2 million states; bounds below | `AuditIsSound`, `EvidenceIsSound`, `UpgradeIsSound`, `FinanceEvidenceIsSound`, `CollectionIsSound`, `BoundWasCurrent`, `PolicyIsSound`, `LifetimeIsSound`, `AnchorsAreSound`, `BenchmarkIsSound`, `CacheIsSound`, `OwnEvidenceIsCurrent` |
| `device_parts` | 8 parts, 2.9 million states; bounds below | `PlanIsKept`, `HistoryIsSound`, `OneAttemptPerConversation`, `NativeIsSound`, `AcquisitionIsSound`, `ObserverIsSound`, `BridgeIsSound`, `OwnerIsSound`, `SetupIsSound` |
| `evidence_rewritten` | the budget tables, 2 rows | violated: see Findings |

### The parts' instances

| part | instance |
|---|---|
| affinity (`WorkLedger`) | 1 job, 2 models, 2 contexts, 2 requests, no plans |
| routes | 3 jobs with an attempt each, a baseline and one other route, a budget of 4, a rate of 20 % and a cap of 2, reconfigured once, 2 months, 1 batch of profiles at a time |
| budgets | a portfolio and a use case in it, 1 plan written twice in any of 3 texts, 2 attempts, a clock to 3 |
| receipts | 2 jobs of two repositories, 3 attempts, pages of 1, 2 months |
| collection | 3 collections for 1 slot, 2 pages, 1 retry, a deadline of 2, 3 digits on either side of the point |
| audit | 2 writers, 3 events of both versions, 2 epochs, 1 retained checkpoint, a backup |
| tables | 20 families of tables, 2 rows stored, every third one tried |
| upgrade | programs of the schemas 13, 16 and 20 on files of no ledger and of the schemas 10, 14 and 16; 2 entries |
| usage | answers of 3 protocols with up to 3 usage events, counts to 9 stored and to 10 sent |
| accounts | 1 organization, 1 binding, 1 source, 2 transports, 1 attempt, 5 commits |
| policy | 2 employees, 2 requests, documents with each level in turn set, alternates that cost as much or twice |
| lifetime | 2 gateways, 1 exchange |
| anchors | 2 organizations, 3 keys, 1 envelope, 2 faults |
| benchmark | 2 routes, 2 cases, 2 benchmarks, 2 restarts |
| cache | 2 jobs, 3 requests, 2 entries, 3 bytes |
| profiles | 2 keys of two cohorts, room for one |
| probe | 4 requests in 2 conversations, 2 plans of 3 requests |
| history | 3 captures, room for 2 entries and 3 bytes |
| native | 4 requests of 2 bindings, 3 slots, memory for 1 answer |
| bridge | 2 requests, 2 timeouts |
| assets | 2 commands, a runtime and a model of 2 parts each |
| owner | 2 router homes, one of them connected twice, 2 chat commands, 1 `off`, a bridge for one home |
| observer | 3 protocols, 4 events |
| setup | 3 setups, 2 credentials, 3 entries searched in place of 256 |

Why the bounds are enough to meet the hazards. Two generations are what a late host and a newer connection
need; a third would repeat the second. Three attempts allow a failover and a competitor for the same
limit, and a second failover if one were possible. Two months let a hold taken in one be charged in
the other. In `work_ledger` the CONSTRAINT `Apart` explores plans (over both months), conversations and corrections (in one) apart from each other: the
properties relate a plan to charges and a conversation to its job, and the corrections' own question is `AffinityIsSound`. Two requests of a job are an answer and a late one. Two entries and three bytes make both limits of
the cache bind. One version forces the forgetting that 512 make rare.
A plan of three requests is a first input, a continuation, and a continuation of that one; a fourth request makes the
limit bind. Two entries of two bytes do not fit into three, so a late capture must make room by size and by number.
A third collection finds the only slot taken twice, and a retry of the first ends past the deadline of the second.
Three events of which one is lost by a restore leave a predecessor, the checkpoint and what took its place. A third row meets two
stored rows on different keys. The program of schema 13 must refuse what 16 and 20 have made, and each of the six rebuilds of the entries' table
lies above one of the starting points and below another program's schema. Three jobs are one with evidence on each route and one that
is chosen for, on profiles that were read before others ended. A page of one attempt makes every admission fall between two pages. Four events are the shortest complete answer of the
longest protocol's grammar and one event too many for the others. Two timeouts are one that is answered later and one in the rebinding itself. A third setup finds what two
that were cut off have left. Three entries are the file, its staging name and one that stands before it. What is proved holds beyond all these bounds.

`CHECK_DEADLOCK FALSE` is set for the profile runs, where after `close`, with its bounded evidence, the
system stops by design, and for the sums and `evidence_rewritten`, whose requests, commands, collections and rows all end.
The mutants show that the hazards are met: each property is broken by a plausible
mistake in the code within the same bounds, a conjunction in most cases by one for each of its parts.

### Fairness

`ProcessFairness`: a host or guardian process that is alive is scheduled; nothing is owed by commands or by the
user, and a kill needs no fairness. `FairSpec` of `GatewayRequest`: a local request makes progress,
which the code enforces with `local_request_deadline` and the timeouts of the transport; other requests owe
nothing. `WorkerFairness`: the refresh thread of a live process is scheduled; handlers
may stop anywhere. No other module states fairness: its properties are safety, and every behaviour may stop anywhere.

### Findings

* `disconnected_not_stopped`: a connect that recovers an interrupted setup probes the lease, restores
  the configuration and records `disconnected` without recording `disconnecting` first. A host of
  that setup which takes the lease after the probe passes all its readings of the (still `prepared`)
  journal and goes on to serve. The documentation promises that `disconnected` and `stopped` require completed cleanup.
* `profile_refresh_forgotten`: a snapshot whose version was forgotten (beyond 512 keys) survives evidence of
  its cohort recorded under another key, until it is 30 seconds old. The comment at
  `work_runtime.py:1229` says comparable snapshots are retired first.
* `evidence_rewritten`: the no-replace triggers of plan versions, activations and budget audit events
  (`_budget_schema.py:553`) look for a stored row with the same primary key alone. `INSERT OR REPLACE` with
  another primary key and the same digest, generation or sequence deletes the stored row, for which no
  DELETE trigger fires. The docstring (`_budget_schema.py:4`) says that runtime code cannot rewrite these rows, and the
  other evidence tables guard every declared key. No statement in `src/` replaces a row of them: the guarantee
  of the schema is weaker than it says, and no behaviour of the gateway shows it.

### Observations

What the models make visible without contradicting a line of the repository:

* `_write` compares the configuration and then replaces it in two system calls, so an edit between the two is
  overwritten. The history variable `lost` records it, and `UserChoiceKept` excludes exactly that case.
* Audit chain: two restores that each lose the entry a later epoch continues from leave a database that never verifies again, since
  verification takes one checkpoint; and so does an epoch begun over entries that took the place of the checkpoint's own.
  `HistoryVerifies` leaves both cases out by name. Verification does not read the source rows of associations, custody
  and Linear snapshot retention.
* App bridge: a second turn that arrives while the first is being prepared can rebind a chat that is not
  idle, since the check at `codex_app_bridge.py:246` comes before the turn is marked as busy; `RebindsIdleChats` states
  what an idle check would give and is broken by it. A resume that times out leaves the record on the old provider, and a call that raises
  leaves it busy.
* Chat owner: a chat command that was overtaken writes its old generation into the record, after which a plain `off`
  refuses with `generation_mismatch`, though `docs/KOTO_CHAT.md:68` says it discovers the owner. An `off` that overlaps an installation can leave the launch
  setting at the bridge. A second installation from another directory saves the first bridge as the previous setting.
* Receipts: `record_timing` overwrites the latency of a settled attempt, so that an identical retry of the settlement with
  another latency can conflict.

## 4. What is proved

For any sets and bounds that satisfy the named assumptions (`MaxGenAssumption`, `IdsAssumption`,
`AmountsAssumption`, ...; TLC evaluates them in every run):

* `ConnectedClientProofs`. `IInv == TypeOK /\ Control /\ OneHolder /\ Current /\ Cleaned /\ Ownership`.
  The properties alone are not inductive: that two runtimes never overlap needs that whoever is past
  `HostLock` holds the lease, that a clean disconnect stays clean needs that no host of another generation
  has passed its second reading, and that nothing owned is left needs what a command in the middle of an
  installation or a restoration has compared with (`Control`, `Ownership`). From it: `Typing`,
  `OneRuntimeHolds`, `RouterIsCurrentHolds`, `CleanDisconnectHolds`, `NothingOwnedLeftHolds`, and from these the two
  conjunctions that the run checks, `RuntimeIsSoundHolds` and `DisconnectIsCleanHolds`.
  `UserChoiceKeptHolds` adds `Choices`: as long as no edit was lost, each key has the user's choice or our value with that choice
  in the journal (`Traced`), and what a command is about to replace is what it compared with.
  `SetupIsSoundHolds` (`SetupInv`): one set-up at most is between its lock and its end (`OneSetup`), while nobody intervened the
  configuration is the text of some set-up (`ConfigurationIsOurs`) and what a set-up has found is still there (`FoundIsThere`), so that a
  set-up is refused only for another's configuration or for a directory too full to be searched (`ResultIsOurs`).
  `OwnerIsSoundHolds` (`OwnerInv`): the lock of the record has one holder, so that what an `off` has read is the record until it
  ends (`ReadIsTheRecord`); a writer of another home has seen the home before it disconnected, and generations only grow
  (`WriterIsAlone`, `LiveShrinks`); what an `off` calls stopped stays so (`StoppedIsStopped`); a bridge in the home of the owner is
  disconnected at the generation read (`TargetIsTheBridge`); what is saved is not the bridge's setting (`SavedIsTheUsers`); and while a restoration
  has compared and not written yet, what the user sets is what `LaunchIsTheUsers` sets aside (`LateIsApart`).
* `AttemptLedgerProofs`. `LedgerTyping`, `HoldIffOpenHolds`, then `OutcomeIsFinalHolds` and
  `FailoverAfterSettledHolds`, together `LedgerIsSoundHolds`; and `LedgerImplementsHolds`: initial states map to initial states, and
  every transaction maps to a step of `BudgetHolds` or a stutter. `WithinLimitsHolds`: `WithinLimits` is not inductive, since a row that stands alone and has
  lapsed counts again when it is refreshed; `LimitInv` counts lapsed rows in (`HeldWithinLimits`) and says that a row is recorded once and
  charged in the month of its settlement (`Bookkeeping`). A settlement moves a term from the holds to the charges, a sweep drops
  one, an insertion adds what its guard left room for.
* `GatewayRequestProofs`. `IInv == TypeOK /\ HoldIffOpen /\ Owned /\ Apart /\ CostIsCovered`: an attempt
  that some handler still owes an outcome to is open (`Owned`), and no two handlers hold the same one
  (`Apart`); for the failover also `Replacing`: what a handler is about to replace replaced nothing and was settled at no cost. From it: `GatewayTyping`, `UsesLedgerHolds`,
  `EgressIsHeldHolds`, `CostIsCoveredHolds`, `EgressIsCoveredHolds`, `FailoverOnceAndFreeHolds`, `LeaseIsExclusiveHolds`; and, as
  every behaviour of the handlers is one of the ledger (`UsesLedgerHolds`), `GatewayWithinLimits`. That the slot is exclusive and that
  the handlers use the ledger by its transactions follows closely from the shape of the handlers, so no run spends time on it.
* `WorkLedgerProofs`. `WorkLedgerTyping`; `BudgetIsSoundHolds`, from `LedgerInv`: each request that is taken has a row and each row is of one that is taken
  (`Listed`), a row that ended has its cost (`SoundRows`), and both the budget and what a scope exposes, a sum over its rows, are under its
  ceiling (`MoneyKept`); the exposure of a scope grows by an admitted reservation only. The two action properties in `BudgetIsSound`
  follow from the same invariant. `AffinityIsSoundHolds`, from `AffinityInv`: no row is of a generation that its job
  has not reached (`Aged`), so that a generation that begins has no answer yet.
  `WorkBudgetsAreSoundHolds` (`BudgetsInv`): versions and activations are only added to, and an activation is committed no earlier than any
  time that was read (`Grew`), so an admission stays explained by what it was explained by (`Explained`); a window's exposure, a sum
  over its bindings, grows by an admission only, which the plan in force had room for, and the largest amount of a window never shrinks.
  `ReceiptsAreSoundHolds` (`ReceiptInv`): a plan's three sums are one sum of the rows' charges (`ChargeIs`, `SumsAdd`), and the places of
  the only repository are those of the workspace; a row that is final is confirmed, and charged what was confirmed (`FinalRowStays`); what
  was due to a reader is the listing of its job's attempts up to some place, and what it has read is the first part of it (`HasRead`): the
  attempts before the last one read are listed as the rest is (`RestIsListed`), so a page continues it (`PageContinues`).
  `RoutesAreSoundHolds` (`RoutesInv`): an admitted job stays admitted in its month (`AdmittedOf` only grows), and an allocation is made only
  where the share and the cap have room for one more (`ShareAllows`, which needs the rate to be at most 20, `AllowanceHasRoom`); the rows that
  profiles were made of stand, whenever they were read (`RowsAreRead`, `RowsStand`); what a profile counts ran on the route alone (`SamplesRanThere`), and if none of it was completed a route that is not worse than the baseline
  has a baseline with a sample that was not (`QualifiedHasEvidence`).
* `GatewayPartsProofs`.
  `BoundWasCurrentHolds`: no two registrations of a reference have the same version, and none has one above their number
  (`Numbered`), so that the latest version is the one registered last.
  `FinanceEvidenceIsSoundHolds` (`FinanceEvidenceInv`): what the native evidence knows of a counter is what was charged for it
  (`ChargesAgree`), after any reports in any order; output was seen only if it is known or is more than any count of the evidence
  (`OutputIsKnown`), so that an attempt that succeeds has it or stays pending; what is estimated fits the row, but for the count of reasoning, which
  no estimate reads; what a sweep stores always does; and normalization changes no counter (`NormalizedKeeps`). No property of the sums and rates is needed.
  `OwnEvidenceIsCurrentHolds`: a rebuild that is to be saved lacks announced evidence only if the version it was begun under is
  no longer the key's (`RebuildIsCurrent`), which a save finds out; versions are never issued twice (`Versioned`).
  `CacheIsSoundHolds` (`CacheInv`): an entry, a hit and an answer that is being stored have the generation that their request was
  prepared in (`Sourced`, `Hits`, `Stored`), and a retired answer has an eviction still to come. That the counter is the sum of the
  entries' sizes rests on `SubsequenceIs` and `SumOfSubsequence`.
  `PolicyIsSoundHolds`: what was decided is allowed by every level (`Decided`, from: overlaying a policy narrows it, level by
  level), and for every set of employees with a limit over it, spending and holds fit (`EveryLimit`): a reservation, the first one or the
  alternate's, is made where all scopes fit it (`Reserves`), a failover and a settlement add nothing to what is held and spent together.
  `LifetimeIsSoundHolds` (`LifetimeInv`): from the step that takes it to the end, a process is the one owner of the ledger, and handlers
  run only while their process serves or joins them (`OwnerRuns`), so that opening the ledger, which marks what is
  pending unknown, meets no living handler.
  `UpgradeIsSoundHolds` (`UpgradeInv`): what is committed is a file of one version, with everything the migrations up to it ask for
  (`IsOfVersion`, `Reaches`: a rebuild puts back the triggers of all versions before its own, `RebuildPutsBack`); an opener knows a version
  the file has had, and its transaction opens only if that is still the file's, as the row it inserts first is there otherwise
  (`KnowsFile`); so at its commit it holds the entries there are.
  `BenchmarkIsSoundHolds` (`BenchmarkInv`): rows are bound as they are appended (`RowsAreBound`), since a row is complete only if the
  router's process and the route's facts were at its end those that the run was bound to; a stored scorecard is a report that ended
  (`FilesAre`), so what is preferred by it was measured.
* `AuditChainProofs`. `AuditIsSoundHolds`. `Chained(tables)`, of the committed tables and of the backup: the entries of an epoch are
  numbered from one without a gap, each with the digest of the one before, an epoch continues from a checkpoint of the epoch before
  it, every source event has one entry, anchors mark entries that are there; and what the open transaction of the one writer that holds
  the lock has done so far (`HasDone`). The property itself sets aside the forked epochs that verification refuses. That a rollback is noticed is an induction back along the digests that a digest binds (`BoundWithin`).
  `AnchorsAreSoundHolds`: whatever was done to the bytes, the digest of an entry that verifies is the list of the events up to
  it (`DigestBinds`, an induction along the entries), and the receipt's is that of the export (`ExportInv`); every envelope, stored or on
  its way from a rewrap, opens with the key it names (`RotationInv`), so a key none names can go.
  `EvidenceIsSoundHolds`: where a table has a guard for every key (`AppendOnly`), a row that is not refused meets no other on a key
  (`NotRefused`), nor one of the table it shares an identity with. The declared tables have it (`TablesAreAppendOnly`), but for
  `PlanVersions`, `PlanActivations` and `BudgetAuditEvents`, which `EvidenceTablesRewritten` is about.
* `DevicePartsProofs`.
  `WithdrawnIsNotStoredHolds` (`GInv`): generations only grow (`GenerationsGrow`), what was withdrawn holds an older one
  (`WithdrawnIsOld`), and an entry is stored at the end of its capture (`StoredIsDone`). With the sum and the number of what is stored, `HistoryIsSoundHolds`.
  `OneAttemptHolds` (`LInv`): the leases are those of the attempts, and no two attempts have the same. With the
  counters as cardinalities, and what the memory of answers holds, `NativeIsSoundHolds`.
  `PlanIsKeptHolds` (`ProbeInv`): the claims of the plan in place are as many as its count and numbered within it, all of one thread, and the last
  input continues all others; claims of plans that were replaced keep their numbers and their inputs.
  `AcquisitionIsSoundHolds` (`AcquisitionInv`): the lock of the generation, which a command shares with its worker, has one holder
  (`OneActs`); whoever holds it finds what the stages before its own published, and a living worker writes to no published file
  (`Placed`); a receipt vouches for all of it (`Tables`); and unless a publication was cut off, private names, second names and a
  directory without its catalog are those of the command that is just publishing (`Untorn`), so that no later command refuses them.
  `ObserverIsSoundHolds` (`ObserverInv`): after every prefix of an answer, the phase the work observer has reached is the shape of
  what was sent (`ReadsResponses`, `ReadsChats`, `ReadsMessages`, each an equivalence, so that what it has rejected can no longer become
  complete); the native observer listens while every closed event was acceptable and none its end, and otherwise has succeeded or
  refused the event that ended it (`NativeKeeps`).
  `BridgeIsSoundHolds` (`BridgeInv`): a call under way is one that its task waits for or has given up, one of a task at most
  (`CallsInFlight`), and an answer on its way stands before what the engine says of the turn; the engine's writes are
  compared with the answers to them that are read and on their way (`SavesInOrder`), so that the last one told of is the last one applied;
  a waiting write of the effort carries the model in effect until another goes by it (`CarriesIt`), and what is in effect and on file is what the
  last of these writes carried (`SelectionIsKept`); and
  while no call is given up and one turn is under way at a time, a turn that goes out fits the last record, and the record the engine
  (`ProvidersAgree`).
* `DataTheorems`. Sums over finite sets (`SumIsNat`, `SumElement`, `SumAdded`, `SumIsMonotone`, `SumsAreEqual`, `SumOfParts`,
  `SumRenamed`, `SumsAdd`), the elements and the length of a subsequence (`SubsequenceIs`), and `SumOfSubsequence`. The library's induction
  theorems cannot be used, so induction over finite sets is proved here in a form with a SET of sets in the place of a predicate
  (`FiniteSubsetInduction`, `NaturalsBySets`); the sum of the community modules is unfolded to its recursive function first.

To be within reach of a proof, the models take subsequences with `SubsequenceAt` (not `SelectSeq`, which is RECURSIVE), sums with
`SumFunctionOnSet` (not `MapThenSumSet` with a LAMBDA), write a table with one row more as `Inserted` (not with `@@`), and a record that changes in several fields in full (not with `EXCEPT`). The
assumptions on constants beyond types: a null value is no row and no name (`NoneAssumption`, `RowAssumption`, `SettingsAssumption`),
sets that are summed or counted over are finite (a process has finitely many requests), quotes are no less than zero, what is sent as a usage object is one (`ReportsAssumption`; its absence and
other values are choices of the model), a conversation's inputs are sequences, and
a policy document has the shape that its validation enforces (`PolicyAssumption`: `config.py` and `policy_document.py` refuse a
negative limit, and one that names no route). Every one is evaluated by TLC in the runs.

Only model-checked, and why:

* Everything temporal under fairness, and what is stated with it (`RefreshIsSound`): out of reach.
* The type invariants `PartsTypeOK` of the sums of parts, which are a CASE over the parts; those of the parts proved about are part of
  their inductive invariants.
* `FinanceCollection` declares a RECURSIVE operator, in a module that only TLC uses.

## 5. Not modelled, and the plan

`PROJECT.json` says of every component what is left out. The components without a model, and why:

* Shadow routing and model qualification: reports with no authority over a route and no state another part reads.
* Outcome, association and portfolio evidence: validation of documents, with no state of their own beyond append-only
  tables of the kind `EvidenceTables` describes.
* Configuration and contracts: parsing into frozen values, which are the CONSTANTS of the models.
* Compaction, redaction and translation: pure functions of text, whose correctness is about characters.
* Transport, credentials and destinations: I/O and registries that do not change.
* The command line: its commands call the operations modelled elsewhere.

What comes next, in order:

1. Compositions: `WorkRoutes` and `WorkLedger` share the attempts of a job, which each has of its own; `GatewayRequest`
   with `WorkBudgets` inside the attempt transaction.
2. The rest of partly modelled components: the candidate order and the health cache of route admission, the catalog
   and the credentials of the native path, the other requests of the app bridge, the lifecycle projection of custody.

Out of scope: byte formats (streams, JSON, TOML, ciphertext), pure I/O, and generated schemas.
