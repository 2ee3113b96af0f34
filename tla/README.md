# TLA+ verification of Crypto-Multifactor-Bot

The repository is a research and trading system: it retrieves market data,
keeps it in a content-addressed raw store, publishes immutable datasets with
lineage, binds hypotheses to evidence, promotes model artifacts through a state
machine, and runs them on a paper or a live broker. Nearly everything is a
Python process that shares one SQLite catalog (WAL mode) and one directory tree
with other such processes; the larger acquisitions add threads, leases in a
database of their own and two providers that are never trusted alone. There are
no servers and no locks beyond SQLite's write lock, `flock` leases, in-process
locks and atomic file-system calls, so the correctness of the whole rests on
protocols between processes that may die at any point.

The modules below model those protocols. Paths in this file are relative to the
repository's root.

## Inventory

| part | state it keeps | operations | what is hard | what makes it correct |
| --- | --- | --- | --- | --- |
| raw store `src/cryptofactors/ingest/raw` | temp files with flock leases, object files, `raw_object`, `raw_acquisition` | write_stream, retry_catalog_registration, reconcile_orphan_temps | crash between link and commit, same acquisition id twice, probe against lease, busy catalog, power loss | rows name published objects; one immutable verdict per acquisition; nothing overwritten; temps removed, never in use |
| dataset store `src/cryptofactors/catalog/dataset` | dataset directories, `dataset` and lineage rows | publish, retry, quarantine, resolve_latest | concurrent identical publishers, crash around the rename, supersession, quarantine against re-publication | a row names a complete tree; a tree is never replaced; quarantine is final and all-or-nothing |
| promotion `src/cryptofactors/promotion` | append-only `model_promotion_record` | register_candidate, transition_state, get_active_promoted_artifact | check then append over two connections | transitions follow the matrix and the gates; terminal states are final |
| live broker `execution/live.py` | open orders and kill switch, in memory | submit, cancel, status, kill switch, revocation check | registry changes mid-call, lost venue answers, restart | no order without approval, none after the kill, no live order forgotten but those whose answer, process or id was lost |
| migrations `catalog/runner.py` | `schema_migration`, the schema | apply_migrations | two processes and several checkouts starting together | every migration once, in order, of one directory |
| evidence registry `evidence/` | hypotheses, evidence, links, snapshots, decisions | register, link, build_snapshot, append_decision, seed_import | caller-supplied times, late links, read before the transaction | decisions rest on what was linked; append-only |
| reference store `reference/store.py`, readers in `catalog/as_of.py` | versioned instruments, fees, aliases, ambiguity queue | add, supersede, resolve, as_of | two times per row, corrections in any order, a question asked before a correction | one answer per question, and a stable history |
| harmonic acquisition `acquisition/binance_usdm_harmonic_acquisition.py` | charges and their ledger, completions, content store, run rows, receipts, locators, seals, head; a work queue and a call queue in memory | run_acquire, reserve, mark, complete, release, reconcile, finish, publish, recover | calls that time out or race the coordinator's stop, crash between file and row, threads that outlive their run, bounded queues | the ledger balances below the ceiling; recovery leaves no debt; sealed runs cover every fact once; a run ends |
| harmonic qualification `acquisition/binance_usdm_harmonic_qualification.py` | plan lock, byte ledger, evidence rows, retained bytes; migration and correction receipts | run, recover, reconcile, migrate to version 4, correct the source | a death between any two replaced files, code that changes between runs, overruns and aliases at the budget's end | transferred bytes are covered, below the ceiling; lineage exact; a store is never stranded |
| pair-event engine `acquisition/uniswap_v2_pair_events_v2*.py` | plan, nodes with leases and attempts, candidates, headers, backlog, receipts | plan birth, resume, claim, heartbeat, split, commit, terminalize, finalize | workers of several processes, lapsing leases, evidence dropped between check and use | the domains in force partition the plan; one verdict per domain; the holder of a live lease moves its node |
| provider-capacity matrix `..._v2_matrix.py` | byte budget, gates, stop event; run directory with receipts, bodies, one terminal | run, attempt, stop, seal, select, replay | reservations of threads, late writers, safety stops, a full gate | within the byte budget; what COMPLETE seals authenticates; the selection rests on the attempts; a run ends |
| pair-event ingest `uniswap_v2_pair_events.py`, `..._orchestrator.py` | chunk receipts; a header cache per process | plan, coverage, run, fetch, resume, replay | pilots beside the production plan, sources that disagree or lag, a replaced block between two calls | what was reported done replays, to the chain's logs |
| factory ingest `acquisition/uniswap_v2.py` | chunk receipts | fetch, resume, replay | one source, a replaced block between two calls | receipts replay |
| paper trading `execution/paper*.py`, `risk_limits.py` | broker positions and cash, snapshot and trade tables | rebalance, run_loop, save, load | two transactions per step, crash and resume, partial fills | cash and positions agree with the recorded trades |
| DEX retrieval `ingest/dex_fanout.py` | token buckets, watermark file | screen, fetch, merge, advance | failed requests behind a watermark | no record fetched twice |
| source audit `src/source_audit` | temporary downloads | atomic_download, paginate | repeated cursors, body larger than listed | complete files only; termination |
| validation `validation/` | none | splits, labels | off-by-one at purge and embargo | no overlap of train and test information |

The remaining parts (normalizers, factors, portfolio simulation, experiments,
universe builders, profiler, serving, storage sizing) are straight-line
transformations of data frames and documents; `PROJECT.json` lists them with the
reason they are left out.

Parts meet in few places. The dataset store's lineage names `raw_object` rows
and other datasets; the live and paper brokers ask the promotion registry, which
is why `LiveBroker` extends `PromotionRegistry`; the quarantine works on the
dataset store's rows and trees, and both are in `DatasetStore`; retrievers write
through the raw store; everybody opens the catalog after the migration runner.
The three Uniswap programs follow one another: the matrix selects the cohort
size, the engine's plan is made with it, and the ingest is the engine's
predecessor for single pools. They share no state.

## Modules

### Raw store
* `ContentLedger.tla`: what the store promises its callers. Published contents
  only grow; an acquisition id gets at most one verdict; SUCCEEDED only for a
  published content.
* `RawStore.tla`: the code. One action per file-system call, lock operation or
  SQL statement at which another process or a crash can intervene. `pc[w]` is
  the point reached in `write_stream`, with `publication[w]` standing for its
  local flags `published` and `reused`; `rpc[r]` is the point in
  `reconcile_orphan_temps` for one directory entry. `Ledger` is the refinement
  mapping. A content stands for bytes and digest; provider checksums are folded
  into `StreamFails`.
  `txn[w]` follows what SQLite does to a connection whose INSERT is refused:
  Python's sqlite3 has already opened a transaction, which stays open, pins a
  snapshot at the next SELECT and is refused every write once somebody commits.
* `RawStore_proofs.tla`, `MCRawStore.tla`: theorems and instances.

### Dataset store and quarantine
* `DatasetLedger.tla`: what the store promises. Trees are published, then
  registered once, after their inputs and predecessor; a successor retires its
  predecessor in the step that registers it; a quarantine rejects all targets in
  one step, for good.
* `DatasetStore.tla`: publishers and quarantiners over one tree and one catalog.
  `tree[d]` is the final directory: absent, `reserved` (no manifest), `exposed`
  (renamed, parents not fsynced), `synced`, or `torn` by a power loss. `pc[p]` is
  the point reached in `publish` and `register_from_receipt`; `target` and
  `reused` are its locals. The stage directory is private to its publisher and is
  left out. The catalog's checks (`LookupDataset`, `ValidateSupersession`) are
  steps of their own because the code makes them before its transaction, whose
  first INSERT (`BeginInsert`) takes the write lock. `qpc[q]` and `swapped[q]`
  are the quarantine's open transaction. A call reads or commits its row and returns
  in a later step (`ReturnResult`); `doomed[p]` remembers that its dataset was
  rejected when it began. Dataset ids digest content, lineage,
  predecessor and declared quality, so these are functions of the id; declared
  quality is PASS, as it is for every target.
* `DatasetStore_proofs.tla`, `MCDatasetStore.tla`.

### Promotion and live trading
* `PromotionLifecycle.tla`: values only. The transition matrix, the gates, and one
  event that follows them (`Advance`), which the registry is compared with.
* `PromotionRegistry.tla`: the event table. A call is read state, stamp
  `event_at`, insert, each separable, because the code reads over one connection
  and inserts over another. The reported state is the row latest by
  `(event_at, rowid)`. The wall clock runs on or is set back (`Tick`). `raced[o]`
  remembers that another call's event entered the log since this call read it,
  `turned` that the clock was once set back.
* `LiveBroker.tla`: extends the registry (operators act underneath) with
  brokers. A gate check is two queries (`QueryState`, `QueryEvent`) entered from
  construction, `submit_order` or the revocation check. The venue numbers the
  orders it accepts (`placed`) and may lose an answer (`SendRaises`); nothing keeps
  a caller from submitting one order id twice, as `submit_order` asks nothing of it,
  and the second answer overwrites the first in `open`. A restart (`deaths`) leaves
  the orders at the venue and forgets them here.
* `LiveBroker_proofs.tla` (theorems about the registry and the broker above it),
  `MCLiveBroker.tla`.

### Harmonic acquisition
* `ChargeLedger.tla`: what the Coinalyze budget promises: pay before completing,
  refund unfinished payments only, never above the ceiling.
* `HarmonicCharges.tla`: the code that keeps it. `step[w]` is the next call or
  file operation of a worker in `acquire_coinalyze_liquidation`, `call[w]` its
  call to the coordinator, which looks at `_closed`, queues, is served or fails,
  or times out and leaves the request queued behind its back. `rec` is the call
  `reconcile_open_charges` is in. A charge stands for the newest generation of
  its request with its latest transition; a content stands for digest and size.
  The branch of the reconciliation that finds a completion for an open charge is
  left out because it is never taken, which `SettledIsCompleted` shows.
* `ReceiptChain.tla`: what the receipts promise: each sealed run covers exactly
  the facts since the run sealed before it.
* `HarmonicRuns.tla`: one process at a time (`main` is where its main thread is)
  recovers, begins a run, feeds rows through the bounded `work` queue to worker
  threads, counts, finishes the run and publishes its receipt, locator, seal and
  head one durable effect at a time. Facts are counted in two kinds, because the
  code compares one of them, the attempts, with what the workers counted. The
  charges' content is the other module's business; the two share
  `run_acquire` only through the facts they record.
* `Harmonic_proofs.tla` (theorems about both and about the qualification),
  `MCHarmonicRuns.tla`. `MCHarmonic.tla` explores the charges or the qualification,
  whichever `part` names: they share no state.

### Catalog
* `SchemaRunner.tla`: `apply_migrations` by several processes over several
  checkouts. What was applied is read before the transaction (`read`), so a
  runner may find its next migration committed by another; the history row's
  primary key is the filename.
* `EvidenceRegistry.tla`: hypothesis versions, evidence, links, snapshots,
  decisions and the seed import, every time given by the caller.
  `build_snapshot` is two steps, since its links are read before its
  transaction begins.
* `Bitemporal.tla`: rows with a valid and a knowledge window, their overlap,
  their correction, and what the two readers make of them.
  `ReferenceStore.tla`: instrument versions, fee schedules and aliases built
  from it, and the questions about an ambiguous alias, which a person resolves
  long after they were asked.
* `Catalog.tla` composes the three on one database. They share no table, so
  their steps commute, and a behaviour is explored for one `part` at a time.
* `Catalog_proofs.tla`, `MCCatalog.tla`.

### Harmonic qualification
* `QualLedger.tla`: values only. What a plan selects, what a byte ledger
  reserves and charges, what an executing version-4 ledger may contain.
* `Qualification.tla`: the store's files (`lock`, `legacy`, `amend`, `rows`,
  `objects`, `sidecars`, `kept`), the source that executes, and one process that
  recovers, reconciles, plans, downloads, migrates or corrects. Each file that
  is replaced is an action of its own, with a death or a new source in between.
  Entries are downloaded in any order, an alias after its entry; the greedy
  selection is any maximal one; one reviewed migration and one reviewed
  correction are pinned.
  `wire` remembers, for each ledger, of which objects bytes crossed the network, and
  of which a completed download found the object published.
* The theorems are in `Harmonic_proofs.tla`, the instance in `MCHarmonic.tla`.

### Pair-event engine
* `PairPlan.tla`: the pure part of `uniswap_v2_pair_events_v2.py`: root windows
  and cohorts, splits, required blocks, the streaming coverage proof.
* `PairLedger.tla`: what a plan promises: the domains in force partition it, a
  domain is replaced by partitions of itself only, a verdict is final.
* `PairEngine.tla`: the engine on SQLite. A worker is a node slot of a process,
  a steward the main thread of `run_until_idle`; an action is one committed
  transaction or one read outside one, and the network stands in between. A
  lease token is its worker, since a worker holds one claim at a time. Failing
  heartbeats are not counted one by one: `Resolve` is possible whenever a worker
  is about to settle. `Stamp` is part of `Authenticate`, with which it commutes;
  an empty resume page is not a step.
* `PairEngine_proofs.tla`, `MCPairEngine.tla`.

### Uniswap matrix and event ingest
* `MatrixEvidence.tla`: values only. The catalog of logical calls, what an
  attempt retains, cells, selection, inventory and replay.
* `MatrixRun.tla`: one live run: the main thread, a worker for each call, the
  budget tracker, the gates, stop and wall, the run directory and its terminal
  manifest. A run is never resumed. Equal bodies share a file in the code and
  are kept for each attempt here; the output lock, the credential scanner and a
  replay's own directory are left out.
* `EventIngest.tla`: the orchestrator's plan, coverage and runs, and
  `fetch` chunk by chunk: resume, logs of both sources, end block, headers,
  receipt; then the offline replay. Each source has a view of the chain of its
  own, so the two requests of one step can be made at once without losing a
  case. Token decimals, disagreement records and the raw bytes behind a receipt
  are left out.
* `MCUniswap.tla` runs either program: they share no state, and `part` says
  which one a behaviour is about.
* `Sums.tla`: lemmas about sums over finite sets (`MapThenSumSet`), for the byte
  budgets of the matrix and of the qualification. `Uniswap_proofs.tla`: theorems about the matrix and
  the ingest.

## Runs

| run | question | bounds |
| --- | --- | --- |
| `raw_safety` | acknowledged rows are present; refinement of the ledger, so no overwrite and no row ahead of the store | 2 writers, 2 contents, 2 ids, 3 calls, 1 crash: enough for a loser of each race to retry after a crash |
| `raw_faults` | a leased temp keeps its name, created objects survive a power loss, calls end, orphans go away | 2 writers on one content, 1 temp name at a time, 1 reconciler, 3 calls, 1 crash or loss at any point; `min_age_seconds` longer than the gap between `mkstemp` and `flock` |
| `dataset_safety` | rows name complete trees with their lineage; refinement of the ledger, where trees are immutable and a quarantine is atomic and final; every call ends, with or without a directory nobody completes | 2 publishers, 1 quarantiner, 3 datasets (one supersedes another and was built from the third), 4 calls, 1 crash: enough to publish both targets, reject them, and then republish one or register its successor |
| `broker_safety` | an event follows the lifecycle unless another one came between its read and its insert or the clock went back; live approvals were authorised; orders were approved at a moment of their own call; no live order is unknown but those whose answer, process or id was lost | registry: 2 racing operators, 4 events of one artifact, 2 clock values in any order; broker: operators that take turns under a resting clock, 1 broker, 2 order ids, 3 accepted orders, 1 restart: enough to approve, trade, submit an id again, suspend, restart and approve again |
| `promo_race` (violation) | what is terminal stays terminal | the registry of `broker_safety` |
| `catalog` | the schema is a prefix of one checkout's migrations, decisions stand, every question has one answer, resolutions name what was offered, history is stable | 2 runners over 3 checkouts, one with an edited file; 2 versions of a hypothesis, 2 pieces of evidence of which one is literature, 2 decisions and clocks; 3 rows with 3 instants and an open end: enough for a correction of a row and a third row against both |
| `harmonic_bytes` | charges: marked content is backed, recovery leaves no debt, refinement of the budget (the books balance, below the ceiling); qualification: bytes that crossed the network are covered, below the ceiling, the lineage stays exact, a death strands nothing | charges: 2 workers, 2 requests, 2 contents of which one takes the whole ceiling, 2 runs, a crash at any point: enough for both workers to read one allowance, for one content behind two requests, and for a run to reconcile another; qualification: 3 keys (recoverable; larger than listed and planned twice; with rows that do not validate), budget and allowance of two bodies, 1 death, 2 later sources: enough for the migration and the correction, or for the migration and a source nobody reviewed |
| `runs_chain` | seals rest on evidence, one run at stake, refusals are due, refinement of the chain, processes end | 2 workers, 2 rows, work queue of 1, 3 processes, 2 facts, a crash at any point: enough for a straggler, an interrupted publication and a session that must refuse |
| `pair_race` | claims, attempts and terminals agree, the domains partition the plan, only a live holder moves a node | 2 workers, 2 blocks that split into one each, 2 attempts, both claim policies, 1 fault, no restart (`MaxGen = 0`): enough for a lapse, a second holder, and the first one's late commit |
| `pair_finalize` | evidence agrees, refinement of the plan ledger, every domain is decided | 1 worker and 1 steward, 2 pools that share a block, 2 attempts, a resume, 1 fault: enough for one candidate to be dropped while another needs its header |
| `pair_drop` (violation) | a resume never deletes a valid candidate | the instance of `pair_finalize` |
| `uniswap` | matrix: budget, seals, selection; ingest: reported jobs replay; both end | matrix: 2 providers with a slot each and every larger-batch limit, 2 nested sizes, 2 attempts, a byte budget that not all calls fit in, 1 fault, counting the wall; ingest: 3 blocks in chunks of 2, 2 kinds, the production plan and pilots of one chunk and of none, the last block replaced at any time, 2 orchestrators, 1 omission, failure or death |

A run asks several questions where they share an instance, to read one model
from several sides. In `catalog`, `harmonic_bytes` and `uniswap` the parts of a composition share
no state, so a behaviour explores one of them and the state spaces add up
instead of multiplying. `broker_safety` does the same with two ways to run one
composition, since nothing a broker does reaches the registry.

Deadlock is not checked: bounded calls, crashes, clocks and events run out, and
a process with nothing to do rightly stops.

Some properties carry a condition the code does not enforce.
`EventsFollowLifecycle` excepts an event that another call's event got in front of,
and lets an event change nothing once the clock was set back; `OthersAreKnown`
excepts lost answers, earlier processes and resubmitted ids; `RejectionIsSeen` is
about calls that begin after the quarantine, as one that commits between the read of
the row and the return is not noticed; `BytesAreCovered` has two holes, a body that
streams again while its object is published and is settled as "no transfer", and
the alias of an entry that an overrun blocked; `SchemaIsAPrefix` is about checkouts
that hold one line of migrations (`OneLine`); `ReportsReplay` about pilots of the
production chunk size and about blocks the chain no longer replaces, for what the
logs say; `NeverStranded` about stores whose retained bytes validate and whose objects are no larger than
listed; `RunEnds` about threads that live. What happens otherwise is under
Findings.

### Fairness
* `raw_faults`: `WF(Write(w))`: a process that runs keeps being scheduled and
  SQLite's busy timeout makes every wait end in success or refusal.
  `WF(Reconcile(r))` and strong fairness of looking at each entry: the reconciler
  is run again and again and a directory scan returns every entry.
  `WF(GrowOld(t))`: time passes.
* `dataset_safety`: `WF(Step(p))` and `WF(QuarantineStep(q))`: a process in a
  call keeps being scheduled; the wait for an incomplete directory has a deadline
  in the code, and so has SQLite's busy wait.
* `runs_chain`: `WF(Main)` and `WF(ThreadStep(w))`: threads of a live process are
  scheduled, and their waits on a lock, a call or a request have timeouts; only
  the waits on the work queue have none, and those are the model's to decide.
* `pair_finalize`: weak fairness of plan birth and of each actor's steps (a live
  process works on) and of `Lapse(d)` (clocks pass `expires_at`). Nobody has to
  start a failed run again, which is why `NodesSettle` allows for one.
* `uniswap`: `WF(Progress)` of the matrix: threads are scheduled and a provider
  answers or is cut off by a timeout; the wall is not obliged to come. For the
  ingest, weak fairness of a run's steps, strong fairness of launching the
  production plan (an operator starts it again after a failure), weak fairness
  of the second source following the first. Each is asked of the program a
  behaviour is about only: the other one rests.

Nothing obliges a caller to call or a process to crash, and the venue and the
operators owe nothing.

## Proofs

For every value of the constants (any number of writers, reconcilers, contents,
ids, artifacts, operators, any clock):

* Raw store: `TypeCorrect`, `CatalogNeverAhead`, `AcksAreKept`,
  `StoreImplementsLedger`. The invariant relates each writer's `pc` to the
  object and rows it counts on: a writer at or past `verify` has an intact
  object, an open transaction with an inserted row holds the write lock, and a
  writer about to return has its row. Acknowledgements alone are not inductive:
  they need what holds before `Return`. `CreatedAcksSurvive`: under power
  losses, a writer past its fsync with `publication = "created"` has a durable
  object.
* Promotion: `RegistryTypes`, `LiveAuthorized`: every row passed its gate, and so
  did every pending request; that a non-empty log has a latest row is an
  invariant of its own (that sequences have maxima would need induction).
  `EventsFollow`, for any number of racing operators: a call that nobody raced still
  stands on the state it validated (`Fresh`), and its row is the latest one, since no
  time in the log or stamped lies ahead of a clock that was never set back (`Past`).
* Dataset store: `TypeCorrect`, `RowsHaveTrees`, `QuarantineAtomic`,
  `QuarantineFinal`, `RejectionsSeen`, `TreesImmutable`, `StoreImplementsLedger`,
  `CreatedAcksSurvive`. The code checks inputs, tree and predecessor outside its
  transaction, so the inductive invariant (`Publishing`) carries each check from
  where it was made to the commit: inputs and trees once seen stay, and under the
  write lock the dataset itself still has no row. `Quarantining` says that an
  open quarantine holds the lock and its targets have rows. Rows then change in
  two actions only, whose effect is stated once (`RegistrationEffect`,
  `QuarantineEffect`). For `RejectionsSeen`: a call that began on a rejected dataset
  finds the row at every check, so it never gets as far as its return.
* Live broker: `BrokerTypes`, `KilledSilent`, `OrdersApproved`, `ChecksKill`,
  `OthersKnown`, from an invariant that relates the point of a call to
  `approved` and `killed`; for `OthersKnown`, what `open` names was accepted by
  the venue under that order id (`Entries`), so an entry is lost only to a status
  query of an order the venue has closed, or to a later answered submission.
* Harmonic charges: `TypeCorrect`, `SettledCompleted`, `NeverAboveCeiling`,
  `ChargesImplementBudget`, `NoDebt`. Charges, ledger and completions change in
  five transactions only, each of which keeps the books and is a step of the
  budget (`Transaction`); the rest of the invariant says that calls, queued
  requests and the reconciliation name planned requests. For `NoDebt` two more
  parts: nobody else calls while an earlier run is reconciled (`Quiet`), and a
  charge behind the cursor is open only while its calls are made (`Visited`).
* Harmonic runs: `RunsTypeCorrect`, `SealedHasEvidence`, `AtMostOneAtStake`,
  `RefusalsDue`, `RunsImplementChain`. Neither the evidence nor the refusals are
  inductive alone: `Sealing` says that runs are sealed in the order they began
  and that the head is at most one seal behind, `Rows` that each starts where
  the one before it ends, `Points` how far the publication is at each point of
  the main thread, and `StartsLeft` that a process begins one run at most. Every
  other step leaves what is published alone and may only record facts
  (`QuietRunsStep`).
* Catalog: `EachFileRunsOnce`, `SchemaIsAlwaysAPrefix`, `DecisionsAlwaysStand`,
  `OneAnswerAlways`, `PinnedWasAlwaysNamed`, `HistoryStaysStable`. For any checkouts
  no file name runs twice and the history says what ran; that the schema is the
  beginning of one checkout is proved under `OneLine`. A runner works from what it read
  before its transaction: `SchemaInv` says that this is a beginning of the history
  and that what precedes its next file is in the history as its own checkout has
  it. `EvidenceInv` says what links, snapshots and decisions rested on when they
  were made, which later links and the seed import must leave in place: a snapshot
  shows recorded links of its time, a decision supersedes an earlier one of its
  version. `TablesInv` says that no two rows of an instrument overlap in both
  times and that overlapping aliases of one scope name one target, which every
  insertion and correction has to re-establish, and `QueueInv` that candidates were
  named by an alias and an answer is one of the candidates.
* Charges, further: `AlwaysBacked`. A reservation is not tied to the worker that
  asked for it once its call timed out, so the invariant follows the requests:
  one holder of a request at a time (`HandedOnce`), one queued reservation of it
  at most (`ReservedOnce`), and no mark is queued or due whose content was not
  published before (`Backing`).
* Raw store, further: `LeaseProtects`, under `~EagerAge`, that is, while the
  minimum age outlasts the gap between `mkstemp` and `flock`. The writer's lock on
  its temp is what the reconciler's check tests, and the reconciler holds the
  lock of what it removes.
* Pair engine: `EngineIsSound`, `ClaimsAlwaysAgree`, `HeadersAlwaysAgree`,
  `StreamDecidesCoverage`, `CoverageAlwaysExact`, `OnlyHoldersMove`,
  `EngineImplementsLedger`. The invariant
  `EngineInv` says what survives between a worker's transactions: before the plan
  is READY there are roots only and nobody works (`RootsFirst`); the domains in
  force are disjoint, none of them contains another domain that ever was, and
  their union is the planned area (`Tiling`), so a split's children are always
  new rows; leases are exclusive; a worker that still holds its lease counts its
  attempts right and its plea still fits when it commits (`ClaimsStand`); what
  was agreed has its evidence (`AgreedIsEvidenced`), and the backlog of blocks
  is exactly what agreed candidates still need (`BacklogIsExact`). The lemmas
  `RootsApart` and `ChildrenCut` say that root windows and the children of a
  split partition their area, for every range and every cohort of addresses,
  and `RootsCover` that the windows and cohorts leave no block of a pool's life out.
  `StreamDecidesCoverage` is about the streaming proof alone: for any set of leaves,
  disjoint or not, its cursor ends complete exactly when every block of the pool's
  life lies in one leaf and no more, so it fails on every gap and every overlap. The
  recursive function behind it is shown to exist (`FeedExists`), and what the cursor
  says of the leaves it was fed is followed leaf by leaf (`CursorFits`: `FreshFits`,
  `UnbornFits`, `AddedFits`); the count of blocks turns out to follow from the two
  flags and the end. `CoverageAlwaysExact` puts it together with `Tiling`.
* Matrix: `RunIsSound`, `BudgetAlwaysHolds`, `SealsAlwaysAuthenticate`,
  `SelectionAlwaysJustified`. `RunInv` says that the tracker equals the sum of
  the receipts and that everyone in flight has a whole body reserved, both
  together within the budget (`Tracked`); that nobody is in flight behind a
  manifest (`Ending`); that no chain call is active once target calls are handed
  out, so what was proven stays proven (`Proven`); and that a report was computed
  from the rows it is sealed with (`Evaluated`). What cells, selection and
  inventory make of given rows is then a matter of lemmas over values.
* Qualification: `StoreIsSound`, `BytesAlwaysCovered`, `LineageAlwaysExact`,
  `NeverLeftStranded`. `QualInv` says by the version of the lock which ledger is
  in force and that what it knows are downloads of the locked plan, which fit
  the budget together (`Kept`); what a pinned migration and correction have left on
  disk, file by file (`MigrationExact`, `CorrectionExact`); and, for each kind of run
  and each of its points, what it may still rely on (`ByKind`): an ordinary run is
  on a store that is not half way through a migration or a correction, and what
  its loop has left behind without the object is known to the ledger, or the ledger
  has an overrun. That is what an alias needs, which asks no ledger:
  `BlockedOnlyByOverrun` says that without an overrun a locked plan leaves room for
  each of its entries (`SpentAsListed`, with `SumUnion`, `SumPart` and `SumBelow`).
  `NeverLeftStranded` then reads the invariant off where no process runs.
  `BytesAlwaysCovered` rests on a second invariant above it, `WireInv`: a charge is
  the whole body, or 0 for an object that a download found (`LedgersTrue`); a run in
  its loop is at downloads of the plan (`AtDownloads`); and nothing else has crossed
  under the ledger in force, while one that was left behind is within its budget
  (`WithinPlan`). The ceiling then follows from the plan's, with `SumPart`.
* Event ingest: `ReportsAlwaysReplay`, under `OneSize`, that is, while all plans
  walk chunks of one size. The lemmas about `Tiling` (`ChunkNext`, `ChunkBefore`,
  `ChunkOf`, `TilingCut`) say that chunks begin behind the multiples of the size,
  share no block and leave none out, and that every job takes the first chunks
  of one grid, whatever the pilot's bounds. `IngestInv` then says that a receipt is
  of a chunk of the grid, one for each kind, fit to decode, and faithful to the
  chain where it stays (`Receipts`: of two equal answers one is from the source that
  omits nothing); that a run stands at a chunk of its job with receipts of all
  chunks before it, whoever wrote them (`Standing`); and that what was reported is
  complete (`Done`). Receipts only ever accumulate, so nobody's step can move
  another run from where it stands.

Three theorems name a condition of their own: `OneLine` of `SchemaIsAlwaysAPrefix`
(different checkouts agree on which file has which number: no code compares two
checkouts, so this is an assumption about the repository's history),
`~EagerAge` of `LeaseProtects` and `OneSize` of `ReportsAlwaysReplay`.

Apart from these the proofs rest on the named assumptions about the constants only, and TLC
evaluates these for every instance: kinds of processes are disjoint, `None` values
are no members, bounds are numbers, `Absent` is no ledger and no lock. Those that say something of the program:
each checkout numbers its migrations without gaps, a number being one file name
(`MigrationsAssumption`; `_discover_migrations` refuses anything else of the one
checkout it reads); the open end of a window lies after every time (`TimeAssumption`);
a domain has a first and a last block in order and at least one address
(`Domain` of `PairPlan`; `QueryDomain.__post_init__` checks both); the sizes of the
matrix increase (`MatrixAssumption`; `NESTED_COHORT_SIZES`).

Minima of finite sets and of numbers are argued by well-foundedness (`WFMin` with
the library's orderings), which needs no operator parameter. The fold behind
`MapThenSumSet` is treated in the same way in `Sums.tla`: `FoldExists` and
`FoldUnique` say that its recursive function exists and is determined by its
equation, `SumRemove`, `SumAdd` and `SumChange` what a sum becomes when one summand
goes, comes or changes, `SumUnion`, `SumPart` and `SumBelow` how sums of two sets or of
two weights compare. Where one would argue by induction over a finite set, the proof
takes a smallest subset for which the claim fails (`FirstFailure`).

Some theorems state what no run lists as a property of its own
(`CatalogNeverAhead`, `NeverAboveCeiling`, `QuarantineAtomic`, `QuarantineFinal`,
`RejectionsSeen`, `EachFileRunsOnce`, `KilledSilent`, `ChecksKill`,
`StreamDecidesCoverage`, `EngineIsSound`, `RunIsSound`, `StoreIsSound`, the dataset
store's `CreatedAcksSurvive`, and the type invariants): the abstract ledgers of the
runs say part of it, and the theorem says the rest for every instance.

Model-checked only: liveness, which the prover has no means for, and what the
violation runs refute. No module that is proved about declares a recursive
operator.

## Findings

Two have a run that exhibits them.

`pair_drop`: `_drop_bad_candidate` deletes by
domain, in a transaction of its own after an authentication that read the
candidate outside it, so a fresh valid candidate committed in between is
deleted; line 4777 of the engine says the call never deletes valid ones. The
plan recovers: the domain is acquired again.

`promo_race`: `registry.py` reads the state at line 90 and appends at 211 over
another connection, and nothing ties the two together. Two operators that read one
state both insert, and the second event takes the artifact out of RETIRED, REJECTED
or QUARANTINED, which `models.py:27` calls terminal states from which an artifact
cannot be promoted without a new identity.

The rest are plain in the actions or in the condition of a property, each at
its line.

Stores.
* After a busy refusal Python's sqlite3 keeps the transaction open and its
  snapshot pinned, so the retry at `ingest/raw/catalog.py:453` is refused for
  good on that connection (`txn` in `RawStore`).
* A temp is created by `mkstemp` and locked later, so a reconciler may hold its
  flock in between (`LeaseRefused`), though `writer.py:287` speaks of a lease from
  creation.
* The reuse paths (`publisher.py:422`, `writer.py:350`) sync nothing, and
  `_publish_as_owner` never fsyncs the subdirectories of a stage (`publisher.py:490`),
  so a power loss may tear a tree somebody was told of (`Remains`), though
  `publisher.py:7` says directories are fsynced.
* The quarantine's replay demands the status REGISTERED of rejected targets
  (`Authentic`), so it is refused once a successor is registered, though
  `bitmex_funding_quarantine.py:487` says that a replay recovers the report.
* A quarantine that commits between a publisher's read of the row
  (`catalog_store.py:310`, 329) and its return is not noticed: the call reports
  success for a dataset that is rejected by then. `RejectionIsSeen` is about calls
  that begin later.

Promotion and trading.
* The latest event is the one with the latest `event_at`, taken from the wall clock
  before the insert (`registry.py:208`): a suspension or retirement inserted after the
  clock was set back sorts below the approval it was to end, and the approval
  stays in force (`turned` in `EventsFollowLifecycle`).
* The kill switch is not set when the registry query raises sqlite3's own error
  (`live.py:308`), though line 300 speaks of any failure.
* Three kinds of live orders are in no flatten signal, though `live.py:281` promises
  any open order ids: those whose answer was lost (`SendRaises`), those an earlier
  process sent, and those whose order id was submitted again, as `submit_order` asks
  nothing of an id and line 239 overwrites the first. `OthersAreKnown` says that
  there is no fourth kind.
* The paper loop saves a snapshot and then its trades in two transactions, so a
  death in between loses trades whose effect the restored account has; fills
  before a price error stay in memory only; restoring picks the latest decision
  time, so a rerun of earlier times resumes the older run's account.

Catalog.
* Racing migration runners: the loser ends with an error although the migration
  is applied; run again, it succeeds. History is keyed by filename.
* `build_snapshot` reads links before its transaction and links may be
  backdated, so rebuilding for the same instant may give another digest, though
  `repository.py:449` calls it deterministic. A stored equal body keeps its first
  `generated_at`, which can refuse a decision for an earlier time for good.
* Two corrections may supersede one decision, and the current state mixes all
  versions of a hypothesis.
* `supersede_alias` lets sqlite3's IntegrityError escape; candidates of a queued
  question stay as they were when it was asked. The as-of reader requires
  `known_from` at or before the decision time and so differs from the store when
  the knowledge time is later.

Harmonic acquisition.
* A locator is created under its final name and then written (`CreateLocator`),
  so a process killed in between leaves one every later session refuses
  (`LocatorRefused`), though `_recover_published_receipt_head` is to resume every
  unfinished publication.
* When the fsync after a rename fails (line 1555), the charge of a visible body
  is refunded (`FailUnpublished`), though `release_charge` speaks of an
  unpublished reservation.
* A worker whose error handler itself raises (line 10165) dies, and the feeder's
  `work.put` at 10214 waits forever once the queue is full; the comment at 10155
  claims otherwise. `RunEnds` therefore speaks of threads that live.
* A counted request without an attempt (line 10243) keeps the run open.

Harmonic qualification.
* `atomic_download` streams the whole body before it finds existing content, so
  a settled "no transfer" may have transferred it, contrary to the comments near
  5504, 9750 and 10754; `BytesAreCovered` accepts a charge of 0 only for an object a
  download found published, and names this hole. A body is counted once: one that
  streams twice may cost the network more than the ceiling.
* An alias of a failed or blocked entry downloads without a reservation or a
  budget check (10691); `BytesAreCovered` names this hole too.
* A failed download near the end of the budget is blocked by its own reservation.
  An overshoot above the locked size makes every later version-4 run refuse;
  retained bytes that do not validate make every run raise (8923); a source change
  between a correction's receipt and its lock strands the store.
* Legacy reconciliation (10563) and recovery persist before the inputs are
  compared (10643). A transport error no retry can mend ends the whole run. No
  lock keeps two runs apart.

Pair-event engine.
* A logs-first worker that lost its lease to a winner which does not match its
  terminal raises and ends `run_until_idle`. `commit_log_candidate` checks the
  token, not the expiry. A candidate on another fork is never dropped, so every
  finalization turn raises.
* Range-limit and body-size facts together never split a domain.

Matrix.
* `int(rec.get("body_bytes") or -1)` (about 1844) refuses an inventory with an
  empty body, so a run with one is sealed FAILED although ADR-0015 9.8 makes such
  a failure evidence of a COMPLETE run (`InventoryHolds`).
* `gate.acquire` raises outside the try block and leaks its reservation; it does
  so at a stop only, when nobody reserves any more.
* A failure between the run's creation and its first write leaves a directory
  without a terminal, as does a temporary file whose unlink failed, though the
  comment at 3755 says that every exit path seals. `_join_reader` gives up after
  120 seconds, though its docstring says joined; the model assumes it is. A seal that
  itself fails (a stray spool file, 1741, or a failing write, 1752) leads to the
  handler at 3863 and a second try, which the model leaves out: a seal succeeds.
* A chain call's refused attempts do not count in the selection.

Event ingest.
* `job_coverage` refuses a receipt inside the window that is no chunk of the plan,
  not one that crosses the window's end. A pilot of another `chunk_size` can so
  be reported and later fail to replay, once a receipt of a longer chunk stands
  beside its own, though the comment at 691 says that coverage fails closed on
  re-chunking. `ReportsReplay` is violated when the plans have two chunk sizes.
* Logs are read before the end header. If the last block is replaced in between,
  a log of the old one is refused, since headers must carry the hash of their logs;
  but where the old block had no log, its emptiness is agreed beside the hash of the
  new one. `ReportsReplay` therefore compares logs on settled blocks.
* Losing the race for a receipt raises sqlite3's IntegrityError, which the
  orchestrator does not catch; `skip_complete_jobs` looks at no evidence; `fetch`
  stores logs marked `removed` and logs of another emitter, which replay refuses.
* The factory ingest compares no log's block hash with its header when
  `emit_rows` is false, so a replacement between two calls can leave a receipt
  that resume skips and replay refuses for good.

## Order of work

The modules were written in the order in which the rest of the system leans on
them: stores, registries and broker; the harmonic acquisition's budget and
receipts; the catalog; the engine and its plan; qualification, matrix and
ingest. What is left:

1. The rest of the harmonic acquisition: Binance objects with sidecars, retained
   files, the terminal manifest and its verification, plan installation.

## Not modelled

Bytes, digests, JSON and SQL text; path safety checks; credentials; quantities
and prices; data-frame arithmetic. Parts listed `not_modelled` in `PROJECT.json`,
each with its reason.

The map covers about an eighth of the implementation's lines. The largest files
(`binance_usdm_harmonic_sizing.py`, `binance_usdm_gate2_revision_candidate.py`,
the normalizers, experiments and most of the qualification's validators) are field
checks of documents, parsing and data-frame arithmetic: they keep no state
between calls and no two of their steps can be interleaved. Modelling them would
restate them line by line and tell nothing apart. In the files that do keep
state, the lines left out are argument validation, record layouts, HTTP and
reports.
