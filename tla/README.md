# Verification of wsmig_utility

`wsmig_utility` migrates a Databricks workspace to another one, many times: a first
import and then re-imports that carry over what changed in the source. This directory
holds TLA+ modules that model its core, TLC configurations that check them on small
instances, and proofs checked by TLAPS.

## 1. The system

| part | code (`src/src/…`) | state it keeps | operations |
|---|---|---|---|
| Inventory and export | `collectors/`, `exporters/` | the bundle `<staging>/wsmig/<src_ws>/<run_id>/`, its manifest (written last), the `LATEST_*` pointers, the export checkpoint | list, fetch content in parallel, write payloads, ledger, manifest, pointer |
| Import runner | `importers/import_runner.py`, `phases.py` | run status, results of the phases | gates, recovery replay, deferral, phases in order, deleted-in-source, reports |
| Preflight | `importers/preflight.py` | findings of one run | 13 checks, graded; the verdict |
| Import engine | `importers/base_importer.py` | existence map, pending checkpoint batch, result rows | per unit: resume, decide, act, record |
| Family importers | `importers/*_importer.py` | caches of ids | `existing_keys`, `create_one`, `update_one`, `adopt_one` |
| State store | `state/state_store.py` | two Delta tables, two in-memory views, two queues | load, record, record_identity, flush, decide, retry_keys, recovery_replay, mark_missing_in_source |
| Checkpoint file | `exporters/artifact_writer.py` | `misc/checkpoint.json` of the bundle's folder | mark_done_bulk, is_done, get_results |
| Tokens, retries | `auth/token_manager.py`, `utils/retry.py` | the cached token, warnings | token, call with retries, two paginations |
| Reports | `reports/`, `exporters/*excel*` | files | layout of what the run recorded |

**How they interact.** `01_Inventory` and `02_Export` read the source and write a
bundle under a fresh `run_id`. `04_Import` resolves a bundle, runs the preflight and
hands both to the import runner, which checks its gates, loads the state store, replays
the bundle's checkpoint into it, and runs one importer per family in the order of
`phases.py`. An importer asks the store for a decision, resolves the ids its payload
refers to, calls the target's REST API, and records the outcome in three places: the
store's queue, the checkpoint's pending batch and the result rows. Queue and batch are
written in batches of 200 rows or after 300 seconds; at the phase's end the checkpoint
goes first and the state table after it; the run's `finally` flushes the table once
more. The job definitions set `max_concurrent_runs` to 1, so there is one import at a
time; what interleaves with it is the death of the process, a cancellation, people who
edit either workspace, and calls and writes that fail or lose their answer. Real
threads exist in two places: the content fetchers of an export and of the collectors,
which share a token, a client and the file names of a folder.

**What is hard.** Three records of one fact (object, row, checkpoint entry) that a
crash can separate at any point; writes that are best effort and only raise a flag; a
replay that merges an older record over a newer one; decisions taken from a listing
that was read once; ids that pass through four caches; work that depends on other
work's success in this run or an earlier one; rehearsals that share files with real
runs; tokens that age while threads wait. `PROJECT.json` lists the hazards one by one,
at their lines, with the properties that cover them.

**What makes each part correct.**

- *State store*: nothing recorded is lost short of a crash, a crash loses less than a
  batch, and whoever asks is told when rows are unsaved.
- *Engine*: a unit has at most one object made by the tool; a row never names another
  unit's object nor claims content that did not land; deferred work stays visible; a
  rehearsal changes nothing live; a run ends.
- *Runner, phases, references*: nothing starts past a gate that must hold; an id
  written into an object is that of the very object the source meant; one clean full
  run leaves nothing waiting; green means saved; and when people stop changing things,
  the documented procedure brings the target to the source's state.
- *Bundle and export*: a bundle that verifies is one whole export of its own inventory;
  work it announces is in it; threads keep file names apart; an export ends.
- *Identity, ACLs*: nobody is taken for somebody else, members and permissions arrive
  or are warned about, grants follow their objects, missing access is reported.
- *Calls*: no call with an expired token, one new token per expiry, listings whole or
  reported, every call ends.

## 2. Modules

| module | role |
|---|---|
| `WriteBackMap` | abstract specification: a durable map with a working copy; the durable map only ever becomes the whole working copy, and an id once known is never blanked |
| `StateStore` | `state_store.py`: tables, views, queues, MERGEs, flush policy, decision, retry buckets. Implements `WriteBackMap` twice |
| `ImportEngine` | `EXTENDS StateStore`: one family imported by `base_importer.py`, with the checkpoint file, the target, crashes, cancellation and people |
| `ImportPlan` | pure operators: families, order, prerequisites, who refers to whom, the preflight's findings and verdict, the runner's gates |
| `ImportRun` | `EXTENDS ImportPlan`: several whole runs of `import_runner.py` over several families, with the resolution of references and a dashboard's publish state |
| `ExportUnits` | pure operators: which units an inventory record becomes, their status and announced action (`asset_export.py`) |
| `ExportRun` | `EXTENDS ExportUnits`: both notebooks that write a bundle, worker threads, files, checkpoint, manifest, pointers, crashes |
| `AccessImport` | the identity phase, objects, ACLs, and what retries and crashes do to them |
| `ApiCalls` | threads, the shared token, retries, paginations, time |
| `MC…` | one per model: its small worlds, and bounds that only TLC needs |
| `…Proofs` | theorems only, one per model and three for the engine: section 4 |

`ImportEngine` and `ImportRun` look at the same program from two sides. The engine
follows one family through every step of its bookkeeping; the run follows many families
through many runs, where one unit is one step. What only one of them has: the engine
re-imports one bundle, reads the checkpoint, meets failing listings, hand-made objects,
lost answers and rehearsals; the run has gates, selections, phases, references between
assets, retries that follow a parent, and a fresh bundle for every run.

A comment that starts with `Defect:` marks a variant of the definition below it with a
plausible bug; the variants are not part of the specification. Each property of a
passing run fails under one of them (`mutants` in `PROJECT.json`).

### StateStore against the code

A *key* stands for all that selects a row: the table (`live` or the `_dryrun` twin of a
rehearsal), the source workspace, the asset type and the natural key. A row keeps the
four columns that decisions read: `target_object_id`, `last_source_fingerprint`
(carried forward when blank, COALESCEd by the MERGE), `last_action`, `last_run_id`
(overwritten). `table`/`idTable` are the Delta tables, `cache`/`idCache` the in-memory
views, `pending`/`pendingId` the queues, `flushFailed` is `flush_failed`, and `since`
abstracts `_pending_since` to *none*, *recent* and *overdue*. `FlushQueues` has one
disjunct per way through `flush()`: nothing queued; the first MERGE raises (having
committed or not); it commits and the second one raises; both commit.

### ImportEngine against the code

A unit is `<<asset type, natural key>>`: the state row is keyed by both, the checkpoint
entry and the existence map by the natural key alone, as in the code. A run goes
through `replay → list → (units → record → checkpoint)* → flush → missing → final →
exit`, or `replay → defer → final → exit` when its family is not selected; every arrow
is a step of its own, so that a crash, a cancellation or a hand edit can fall between
any two. `ProcessUnit` has one action per way through `_process_one`: `OutOfScope`
(step 0), `NotAttempted` (1–2c), `Resume` and `CheckpointUnreadable` (3), `Unchanged`,
`Rehearse`, `Adopt`, `Update`, `Create`, `AlreadyExists`, `CreateDeclarative`,
`CreateNoObject` (4). A call to the target succeeds, fails, or (`AnswersMayBeLost`)
takes effect and fails. The types' peculiarities are constants: declarative,
dependent, reconciled, warned and uniquely named units.

`cutShort` is a history variable: a live run died, was cancelled or could not save and
no full live run without failures has followed. `ReimportFirst` says whether the
operator re-imports an interrupted bundle before exporting a new one (what the run's
messages tell him to do).

### ImportPlan and ImportRun against the code

`ImportPlan` holds the tables of `phases.py` as functions, one operator per importer
for the ids its payload carries (`JobRefs`, `GenieRefs`, …: every `require_remap` call),
and the preflight as operators on *facts*, a record of what the checks would find. A
check that raises becomes a degrading finding, which is why the runner's gates verify
the manifest and the pointer again (`VerifyBundle`, `PointerMatches`).

In `ImportRun` each run acts on a bundle exported just before it, and an object is its
id, the version of its content and the ids it carries. An id is `<<unit, n>>`, the n-th
object made for that unit; `<<unit, 0>>` is its id on the source. Actions: `Start` (an
operator picks one of `Settings`) or `Proceed` (the documented procedure), `PassGates`
or `Abort`, `StartPhase` (the listing, the work list, retries and the units that follow
them), `Process(u)` with one action per way through `_process_one` and through the
publish state's probe, publish and read-back (`OutOfScope`, `Skip`, `Adopt`, `Update`,
`Create`, `NoParent`, `AdoptPublished`, `PublishDashboard`), `EndPhase` (with its flush),
`MarkMissing`, `Finish` (the last flush and the status), `Interrupt` (an exception that
`except Exception` does not catch: the `finally` clauses still run) and `Kill`. Around
them: `EditSource`, `RemoveFromSource`, `DeleteOnTarget`, and `Settle`, after which no
one changes anything.

Two history variables: `dirty`, whether something failed in this run, and `lost`, the
units whose saved row did not know their object when some run started (an earlier run
made it and died before it saved the row).

Left out of `ImportRun`: schedules (matched by cron expression instead of a parent) and
units that have no id of their own; a call that fails has no effect. The target accepts
a write that names an id which is gone; the code has no say in that.

### ExportRun, AccessImport, ApiCalls against the code

`ExportRun`: bytes are `<<item, version>>`, files are slots of a bundle, a file that is
being rewritten when the process dies is `Torn`. `Fetch`/`FetchNothing` are worker
steps (download, reserve a name under the lock, write), `Consume` and `FlushContent` the
main thread's; `Verified` is `verify_manifest`. The survey of `MCExportRun` has one
inventory record for each kind, class and trait that `asset_export.py` tells apart.

`AccessImport`: principals are names; three of them share one flat existence map, as in
the code. `ImportIdentity` has a branch per way through `_process_one` of the identity
importer (shadowed, not attempted, resumed, unchanged, assigned, created, deferred
members), `ApplyMembers` is the second pass, `ImportAcl` the declarative PUT with its
unresolved principals, `EndAcls` the parity report. Batches of both records are written
at any time; a crash may fall between any two steps.

`ApiCalls`: time is discrete and only differences are kept. A thread asks for the token
(taking the lock when it is due), sends, waits, sleeps between tries, pages. The server
answers, throttles with or without `Retry-After`, or refuses.

## 3. Runs

| run | expected | what it shows |
|---|---|---|
| `state_store` | pass | the store alone, every MERGE free to fail before or after it commits: type, pending rows are exactly the gap, bounded loss, the flag is right, both refinements |
| `import_crashes` | pass | two jobs, two bundles, one death anywhere, also in a checkpoint write; failing MERGEs and checkpoint writes: rows name their own objects, no duplicates, honest fingerprints |
| `import_failures` | pass | rejected calls and failed listings on uniquely named types; full, `failed_only` and forced runs: honest fingerprints, `completed` means migrated |
| `import_kinds` | pass | declarative, dependent, reconciled and platform-internal units; a hand edit, a rejected call, a failed listing |
| `import_modes` | pass | full, deselected, `skipped_only` and dry runs; crash, cancellation, lost answers, failing disks: deferred work is visible, rehearsals are harmless, runs end |
| `import_run` | pass | two runs with any of seven settings, then the documented procedure, over a warehouse, a job, a dashboard and its publish state |
| `export_bundles` | pass | inventory and export of every kind of record, two worker threads, an edit, a failed call or write, a crash anywhere, re-runs and resumes of a folder |
| `identity_acl` | pass | three small workspaces, three runs over two bundles: nested, account, shadowed and unclassified groups, grants, retries, a refused call, a crash, changes made by people |
| `api_calls` | pass | two threads fetching with one token, or one reading both kinds of listing; throttles, refusals, aging tokens, rows that come and go |
| `replayed_failure` | violation | the recovery replay stores the new fingerprint of a failed unit |
| `rehearsal_hides_work` | violation | a rehearsal's `skipped` outcome is checkpointed and hides work from the live run |
| `stale_adoption` | violation | an object whose row was lost is adopted with the new fingerprint and not updated |

**The three violations** are disagreements of the code with its own comments
(`findings` in `PROJECT.json` quotes them). (1) Run 1 creates a job; run 2's update of
it fails and the process dies with the failed row unsaved; the re-run replays the
checkpoint's row with the *new* fingerprint, and from then on the job counts as
unchanged. (2) Two rehearsals of a bundle: the first makes a row in the rehearsal's
table, the second decides `skip`, which is written to the checkpoint as a live outcome.
(3) A process dies after creating an object and before saving its row; the source
changes; the next run finds the object without a row, and the comparison of
fingerprints that its comment announces has nothing to compare with.

**Bounds of the engine's runs.** Two units are enough for what relates units (batches
that cover one and not the other); one unit is enough where a run is about the life of
a single row. Two bundles and two fingerprints make an edit, a deletion and a return of
a unit possible; three or more object ids allow duplicates to appear. `BatchSize` and
`CheckpointBatch` are 2, so a batch can be pending, full or flushed by the timer.
Crashes, cancellations, failed calls and hand edits are bounded by `Max…` constants of
1 or 2; flush and checkpoint failures are not bounded. `state_store` bounds each queue
to `MaxPending` rows, since a broken table lets them grow without limit, and records a
single action, because the store copies the action without reading it.

**Bounds of `import_run`.** The four assets give one chain of each kind: a reference
across phases, a dashboard with a reference of its own, a child of it in the same
phase that refers to both. The settings are all there is to tell apart: everything, a
retry, one family with and one without what it needs, jobs without the warehouse, a
torn manifest, a mismatched pointer. One edit, removal, deletion and kill and two
failures, of which `MaxTrouble` = 2 may fall together (3 passes as well, with 1.1
million states), in two runs with any settings; then `Settle`, and as many further runs
of the procedure as it takes. `CleanRunsResolveEverything` and `EventuallyMigrated`
except the units in `lost`, for which `stale_adoption` is the counterexample, and units
that need, however indirectly, something the bundle does not have (`Complete`, `Resolvable`:
a set of units of the bundle closed under references contains them; the proof showed that
looking two references deep is not enough).

**Bounds of the others.** `export_bundles`: two objects are enough for one name wanted
twice and for a batch that holds one of two results; `Batch` = 1 makes every result a
checkpoint write; three jobs give an inventory, an export and a re-run; one crash and
one failure. Forced exports are not disturbed (`DisturbForced`, see below).
`identity_acl`: two groups nest once, each world has the classes that meet in one
branch of the code; faults, crashes and changes are one each and two together.
`api_calls`: two attempts and one retry level each, token life 4 with skew 2 and floor
1, so a token is fresh, due but honoured, and expired within one job.

**Fairness.** The process is a sequential program (or a pool of threads) whose waits are
REST calls and SQL statements that time out, so as long as it lives it takes its next
step: `WF_vars(RunStep)` in `ImportEngine`, `WF_vars(MainStep) /\ WF_vars(WorkerStep)` in
`ExportRun`, `WF_vars(Tick)` and `WF_vars(Step(w))` of every thread in `ApiCalls`.
`ImportRun` is about a procedure that people carry out: beside `RunStep`, its fairness
asks that changes end some day (`Settle`) and that the operator then does what the
README and the retry modes say (`Proceed`: a full import, then `failed_only` while
something failed). Nothing else is fair: crashes, edits, failures may happen or not.

**Outside the runs.** Some properties were written down and refuted by TLC where the
code makes no promise; they stay in the modules with the constant that shows it:

| property | fails with | why |
|---|---|---|
| `ExportRun!ContentIsItsOwn` | `Worlds <- AlikeOnly` | an export that resumes content does not know the file names taken by the earlier process |
| `AccessImport!ConcludedPrincipalsAreMapped` | `Worlds <- NestedOnly` | the replay after a crash writes no identity rows, nor does the resumed unit |
| `AccessImport!RecreatedObjectsHaveTheirGrants` | `Worlds <- SteadyOnly` | the ACL of an object made again is unchanged and is skipped |
| `AccessImport!UpdatedPrincipalsHaveTheirPermission` | `Worlds <- ConvertedOnly` | see below |
| `ImportRun!WrittenReferencesAreLive` | `Settings <- WholeOnly`, `MaxRuns = 3`, `MaxTrouble = 3` | the row of an object whose re-creation failed still names the one that is gone |
| `ExportRun!AcceptedBundleIsWhole` | `DisturbForced = TRUE`, `MaxJobs = 4` | a forced export killed in the middle leaves newer content under the older checkpoint rows |
| `ImportEngine!RowsNameOwnObjects` | `Units <- PoolAndCluster`, `Keys <- PoolAndClusterKeys` | two types of a family with one natural key share a checkpoint and an existence entry |
| `ImportEngine!OneObjectPerUnit` | `import_failures` with `UniqueUnits = {}` | a failed listing of a type whose names are not unique |
| `ImportEngine!DeclarativeWorkIsDone` | `import_kinds` with the deselected run of `DeferringRuns` | a deferral stores a fingerprint for what was never applied |
| `ImportEngine!FingerprintsAreHonest` | `import_crashes` with `ReimportFirst = FALSE` | a crash followed by a newer bundle: the adoption of `stale_adoption` |

`UpdatedPrincipalsHaveTheirPermission` is worth a second look: a workspace-local group of
the source is an account group on the target; the first import adopts it; then the source
makes it ADMIN and gives it a member that the target does not know. The update leaves
that member out and is recorded as `created_with_warning`, and the hook that sets
permissions on "every path that does NOT create" (`identity_importer.py:1038`) takes that
for a creation (line 1022): the group stays USER, and no warning says so.

Known from reading, and in no property: a run cancelled between two phases ends
`completed` (the next runs repair what it left, `EventuallyMigrated`); `created_with_warning` is not in `failed_only`, so
a group whose members failed waits for the next full run; checkpoint rows amended by
the second identity pass carry no asset type and are not replayed (modelled in
`AccessImport!Replayed`, no property is about it); a service principal whose assignment
is refused as already there keeps its permission; revoking the last explicit grant
sends no PUT; `LATEST_EXPORT` may name a folder that is being rewritten; an inventory
resumed into a half-exported folder; a `Retry-After` that is a date ends the call; a
server that caps a SCIM page below the `count` asked for; a mint that gave up is tried
again by the outer `with_retry`; the preflight misses shadowed groups when its second
listing fails, and says so nowhere.

## 4. Proofs

All theorems are listed in `PROJECT.json`; each proof module's comments lay out its
argument. They hold for every value of the constants that satisfies the named
assumptions.

**`StateStoreProofs`** (assumptions: the blank marker is no id and no fingerprint, the
missing-row marker is no row, a batch holds at least one row): `StoreIsTyped`,
`PendingIsTheGap`, `LossIsBounded`, `FlagMeansPending`, `FlushSavesOrFlags`,
`StateMapRefined`, `IdentityMapRefined`. `PendingCoversTheGap` (merging the queue into
the table gives the view) is inductive only together with the type and with the fact
that every queued key has a *last* place in its queue (`Settled`): the MERGE takes the
last row of a key, a `CHOOSE` that would otherwise be arbitrary. Four lemmas carry it:
appending a row makes it the one the MERGE takes for its key and changes no other key
(`QueueOneMore`); the MERGE is idempotent, so one that committed and lost its answer may
run again (`MergeRows`); a row built by `record()` forgets nothing the view knew, hence
its COALESCE is the row itself (`CarryForwardKeeps`, `MergeOneMore`); and whatever
`flush()` manages to write, merging what it leaves pending gives the same tables as
before (`FlushQueuesFlushes`). A `record()` is a `Write` of the map whether or not it
brings a flush, a flush is a `Sync`.

**`ImportEngineProofs`** (keys are pairs of a table and a unit, settings are records of
four switches, special kinds are subsets of the units, the marker for *nothing* is no
object, outcome or entry): `EngineIsAStore`, the engine implements `StateStore` (its
variables are the store's, so no mapping is needed), and with it every theorem above;
`EngineIsTyped`; `RehearsalIsHarmless`; `RowsAreOwn`, if no two units of the family
share a natural key (`NamesAreUnique`), which section 3 shows to be needed. That a step
of the engine is a step of the store needs the outcome it records to be one
(`EngineIInv`), and that in turn needs the store's invariant, so the two are proved
together: `NextOnStore` names the store's operation that a step performs, and
`StoreStepIsAStep` takes the invariant from it. For ownership an id is followed around
its circle -- listing or row, outcome, row and checkpoint, and back by a resume or a
replay -- and each place must own what it names (`OwnIInv`); objects are added and
edited, never given to another unit (`Grows`).

**`ImportWorkProofs`** (`EXTENDS ImportEngineProofs`): `OneObject`, `WorkIsVisible`,
`WaitingEnds`. A second object needs a listing that has missed the first, so `SoleIInv`
adds to the property that what a phase's listing has not found is not there while the
unit is still to be taken (`UnlistedIsAbsent`). The one hypothesis, `ListedOrRefused`,
is the exception of section 3: where listings may fail, the platform must refuse a
second object of the name. The other two hold in *every* environment. Their invariant
(`WorkIInv`) says what a run over everything has on record for each unit that it has
passed, settled or left to its deferral; the row is in the view, and a run that ends
`completed` has saved its view. `WaitingEnds` is the less obvious one: a checkpointed
`skipped_no_object` may be resumed, and the proof has to show that it never is once
the object is there (`Resumable`).

**`ImportHonestyProofs`** (`EXTENDS ImportWorkProofs`; a hand's content is no
fingerprint): `FingerprintsHold`, `CompletedRunsMigrate` and `DeclarativeWorkDone`, for
any units, bundles and runs in the circumstances `FaithfulWorld` lists. They say that a row is right about the *content* of an object,
and a crash makes rows wrong for a while, so the invariant has two grades: `Exact` (the
row names the object and holds its content) while nothing is left unfinished, and
`Truthful` otherwise: where the row is wrong, the object already has what the current
bundle wants, so the next run of the bundle finds it or applies the same again. From
`Truthful` a full run that ends without failures gets back to `Exact` (`LandedInv`: each
unit it has settled has landed or has failed). The rest says the same of the places a
row is copied from: the outcome in hand (`CurrentInv`), the checkpoint and its queue
(`EntriesInv`), the listing (`ListingInv`). Each conjunct of `FaithfulWorld` excludes one
way to a wrong row that the code has, and most have a counterexample beside them:

| conjunct | what happens without it |
|---|---|
| live runs only | `rehearsal_hides_work` |
| no lost answers, no hand edits | the object changes and nobody can know |
| `ReimportFirst`, or nothing dies | `stale_adoption` |
| names are unique | two types share a checkpoint entry (section 3) |
| no name is on the target twice, and no dependent unit's object before its host | the listing keeps one of the two |
| no rejected calls, or nothing dies | `replayed_failure` |
| listings fail only where nothing dies and names are unique on the target | adoption by name after a listing that failed (section 3) |

`import_crashes` and `import_failures` both satisfy it, from the two sides: deaths without
rejected calls, and rejected calls and failed listings without deaths.

`DeclarativeWorkDone` adds to it, for units whose object is there before the work is,
that every book that claims something of such a unit -- row, checkpoint, queue, outcome in
hand -- has the object written behind it (`AppliedInv`). Most steps copy a book or
forget one (`CopyingClaimsNothing`); the others claim what the unit's call has just done.
One step of the code does neither: a deferral stores the bundle's fingerprint in the row
of a unit that was never applied (`base_importer.py:981`), and the next full run skips
it as unchanged. TLC shows it, so the theorem assumes `NothingDeferred`: every run
selects the family.

**`ImportRunProofs`** (assets have the types and references that `ImportPlan` allows, a
publish unit has a dashboard, settings and facts are well formed): `RunnerIsTyped`,
`ReferencesStayExact`, `GreenIsSaved`, `NothingStartsUncheckedEver`, `ReferencedComesFirst`,
`CleanRunsResolve`. The inductive
invariant has one part per kind of memory: the world is typed (`WorldTyped`), objects
carry their own ids and exact references (`TargetGood`), rows in memory and in the table
(`BooksGood`) and the ids this run and its listings know (`MemoryGood`) *own* what they
name: an id kept for an asset is that of an object made for it. `ReferencesAreExact`
alone is not inductive, because a reference is resolved from those memories, not from
the target. Publish units are left out of ownership: they answer with the id of their
dashboard, and no asset refers to them (`ReferredIsReferable`). Numbers of objects only
grow (`made`), so what is owned stays owned under deletions and kills. For the gates,
facts do not change within a run and no phase is entered but through `PassGates`; that a
verdict of the preflight bars an enforced blocker even when a check broke is a lemma
about `ImportPlan`.

`CleanRunsResolve` is about reference chains of any length, through any phases, after any
history of runs. It rests on `ReferencedComesFirst`, a fact about the tables of
`ImportPlan` alone: every type an asset may refer to, other than its own, is loaded in an
earlier phase or earlier in the same one. The invariant (`RInv`) then says of a run in which
nothing failed that each unit whose turn has passed, and whose needs are met, has an id in
the run's memory and the bundle's content on the target (`DoneResolved`). A turn ends that
way because what the unit finds is true: the listing of the phase has all that is there and
no more (`ListingKnown`, `ContextKnown`), a publish state hangs on its dashboard
(`WorldKnown`), and a row of a unit that is not `lost` names the object and claims no newer
version than it holds (`RowsKnow`, `SavedKnow`), so that skipping on an equal fingerprint is
right. The last is where history comes in: rows of earlier runs, saved or not, deferred
with a fingerprint that was never applied (`BooksKnown`: such a row has no id), marked
deleted, or kept by a failure. That the references written are the ids still there needs
that an object is made again only after a deletion (`MadeOnce`).

**`ApiCallsProofs`** (an exchange takes at most half the skew, tokens outlive skew and
floor; the source holds finitely many objects, and a thread's plan is a sequence of jobs):
`ApiIsTyped`, `NoExpiredToken`, `OneMint`, `ListingsMissNothing`. `ClockInv` relates the
client's clock to the server's: a token taken as fresh has at least the skew less one
exchange to live, and that is enough for the request that carries it. For listings, what
a page promises is about *places*: the SCIM pages read `[start, start + count)` by
position, so the invariant (`Covered`) says that every row that was there throughout and
whose place lies before the next start has been read, as long as no row before it went
away, which the property excepts.
Places are cardinalities of initial segments, hence the lemmas on finite sets of numbers
(`LeastOf`, `PlaceIsANumber`, and those after them). Cursor pages have no places; there a
cursor is the last key read.

**`ExportRunProofs`** (`Batch` and the number of workers are positive; only identities
are classified; groups and their memberships share one toggle, as in `TOGGLE_FOR` of
`asset_export.py`; a marker is no content): `ExportIsTyped`, `NamesStayApart`,
`AnnouncedWorkIsThere`, `AcceptedIsOneExport`, `AcceptedIsWhole`, `ForcedIsFresh`. A
chain of invariants, each resting on those before it:

- `Typed`: every place a row, a result or a file can be in has the right shape, and
  nobody works outside the fetch stage.
- `Apart`: an item is in one place only (to do, with a worker, answered, pending) and
  its name is in `taken`. "No two workers hold one name" is not inductive without it:
  the name is free to take because whoever holds it has put it there, under the lock.
- `Recorded`: the ledger rows of a process that is past loading, the results of every
  checkpoint, and every manifest announce only what their own export produced; a file
  that is rewritten after the manifest no longer agrees with its digest.
  `AcceptedBundleIsOneExport` is the part of `AcceptedBundleIsWhole` that needs nothing
  more.
- `Stored`: the bytes named by a result that was returned, recorded in a row or kept in
  a checkpoint are in the file it names, or an in-place rewrite of that same item is
  under way, whose result will supersede it. It is here that a forced export matters: it
  rewrites a file *before* its checkpoint row, so if it is killed in between, the older
  row names newer bytes. `AcceptedIsWhole` therefore assumes `~DisturbForced`, which is
  also what the run checks; TLC refutes the property without it (section 3). Items whose
  stem another item shares are left out (`OwnStem`), for the reason given there for
  `ContentIsItsOwn`.
- `Recent`: what a forced process has taken up is no older than the process.

**`AccessImportProofs`** (users, service principals, groups and the built-in group are
different names; a bundle wants USER or ADMIN for each; a marker is no principal, id or
outcome): `AccessIsTyped`, `NoShadows`, `MembersInAnyOrder`, `PermissionsFollow`,
`MissingIsReported`, `HealedKeepTheirGrants`. One fact lives in four books (row, saved
row, checkpoint, pending outcome), and a step copies it from one to another, so every
invariant here is a predicate on a book that is claimed of all four at once, and the
lemmas about `Conclude`, `Resume`, `Restore` and the replay say what each copy keeps.

- `ShadowInv`: no book ties an account group to the workspace-local group of its name
  (`Untaken`); the listing of local groups covers the shadows that were there, so the
  guard of `_process_one` sees them.
- `MemberInv`, while nothing has crashed: whatever calls a group `created` is matched by
  its members, or by a place in the second pass (`Attested`). A crash between the passes
  breaks exactly this, which is the uncovered hazard at `identity_importer.py:674`.
- `PermInv`: the listing that spares a PUT is never better than the target, a book that
  names a principal vouches for its permission (`Vouched`), and so does every unit that
  the pass has concluded. `PermissionsFollow` assumes `Racing \subseteq Users`: a service
  principal that somebody else assigns between the listing and the POST is found by the
  POST and keeps its permission (`identity_importer.py:395`). Two kinds of conclusion are
  outside `AdminsStayAdmins` because the proof fails for them, and rightly: groups that
  the export marked as not to be attempted, and `created_with_warning` (`UpdatedPrincipalsHaveTheirPermission`,
  section 3).
- `OwnInv`: an id in any book is below `nextId` and is no other object's; this makes the
  verdict of the parity report, which reads the target through the ACL's row, one about
  the object itself.
- `RowInv` and `HealInv`: an ACL has an id only if its object has one, an object that a
  run healed has its ACL among the run's work, and an outcome that a full run could
  resume for that ACL is about another object than the healed one. The last is what
  `retry_keys_following` and the resume have to agree on, and the least obvious.

**What the proofs changed in the models.** `CASE` arms whose guards overlap choose
arbitrarily among the true ones, and TLC silently takes the first: `ImportAction`
(`ExportUnits`) and `ExistingId` (`AccessImport`) had such arms, which no proof about the
code's order of tests can go through; they are `IF` chains now, as in the code. `HealedObjectsHaveTheirGrants` spelled its exceptions too widely; the form that the
proof suggested is stronger. Assumptions that the models had used silently are named. `CompletedRunMigrates`, `DeclarativeWorkIsDone` and
`NoObjectIsNotDone` except cancelled runs (`CompletedFullRun`): a run cancelled between
two phases may end `completed`, as section 3 says, and the first proof attempts failed
there. `CleanRunsResolveEverything` and `EventuallyMigrated` followed references two
deep, which is all that `import_run` has; the first is false so for a job on a cluster
whose policy names a pool that the bundle lacks. They ask for a closed set of units now.

**Only model-checked**: liveness (`RunTerminates`, `EventuallyMigrated` and their like), out of
this prover's reach. Every invariant and every action property that a passing run checks is
stated by a theorem. No theorem rests on anything but the library's
theorems, and no recursive operator is used anywhere.

## 5. Not modelled, and what is left

Not modelled: wording, timestamps, logs, report and workbook layout; REST payloads and
their transformations (`transform/`, most of the family importers); DDL and SQL text
(`state/sql_backend.py`: the store's model lets every statement fail before or after it
commits); the collectors' listings, each a loop over one endpoint (how a listing fails
or is cut short is in `ApiCalls`); validation of widgets and configuration files;
entitlements and roles; secret-scope ACLs, a pipeline's and a query's owner; schedules
of dashboards; home folders and the backup root. `PROJECT.json` has a row per part.

What would come next: the schedules and their subscribers in `ImportRun`; the
resolution of home folders as operators beside `ImportPlan`; and an abstract
specification of a migration that `ImportRun` implements.
