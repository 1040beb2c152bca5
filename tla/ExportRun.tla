------------------------------ MODULE ExportRun ------------------------------
(* 01_Inventory and 02_Export: bundles in the staging folder, one folder per
   run_id, written file by file by processes that may die at any point.

   A bundle is the inventory, the content files fetched by a pool of worker
   threads, the payload files, the ledger (export_index.json), the checkpoint of
   fetched content and, written last, the manifest that import verifies.
   JSON files are rewritten in place: a process killed in the write leaves a torn
   file.  Bytes are <<item, version>>: whose content it is, and which edit of it.

   Left out: wording, the Excel sheets, acls.json (written from the inventory
   alone, like the payload files), the oversize list and the counts.          *)
EXTENDS ExportUnits, Integers, FiniteSets

CONSTANTS Items,        \* objects of the source workspace
          Worlds,       \* what the source may hold: [record : Items -> records,
                        \*   stem : Items -> the file name a path is mangled to]
          Stems,
          ToggledTypes, \* asset types whose migrate_* toggle is off
          Batch,        \* CHECKPOINT_BATCH
          Workers,      \* content_fetch_workers
          Edited,       \* bound: the items people edit
          MaxRuns, MaxJobs, MaxVersion, MaxCrashes, MaxFaults,   \* bounds
          DisturbForced, \* a forced export, too, may be killed or fail to write
          NoFile, Torn, None

ASSUME BatchAssumption == Batch \in Nat \ {0} /\ Workers \in Nat \ {0}

ASSUME BoundsAssumption ==
    /\ \A n \in {MaxRuns, MaxJobs, MaxCrashes, MaxFaults} : n \in Nat
    /\ MaxVersion \in Nat \ {0}

(* Only identities are classified. *)
ASSUME WorldsAssumption ==
    /\ IsFiniteSet(Items)
    /\ \A w \in Worlds :
          /\ w.stem \in [Items -> Stems]
          /\ \A i \in Items : /\ w.record[i].kind \in Kinds
                              /\ w.record[i].class # "" => w.record[i].kind \in IdentityKinds

(* A toggle is one of a family: groups and their memberships go together. *)
ASSUME ToggleAssumption == "group" \in ToggledTypes <=> "group_membership" \in ToggledTypes

VARIABLES
    world,          \* one of Worlds, fixed
    version,        \* Items -> edits of the content so far
    disk,           \* run_id -> bundle
    lastRun,        \* the newest run_id; run_ids sort by time
    latestInventory, latestExport,   \* the two pointer files
    job,            \* the running notebook: [stage, run, force]
    rows,           \* its units: <<item, type>> -> [status, ref, hash, action]
    todo,           \* content items no worker has taken up
    working,        \* [item, name, version] downloaded, name reserved, not written
    answers,        \* results the main thread has not consumed
    taken,          \* the file names this process has reserved
    pending,        \* results consumed since the last checkpoint write
    since,          \* the versions when the forced export started
    jobs, crashes, faults

source == <<world, version>>
staging == <<disk, lastRun, latestInventory, latestExport>>
memory == <<rows, todo, working, answers, taken, pending, since>>
budget == <<jobs, crashes, faults>>
vars == <<source, staging, job, memory, budget>>

Runs == 1..MaxRuns
Stages == {"idle", "inventory", "inventory_pointer", "load", "content", "draining",
           "payload", "index", "manifest", "pointer"}
Names == Stems \X (0..Cardinality(Items))

(* What the files hold, if they are there and whole. *)
Versions == 1..MaxVersion
InvFiles == 1..MaxJobs
ContentFiles == Items \X Versions
Results == [item : Items, status : {"success", "failure", "skipped_oversize"},
            ref : Names \cup {None}, hash : Versions \cup {None}]
Row == [status : Statuses, ref : Names \cup {None}, hash : Versions \cup {None},
        action : Actions]

KeysOf(w) == UNION {{<<i, u.type>> : u \in BuildUnits(w.record[i])} : i \in Items}

OrNot(files) == {NoFile, Torn} \cup files
Ledgers(w) == [inv : OrNot(InvFiles), rows : [KeysOf(w) -> Row]]

(* The markers are no file's content. *)
ASSUME MarkersAssumption ==
    /\ None \notin Nat \cup Names
    /\ \A mark \in {NoFile, Torn} :
          /\ mark \notin ContentFiles
          /\ \A w \in Worlds : /\ mark \notin Ledgers(w)
                                /\ \A K \in SUBSET KeysOf(w) : mark \notin [K -> Row]

NewBundle == [inv |-> NoFile, cp |-> NoFile, content |-> [n \in Names |-> NoFile],
              payload |-> NoFile, index |-> NoFile, manifest |-> NoFile]
Idle == [stage |-> "idle", run |-> None, force |-> FALSE]
NoRows == [k \in {} |-> None]
bundle == disk[job.run]

ForgetMemory ==
    /\ rows' = NoRows /\ todo' = {} /\ working' = {} /\ answers' = {}
    /\ taken' = {} /\ pending' = {} /\ since' = [i \in Items |-> 0]

EndJob == job' = Idle /\ ForgetMemory

Goto(stage) == job' = [job EXCEPT !.stage = stage]

Init ==
    /\ world \in Worlds
    /\ version = [i \in Items |-> 1]
    /\ disk = [r \in Runs |-> NewBundle]
    /\ lastRun = 0
    /\ latestInventory = NoFile /\ latestExport = NoFile
    /\ job = Idle
    /\ rows = NoRows /\ todo = {} /\ working = {} /\ answers = {}
    /\ taken = {} /\ pending = {} /\ since = [i \in Items |-> 0]
    /\ jobs = 0 /\ crashes = 0 /\ faults = 0

(* --- which run a notebook works on ----------------------------------------- *)

Complete(r) == disk[r].manifest # NoFile

(* Only the newest folder is resumed: an older one was abandoned. *)
IncompleteRuns ==
    {r \in 1..lastRun : r = lastRun /\ ~Complete(r) /\ disk[r].cp # NoFile}

(* Defect: the newest folder is taken for a new one. *)
FreshRunsStale == {lastRun}

FreshRuns == {lastRun + 1} \cap Runs

(* An explicit run_id is a widget or the task value of the inventory task. *)
InventoryRuns(explicit, force) ==
    IF explicit # None THEN {explicit}
    ELSE IF ~force /\ IncompleteRuns # {} THEN IncompleteRuns ELSE FreshRuns

ExportRuns(explicit, force) ==
    IF explicit # None THEN {explicit}
    ELSE IF ~force /\ IncompleteRuns # {} THEN IncompleteRuns
    ELSE {latestInventory} \ {NoFile}

StartJob(stage, r, force) ==
    /\ job.stage = "idle" /\ jobs < MaxJobs /\ jobs' = jobs + 1
    /\ job' = [stage |-> stage, run |-> r, force |-> force]
    /\ since' = IF force THEN version ELSE since
    /\ UNCHANGED <<source, disk, latestInventory, latestExport, rows, todo, working,
                   answers, taken, pending, crashes, faults>>

StartInventory ==
    \E explicit \in {None} \cup 1..lastRun, force \in BOOLEAN :
        \E r \in InventoryRuns(explicit, force) :
            /\ StartJob("inventory", r, FALSE)
            /\ lastRun' = IF r > lastRun THEN r ELSE lastRun

StartExport ==
    \E explicit \in {None} \cup 1..lastRun, force \in BOOLEAN :
        \E r \in ExportRuns(explicit, force) :
            StartJob("load", r, force) /\ UNCHANGED lastRun

(* --- 01_Inventory ----------------------------------------------------------- *)

WriteInventory ==
    /\ job.stage = "inventory"
    /\ disk' = [disk EXCEPT ![job.run].inv = jobs]     \* which job collected it
    /\ Goto("inventory_pointer")
    /\ UNCHANGED <<source, lastRun, latestInventory, latestExport, memory, budget>>

(* Best effort: a pointer that cannot be written is a warning. *)
WriteInventoryPointer ==
    /\ job.stage = "inventory_pointer"
    /\ latestInventory' \in {job.run, latestInventory}
    /\ EndJob
    /\ UNCHANGED <<source, disk, lastRun, latestExport, budget>>

(* --- 02_Export: load, build, split ------------------------------------------ *)

UnitKeys == KeysOf(world)
UnitOf(k) == CHOOSE u \in BuildUnits(world.record[k[1]]) : u.type = k[2]

BuiltRow(k) ==
    LET u == UnitOf(k)
        status == InitialStatus(u, ToggledTypes)
    IN  [status |-> status, ref |-> None, hash |-> None,
         action |-> ImportAction(u, ModeStatus(u.mode))]

ContentKeys == {k \in UnitKeys : Fetched(UnitOf(k), ToggledTypes)}
KeyOf(i) == <<i, UnitOf(CHOOSE k \in ContentKeys : k[1] = i).type>>
ContentItems == {k[1] : k \in ContentKeys}

(* The results checkpointed by earlier batches, of this process or a dead one. *)
CheckpointResults(b) == IF b.cp \in {NoFile, Torn} THEN {} ELSE b.cp

(* Defect: force_full_export does not reach the split. *)
ResumedAlways(b, force) == {x.item : x \in CheckpointResults(b)}

Resumed(b, force) == IF force THEN {} ELSE {x.item : x \in CheckpointResults(b)}

(* Defect: the fingerprint of a resumed unit is that of its metadata. *)
ResumedRowNoHash(k, x) ==
    [BuiltRow(k) EXCEPT !.status = x.status, !.ref = x.ref]

ResumedRow(k, x) ==
    [BuiltRow(k) EXCEPT !.status = x.status, !.ref = x.ref, !.hash = x.hash]

LoadFails ==
    \/ bundle.inv \in {NoFile, Torn}
    \/ /\ ContentItems # {}
       /\ bundle.index = Torn \/ (~job.force /\ bundle.cp = Torn)

(* Raised before anything is written. *)
RefuseExport ==
    /\ job.stage = "load" /\ LoadFails
    /\ EndJob
    /\ UNCHANGED <<source, staging, budget>>

Load ==
    /\ job.stage = "load" /\ ~LoadFails
    /\ LET done == Resumed(bundle, job.force)
       IN  /\ todo' = ContentItems \ done
           /\ rows' = [k \in UnitKeys |->
                         IF k \in ContentKeys /\ k[1] \in done
                         THEN ResumedRow(k, CHOOSE x \in CheckpointResults(bundle) : x.item = k[1])
                         ELSE BuiltRow(k)]
    /\ Goto("content")
    /\ UNCHANGED <<source, staging, working, answers, taken, pending, since, budget>>

(* --- the content pass: workers ----------------------------------------------- *)

Fetching == job.stage \in {"content", "draining"}

(* Defect: the set of reserved names is read outside the lock. *)
FreeNameUnlocked(i, used) == <<world.stem[i], 0>>

(* The first free name of the stem: n, n__1, n__2, ... *)
FreeName(i, used) ==
    CHOOSE n \in Names :
        /\ n[1] = world.stem[i] /\ n \notin used
        /\ \A m \in Names : m[1] = world.stem[i] /\ m \notin used => n[2] <= m[2]

(* A worker downloads the bytes, then reserves a name under the lock. *)
Fetch(i) ==
    /\ Fetching /\ i \in todo
    /\ Cardinality(working) < Workers
    /\ todo' = todo \ {i}
    /\ LET name == FreeName(i, taken)
       IN  /\ working' = working \cup {[item |-> i, name |-> name, version |-> version[i]]}
           /\ taken' = taken \cup {name}
    /\ UNCHANGED <<source, staging, job, rows, answers, pending, since, budget>>

Answer(i, status, ref, hash) ==
    [item |-> i, status |-> status, ref |-> ref, hash |-> hash]

(* Too large for the API, or the call failed: no bytes. *)
FetchNothing(i) ==
    /\ Fetching /\ i \in todo
    /\ faults < MaxFaults /\ faults' = faults + 1
    /\ todo' = todo \ {i}
    /\ \E status \in {"failure", "skipped_oversize"} :
           answers' = answers \cup {Answer(i, status, None, None)}
    /\ UNCHANGED <<source, staging, job, rows, working, taken, pending, since, jobs, crashes>>

Written(w) ==
    /\ Fetching /\ w \in working
    /\ working' = working \ {w}
    /\ disk' = [disk EXCEPT ![job.run].content[w.name] = <<w.item, w.version>>]
    /\ answers' = answers \cup {Answer(w.item, "success", w.name, w.version)}
    /\ UNCHANGED <<source, lastRun, latestInventory, latestExport, job, rows, todo,
                   taken, pending, since, budget>>

MayDisturb == job.force => DisturbForced

WriteFails(w) ==
    /\ Fetching /\ w \in working /\ MayDisturb
    /\ faults < MaxFaults /\ faults' = faults + 1
    /\ working' = working \ {w}
    /\ disk' = [disk EXCEPT ![job.run].content[w.name] = Torn]
    /\ answers' = answers \cup {Answer(w.item, "failure", None, None)}
    /\ UNCHANGED <<source, lastRun, latestInventory, latestExport, job, rows, todo,
                   taken, pending, since, jobs, crashes>>

(* --- the content pass: the main thread ---------------------------------------- *)

Produced == {"success", "skipped_oversize"}

(* Defect: the checkpoint is written at the end of the pass only. *)
FlushDueAtEnd == todo = {} /\ working = {} /\ answers = {}

FlushDue == Cardinality(pending) >= Batch \/ (todo = {} /\ working = {} /\ answers = {})

Concluded(row, x) ==
    [row EXCEPT !.status = x.status, !.ref = x.ref,
                !.hash = IF x.hash = None THEN @ ELSE x.hash]

(* In completion order; the batch is written before the next result is taken. *)
Consume(x) ==
    /\ job.stage = "content" /\ x \in answers
    /\ Cardinality(pending) < Batch
    /\ answers' = answers \ {x}
    /\ rows' = [rows EXCEPT ![KeyOf(x.item)] = Concluded(@, x)]
    /\ pending' = IF x.status \in Produced THEN pending \cup {x} ELSE pending
    /\ UNCHANGED <<source, staging, job, todo, working, taken, since, budget>>

MergeResults(old, batch) ==
    {x \in old : \A y \in batch : y.item # x.item} \cup batch

FlushContent ==
    /\ job.stage = "content" /\ pending # {} /\ FlushDue
    /\ bundle.cp # Torn
    /\ disk' = [disk EXCEPT ![job.run].cp = MergeResults(CheckpointResults(bundle), pending)]
    /\ pending' = {}
    /\ UNCHANGED <<source, lastRun, latestInventory, latestExport, job, rows, todo,
                   working, answers, taken, since, budget>>

(* The checkpoint cannot be read: the export raises, the pool is drained first. *)
FlushRaises ==
    /\ job.stage = "content" /\ pending # {} /\ FlushDue
    /\ bundle.cp = Torn
    /\ Goto("draining")
    /\ UNCHANGED <<source, staging, memory, budget>>

Drained ==
    /\ job.stage = "draining" /\ todo = {} /\ working = {}
    /\ EndJob
    /\ UNCHANGED <<source, staging, budget>>

(* Defect: the actions are those announced when the units were built. *)
RefreshedNot(k) == rows[k]

Refreshed(k) == [rows[k] EXCEPT !.action = ImportAction(UnitOf(k), rows[k].status)]

ContentOver ==
    /\ job.stage = "content"
    /\ todo = {} /\ working = {} /\ answers = {} /\ pending = {}
    /\ rows' = [k \in DOMAIN rows |-> Refreshed(k)]
    /\ Goto("payload")
    /\ UNCHANGED <<source, staging, todo, working, answers, taken, pending, since, budget>>

(* --- artifacts, ledger, manifest, pointer --------------------------------------- *)

WritePayload ==
    /\ job.stage = "payload"
    /\ disk' = [disk EXCEPT ![job.run].payload =
                  [k \in {k \in DOMAIN rows : InArtifactFile(UnitOf(k), rows[k].status)}
                     |-> rows[k]]]
    /\ Goto("index")
    /\ UNCHANGED <<source, lastRun, latestInventory, latestExport, memory, budget>>

WriteIndex ==
    /\ job.stage = "index"
    /\ disk' = [disk EXCEPT ![job.run].index = [inv |-> bundle.inv, rows |-> rows]]
    /\ Goto("manifest")
    /\ UNCHANGED <<source, lastRun, latestInventory, latestExport, memory, budget>>

(* A checksum of every file there is, except those a later stage writes again. *)
Checksums(b) == [inv |-> b.inv, content |-> b.content, payload |-> b.payload,
                 index |-> b.index]

WriteManifest ==
    /\ job.stage = "manifest"
    /\ disk' = [disk EXCEPT ![job.run].manifest = Checksums(bundle)]
    /\ Goto("pointer")
    /\ UNCHANGED <<source, lastRun, latestInventory, latestExport, memory, budget>>

WriteExportPointer ==
    /\ job.stage = "pointer"
    /\ latestExport' \in {[run |-> job.run, checksum |-> bundle.manifest], latestExport}
    /\ EndJob
    /\ UNCHANGED <<source, disk, lastRun, latestInventory, budget>>

(* --- the world around the notebooks ----------------------------------------------- *)

Edit(i) ==
    /\ version[i] < MaxVersion /\ i \in Edited \cap ContentItems
    /\ version' = [version EXCEPT ![i] = @ + 1]
    /\ UNCHANGED <<world, staging, job, memory, budget>>

(* The file the main thread may be in the middle of writing. *)
TornBundle(b) ==
    CASE job.stage = "inventory" -> {[b EXCEPT !.inv = Torn]}
      [] job.stage = "content" /\ pending # {} /\ FlushDue -> {[b EXCEPT !.cp = Torn]}
      [] job.stage = "payload"   -> {[b EXCEPT !.payload = Torn]}
      [] job.stage = "index"     -> {[b EXCEPT !.index = Torn]}
      [] job.stage = "manifest"  -> {[b EXCEPT !.manifest = Torn]}
      [] OTHER                   -> {}

(* And the content files that workers may be in the middle of writing. *)
TornContent(b, ws) ==
    [b EXCEPT !.content = [n \in Names |-> IF \E w \in ws : w.name = n THEN Torn ELSE @[n]]]

Crash ==
    /\ job.stage # "idle" /\ MayDisturb
    /\ crashes < MaxCrashes /\ crashes' = crashes + 1
    /\ \E b \in {bundle} \cup TornBundle(bundle), ws \in SUBSET working :
           disk' = [disk EXCEPT ![job.run] = TornContent(b, ws)]
    /\ latestInventory' \in {latestInventory}
         \cup (IF job.stage = "inventory_pointer" THEN {NoFile} ELSE {})   \* garbled = absent
    /\ latestExport' \in {latestExport}
         \cup (IF job.stage = "pointer" THEN {NoFile} ELSE {})
    /\ EndJob
    /\ UNCHANGED <<source, lastRun, jobs, faults>>

WorkerStep ==
    \/ \E i \in Items : Fetch(i) \/ FetchNothing(i)
    \/ \E w \in working : Written(w) \/ WriteFails(w)

MainStep ==
    \/ WriteInventory \/ WriteInventoryPointer
    \/ RefuseExport \/ Load
    \/ \E x \in answers : Consume(x)
    \/ FlushContent \/ FlushRaises \/ Drained \/ ContentOver
    \/ WritePayload \/ WriteIndex \/ WriteManifest \/ WriteExportPointer

Next ==
    \/ StartInventory \/ StartExport
    \/ WorkerStep \/ MainStep
    \/ \E i \in Items : Edit(i)
    \/ Crash

(* The interpreter runs the main thread and every worker of a live process. *)
Fairness == WF_vars(MainStep) /\ WF_vars(WorkerStep)

Spec == Init /\ [][Next]_vars /\ Fairness

(* --- what import makes of a bundle --------------------------------------------- *)

Whole(file) == file \notin {NoFile, Torn}

(* Every file of the manifest is there with its checksum. *)
Verified(r) ==
    LET b == disk[r]
        m == b.manifest
    IN  /\ Whole(m)
        /\ b.inv = m.inv /\ b.payload = m.payload /\ b.index = m.index
        /\ \A n \in Names : m.content[n] # NoFile => b.content[n] = m.content[n]

(* --- properties ------------------------------------------------------------------ *)

ExportTypeOK ==
    /\ world \in Worlds /\ version \in [Items -> Versions]
    /\ \A r \in Runs :
          /\ disk[r].inv \in OrNot(InvFiles) /\ disk[r].cp \in OrNot(SUBSET Results)
          /\ disk[r].content \in [Names -> OrNot(ContentFiles)]
          /\ disk[r].index \in OrNot(Ledgers(world))
    /\ lastRun \in 0..MaxRuns
    /\ latestInventory \in Runs \cup {NoFile}
    /\ job \in [stage : Stages, run : Runs \cup {None}, force : BOOLEAN]
    /\ DOMAIN rows \in {{}, UnitKeys} /\ \A k \in DOMAIN rows : rows[k] \in Row
    /\ todo \subseteq ContentItems /\ taken \subseteq Names
    /\ working \subseteq [item : ContentItems, name : Names, version : Versions]
    /\ answers \cup pending \subseteq Results
    /\ Cardinality(working) <= Workers /\ Cardinality(pending) <= Batch
    /\ \A x \in answers \cup pending : x.item \in ContentItems
    /\ since \in [Items -> Versions \cup {0}]

OwnStem(i) == \A j \in Items \ {i} : world.stem[j] # world.stem[i]

ContentOf(b, k) ==
    LET row == b.index.rows[k]
    IN  row.status = "success" /\ k \in ContentKeys
          => b.content[row.ref] = <<k[1], row.hash>>

(* A bundle whose manifest verifies is one whole export: its ledger was made from
   the inventory beside it, its payload files agree with the ledger, and each
   content file holds the very bytes whose hash the ledger has (of units whose
   file name no other unit wants: see ContentIsItsOwn).  Whatever died, was
   resumed, run again or edited in between.                                    *)
AcceptedBundleIsWhole ==
    \A r \in Runs : Verified(r) =>
        LET b == disk[r]
        IN  /\ Whole(b.index) /\ Whole(b.payload)
            /\ b.index.inv = b.inv
            /\ \A k \in DOMAIN b.payload : b.payload[k] = b.index.rows[k]
            /\ \A k \in DOMAIN b.index.rows : OwnStem(k[1]) => ContentOf(b, k)

(* What the ledger of an accepted bundle announces import will do itself, it can
   do: the unit (or the membership unit beside a built-in group) has its payload
   in an artifact file, and its bytes when they are to be uploaded.  Toggles and
   fetches change a unit's status after its action was first derived.           *)
AdvertisedWorkIsInTheBundle ==
    \A r \in Runs : Verified(r) =>
        \A k \in DOMAIN disk[r].index.rows :
            LET row == disk[r].index.rows[k]
            IN  row.action \in Performed =>
                    /\ {k, <<k[1], "group_membership">>} \cap DOMAIN disk[r].payload # {}
                    /\ row.action = "create_and_upload" => row.ref # None

(* Worker threads of one process never write two objects to one file, although
   different paths may be mangled to one name.                                 *)
OneProcessKeepsNamesApart ==
    LET fetched == {<<w.item, w.name>> : w \in working}
                     \cup {<<x.item, x.ref>> : x \in {x \in answers \cup pending : x.ref # None}}
    IN  \A f, g \in fetched : f[2] = g[2] => f = g

(* A forced export has fetched every byte it records itself: nothing older than
   the job is left in the ledger it writes.                                    *)
ForcedExportIsFresh ==
    job.force /\ job.stage = "index" =>
        \A k \in ContentKeys : rows[k].status = "success" => rows[k].hash >= since[k[1]]

(* Every notebook run ends, whatever fails and whatever it finds in the folder. *)
ExportTerminates == (job.stage # "idle") ~> (job.stage = "idle")

(* The docstring of mangle_path: "a numeric suffix keeps them distinct".  An
   accepted bundle never holds one object's bytes under another object's name:
   false when a resumed export does not know the names taken before (AlikeOnly). *)
ContentIsItsOwn ==
    \A r \in Runs : Verified(r) =>
        \A k \in DOMAIN disk[r].index.rows : ContentOf(disk[r], k)
===============================================================================
