----------------------------- MODULE ImportEngine -----------------------------
(* One family of assets imported by src/importers/base_importer.py under
   src/importers/import_runner.py, with the state table (StateStore), the
   checkpoint file of the bundle's folder, the target workspace and the operator.

   A run opens the state table, replays the checkpoint, and takes each unit of the
   bundle through "decide, act, record, checkpoint"; the four are steps of their
   own, because a process may die between any two of them.  What the operator and
   other people do (export a new bundle, edit the target by hand, kill the
   process) happens between any two steps as well.

   A unit is <<asset type, natural key>>.  Its row in the state table is keyed by
   both; its checkpoint entry and its place in the existence map are keyed by the
   natural key alone.                                                         *)
EXTENDS StateStore, FiniteSets

CONSTANTS
    Units,             \* every unit some bundle may hold
    ManualUnits,       \* import_action manual / review_required
    SkippedUnits,      \* dab_redeploy, skip_generated, platform-internal
    InternalUnits,     \* the platform-internal ones among them
    DeclarativeUnits,  \* members applied to an object that is always there
    DependentUnits,    \* their call raises SkippedNoObject until another object exists
    ReconcileUnits,    \* an adopted object is compared and corrected
    WarnedUnits,       \* create and update succeed with a warning
    UniqueUnits,       \* the platform refuses a second object of that name
    PreExisting,       \* sequence of units whose object the target has at first
    RunSettings,       \* [mode, retry, force, selected] of the runs started
    CheckpointBatch,   \* CHECKPOINT_BATCH
    MaxCrashes, MaxInterrupts, MaxApiFailures, MaxHandEdits,   \* bounds
    AnswersMayBeLost,  \* a failed call may have taken effect on the target
    ListingMayFail,    \* existing_keys() may raise
    DiskMayFail,       \* a MERGE or a checkpoint write may raise
    ReimportFirst      \* a run cut short is run again before the next export

ASSUME KeysAssumption == Keys = {"live", "dry"} \X Units
ASSUME SettingsAssumption ==
    RunSettings \subseteq [mode : {"live", "dry"}, retry : RetryModes,
                           force : BOOLEAN, selected : BOOLEAN]
ASSUME UnitsAssumption ==
    /\ \A us \in {ManualUnits, SkippedUnits, DeclarativeUnits, DependentUnits,
                  ReconcileUnits, WarnedUnits, UniqueUnits} : us \subseteq Units
    /\ InternalUnits \subseteq SkippedUnits
    /\ DeclarativeUnits \cap ReconcileUnits = {}
    /\ PreExisting \in Seq(Units)
ASSUME BundleAssumption == RunIds = 1..Cardinality(RunIds)

Name(u) == u[2]
Names == {Name(u) : u \in Units}
ByHand == "by hand"

(* An object of the target, an outcome being recorded, an entry of the checkpoint. *)
Object == [unit : Units, content : Fingerprints \cup {ByHand},
           maker : {"tool", "hand"}, live : BOOLEAN]
Conclusion == [unit : Units, status : LastActions, target : TargetIds \cup {Blank},
               saved : BOOLEAN]
Outcome == [unit : Units, status : LastActions, target : TargetIds \cup {Blank},
            fp : Fingerprints \cup {Blank}]

ASSUME ByHandAssumption == ByHand \notin Fingerprints
ASSUME NothingAssumption == NoRow \notin Object \cup Conclusion \cup Outcome

VARIABLES
    bundle,        \* unit -> fingerprint, Blank for a unit the bundle lacks
    bundleId,      \* the run_id of the bundle's folder
    objects,       \* id -> [unit, content, maker, live], NoRow for an id not yet given out
    checkpoint,    \* natural key -> outcome, as written in checkpoint.json
    garbled,       \* checkpoint.json does not parse
    hosts,         \* dependent units whose object exists on the target
    \* the running process
    pc, run, todo,
    existing,      \* natural key -> id, listed at the start of the phase
    retryKeys,     \* the work list of a retry
    current,       \* the outcome being recorded
    cpPending,     \* natural key -> outcome, not yet written to the checkpoint
    interrupted,   \* a KeyboardInterrupt is unwinding the run
    runStatus,
    \* history
    crashes, interrupts, apiFailures, handEdits,
    cutShort       \* a live run died or did not save, and no full run followed

target == <<objects, apiFailures>>
disk == <<checkpoint, garbled>>
process == <<run, existing, retryKeys, interrupted, runStatus>>
world == <<bundle, bundleId, hosts, crashes, interrupts, handEdits, cutShort>>
vars == <<storeVars, target, disk, process, world, pc, todo, current, cpPending>>

(* Defect: a rehearsal shares the live table. *)
StateKeyShared(u) == <<"live", u>>

StateKey(u) == <<run.mode, u>>
Fp(u) == bundle[u]
InBundle == {u \in Units : bundle[u] # Blank}
NoOutcomes == [n \in Names |-> NoRow]
NothingListed == [n \in Names |-> Blank]

Live(id) == objects[id] # NoRow /\ objects[id].live
LiveIds(us) == {id \in TargetIds : Live(id) /\ objects[id].unit \in us}
Named(n) == {u \in Units : Name(u) = n}

NoOutcome == NoRow

(* --- starting a run ------------------------------------------------------- *)

(* 04_Import: the gates passed, the state tables are loaded. *)
StartRun(settings) ==
    /\ pc = "idle"
    /\ Open(bundleId)
    /\ run' = settings
    /\ runStatus' = "running"
    /\ todo' = IF garbled THEN {} ELSE {n \in Names : checkpoint[n] # NoRow}
    /\ pc' = "replay"
    /\ UNCHANGED <<target, disk, world, existing, retryKeys, interrupted, current,
                   cpPending>>

(* recovery_replay(): an outcome already in the table for this run is passed
   over; a `failed` outcome is replayed with the fingerprint the checkpoint
   holds, which is always the unit's.                                         *)
Replay(n) ==
    LET out == checkpoint[n]
        key == StateKey(out.unit)
    IN /\ pc = "replay" /\ n \in todo
       /\ todo' = todo \ {n}
       /\ IF cache[key] # NoRow /\ cache[key].run = runId
          THEN UNCHANGED storeVars
          ELSE Record(key, out.status, out.fp, out.target)
       /\ UNCHANGED <<target, disk, process, world, pc, current, cpPending>>

(* "if replayed: self.flush()"; then the selection decides what follows. *)
ReplayDone ==
    /\ pc = "replay" /\ todo = {}
    /\ Flush
    /\ pc' = IF run.selected THEN "list" ELSE "defer"
    /\ todo' = InBundle
    /\ UNCHANGED <<target, disk, process, world, current, cpPending>>

(* Defect: only units that have a row already are recorded as deferred. *)
DeferKnown(u) ==
    /\ pc = "defer" /\ u \in todo
    /\ todo' = todo \ {u}
    /\ IF cache[StateKey(u)] = NoRow THEN UNCHANGED storeVars
       ELSE Record(StateKey(u), "not_selected", Fp(u), Blank)
    /\ UNCHANGED <<target, disk, process, world, pc, current, cpPending>>

(* _record_not_selected(): never over a real outcome. *)
Defer(u) ==
    /\ pc = "defer" /\ u \in todo
    /\ todo' = todo \ {u}
    /\ IF cache[StateKey(u)] # NoRow /\ cache[StateKey(u)].action # "not_selected"
       THEN UNCHANGED storeVars
       ELSE Record(StateKey(u), "not_selected", Fp(u), Blank)
    /\ UNCHANGED <<target, disk, process, world, pc, current, cpPending>>

DeferDone ==
    /\ pc = "defer" /\ todo = {}
    /\ Flush
    /\ pc' = "final"
    /\ UNCHANGED <<target, disk, process, world, todo, current, cpPending>>

(* --- one phase ------------------------------------------------------------ *)

(* Defect: the listing forgets which name an id belongs to. *)
ListingsMixed ==
    {f \in [Names -> TargetIds \cup {Blank}] :
        \A n \in Names : IF LiveIds(Named(n)) = {} THEN f[n] = Blank
                         ELSE f[n] \in LiveIds(Units)}

(* existing_keys(): one name maps to one id, whichever the listing kept.  A
   failed listing leaves an empty map and the phase goes on.                  *)
Listings ==
    {f \in [Names -> TargetIds \cup {Blank}] :
        \A n \in Names : IF LiveIds(Named(n)) = {} THEN f[n] = Blank
                         ELSE f[n] \in LiveIds(Named(n))}

List ==
    /\ pc = "list"
    /\ existing' \in Listings \cup (IF ListingMayFail THEN {NothingListed} ELSE {})
    /\ retryKeys' = RetryKeys(run.retry)
    /\ pc' = "units"
    /\ UNCHANGED <<storeVars, target, disk, world, run, interrupted, runStatus,
                   todo, current, cpPending>>

Exists(u) == existing[Name(u)] # Blank

(* in_work_list() *)
InWorkList(u) == run.retry = "off" \/ StateKey(u) \in retryKeys

(* _record() is entered with this outcome; `saved` says whether it goes to the
   checkpoint (a resumed or rehearsed one does not).                          *)
Conclude(u, status, id, saved) ==
    /\ current' = [unit |-> u, status |-> status, target |-> id, saved |-> saved]
    /\ pc' = "record"

Concluded(u, status, id) == Conclude(u, status, id, TRUE)

Taking(u) == pc = "units" /\ u \in todo /\ todo' = todo \ {u}

UnitFrame == UNCHANGED <<storeVars, disk, process, world, cpPending>>

(* Step 0: the retry did not ask for this unit. *)
OutOfScope(u) ==
    /\ Taking(u)
    /\ ~InWorkList(u)
    /\ UNCHANGED <<target, pc, current>>
    /\ UnitFrame

(* Steps 1 and 2: the bundle says that nothing is to be attempted. *)
NotAttempted(u) ==
    /\ Taking(u)
    /\ InWorkList(u)
    /\ u \in ManualUnits \cup SkippedUnits
    /\ Concluded(u, IF u \in ManualUnits THEN "manual" ELSE "skipped", Blank)
    /\ UNCHANGED target
    /\ UnitFrame

Attempted(u) == InWorkList(u) /\ u \notin ManualUnits \cup SkippedUnits

(* Step 3: without force or a retry, what the checkpoint says is done is done. *)
MayResume == ~run.force /\ run.retry = "off"

(* Defect: a unit whose object was missing counts as done. *)
ResumableAlways(u) == MayResume /\ checkpoint[Name(u)] # NoRow

Resumable(u) ==
    /\ MayResume
    /\ checkpoint[Name(u)] # NoRow
    /\ checkpoint[Name(u)].status # "skipped_no_object"

Resume(u) ==
    /\ Taking(u)
    /\ Attempted(u)
    /\ ~garbled
    /\ Resumable(u)
    /\ Conclude(u, checkpoint[Name(u)].status, checkpoint[Name(u)].target, FALSE)
    /\ UNCHANGED target
    /\ UnitFrame

(* get_results() raises on a garbled checkpoint: run() records the unit failed. *)
CheckpointUnreadable(u) ==
    /\ Taking(u)
    /\ Attempted(u)
    /\ garbled
    /\ MayResume
    /\ Concluded(u, "failed", Blank)
    /\ UNCHANGED target
    /\ UnitFrame

(* Step 4: the decision. *)
Decision(u) == Decide(cache[StateKey(u)], Fp(u), Exists(u))

Decided(u, action) ==
    /\ Taking(u)
    /\ Attempted(u)
    /\ IF garbled THEN ~MayResume ELSE ~Resumable(u)
    /\ Decision(u) = action
    /\ UnitFrame

Unchanged(u) ==
    /\ Decided(u, "SKIP")
    /\ Concluded(u, "skipped", existing[Name(u)])
    /\ UNCHANGED target

DryStatus(action) ==
    CASE action = "CREATE" -> "created"
      [] action = "UPDATE" -> "updated"
      [] action = "ADOPT" -> "adopted"

(* A rehearsal makes the real decision and stops there. *)
Rehearse(u, action) ==
    /\ run.mode = "dry"
    /\ Decided(u, action)
    /\ Conclude(u, DryStatus(action), existing[Name(u)], FALSE)
    /\ UNCHANGED target

(* --- calls to the target -------------------------------------------------- *)

(* Defect: an outcome that no retry bucket knows. *)
DoneUnknown(u, status) == "done"

Done(u, status) == IF u \in WarnedUnits THEN "created_with_warning" ELSE status

Contents(id, fp) == [objects EXCEPT ![id].content = fp]

(* A call that raises: no effect, or the effect with its answer lost. *)
CallFails(effect) ==
    /\ apiFailures < MaxApiFailures
    /\ apiFailures' = apiFailures + 1
    /\ objects' \in {objects} \cup (IF AnswersMayBeLost THEN {effect} ELSE {})

(* _do_update() against the id it is given; also adopt_one() and create_one()
   of a declarative unit, which write to an object that is already there.      *)
Apply(u, id, status) ==
    \/ /\ Live(id)
       /\ objects' = Contents(id, Fp(u))
       /\ Concluded(u, Done(u, status), id)
       /\ UNCHANGED apiFailures
    \/ /\ Live(id)
       /\ CallFails(Contents(id, Fp(u)))
       /\ Concluded(u, "failed", id)
    \/ /\ ~Live(id)
       /\ Concluded(u, "failed", id)
       /\ UNCHANGED target

UpdateInPlace(u, id) ==
    IF id = Blank
    THEN Concluded(u, "failed", Blank) /\ UNCHANGED target
    ELSE Apply(u, id, "updated")

(* UPDATE edits the stored id, and the listed one only when none is stored. *)
Update(u) ==
    /\ run.mode = "live"
    /\ Decided(u, "UPDATE")
    /\ UpdateInPlace(u, OrElse(TargetOf(cache[StateKey(u)]), existing[Name(u)]))

(* Defect: finding the object is taken for the work itself. *)
AdoptAsFound(u) ==
    /\ run.mode = "live"
    /\ Decided(u, "ADOPT")
    /\ Concluded(u, "adopted", existing[Name(u)])
    /\ UNCHANGED target

(* ADOPT is decided only for a unit without a row, so there is no fingerprint to
   compare: the object is taken as it is, unless its type says otherwise.      *)
Adopt(u) ==
    LET id == existing[Name(u)] IN
    /\ run.mode = "live"
    /\ Decided(u, "ADOPT")
    /\ \/ /\ u \in DeclarativeUnits
          /\ Apply(u, id, "created")
       \/ /\ u \in ReconcileUnits
          /\ Apply(u, id, IF Live(id) /\ objects[id].content # Fp(u)
                          THEN "updated" ELSE "adopted")
       \/ /\ u \notin DeclarativeUnits \cup ReconcileUnits
          /\ Concluded(u, "adopted", id)
          /\ UNCHANGED target

NewObject(u, id) ==
    [objects EXCEPT ![id] = [unit |-> u, content |-> Fp(u), maker |-> "tool", live |-> TRUE]]

(* Ids are never given out twice; the next one is the smallest unused. *)
FreshId(id) == /\ objects[id] = NoRow
               /\ \A i \in TargetIds : objects[i] = NoRow => id <= i

Refused(u) == u \in UniqueUnits /\ LiveIds({u}) # {}

(* SkippedNoObject: what the unit attaches to is not there yet. *)
NoObject(u) == u \in DependentUnits \ hosts

Create(u) ==
    /\ run.mode = "live"
    /\ Decided(u, "CREATE")
    /\ u \notin DeclarativeUnits
    /\ ~NoObject(u)
    /\ ~Refused(u)
    /\ \E id \in TargetIds :
          /\ FreshId(id)
          /\ \/ /\ objects' = NewObject(u, id)
                /\ Concluded(u, Done(u, "created"), id)
                /\ UNCHANGED apiFailures
             \/ /\ CallFails(NewObject(u, id))
                /\ Concluded(u, "failed", Blank)

(* Defect: what exists is adopted even when the source has moved on. *)
AlreadyExistsAdopts(u) ==
    /\ run.mode = "live"
    /\ Decided(u, "CREATE")
    /\ u \notin DeclarativeUnits
    /\ ~NoObject(u)
    /\ Refused(u)
    /\ Concluded(u, "adopted", OrElse(existing[Name(u)], TargetOf(cache[StateKey(u)])))
    /\ UNCHANGED target

(* RESOURCE_ALREADY_EXISTS: adopt, or update when the row says it is stale. *)
AlreadyExists(u) ==
    LET row == cache[StateKey(u)]
        id == OrElse(existing[Name(u)], TargetOf(row))
    IN /\ run.mode = "live"
       /\ Decided(u, "CREATE")
       /\ u \notin DeclarativeUnits
       /\ ~NoObject(u)
       /\ Refused(u)
       /\ IF id # Blank /\ FingerprintOf(row) \notin {Blank, Fp(u)}
          THEN UpdateInPlace(u, id)
          ELSE Concluded(u, "adopted", id) /\ UNCHANGED target

(* A declarative unit makes no object: it writes to the one that is there. *)
CreateDeclarative(u) ==
    /\ run.mode = "live"
    /\ Decided(u, "CREATE")
    /\ u \in DeclarativeUnits
    /\ \E id \in LiveIds({u}) : Apply(u, id, "created")

CreateNoObject(u) ==
    /\ run.mode = "live"
    /\ Decided(u, "CREATE")
    /\ NoObject(u)
    /\ Concluded(u, "skipped_no_object", Blank)
    /\ UNCHANGED target

(* --- recording ------------------------------------------------------------ *)

(* Defect: a failure advances the stored fingerprint. *)
RecordStateAdvancing ==
    LET u == current.unit IN
    /\ pc = "record"
    /\ Record(StateKey(u), current.status, Fp(u), current.target)
    /\ pc' = IF current.saved THEN "checkpoint" ELSE "units"
    /\ current' = IF current.saved THEN current ELSE NoOutcome
    /\ UNCHANGED <<target, disk, process, world, todo, cpPending>>

(* _record(), first half: the state row.  A failure passes no fingerprint. *)
RecordState ==
    LET u == current.unit IN
    /\ pc = "record"
    /\ Record(StateKey(u), current.status,
              IF current.status = "failed" THEN Blank ELSE Fp(u), current.target)
    /\ pc' = IF current.saved THEN "checkpoint" ELSE "units"
    /\ current' = IF current.saved THEN current ELSE NoOutcome
    /\ UNCHANGED <<target, disk, process, world, todo, cpPending>>

Overlay(base, over) == [n \in Names |-> IF over[n] # NoRow THEN over[n] ELSE base[n]]

(* flush_checkpoint(): one rewrite of the file.  A write that raises, or a file
   that no longer parses, costs the batch: it is dropped with a warning.       *)
WriteCheckpoint(batch) ==
    /\ cpPending' = NoOutcomes
    /\ \/ /\ ~garbled
          /\ checkpoint' = Overlay(checkpoint, batch)
       \/ /\ garbled \/ DiskMayFail
          /\ UNCHANGED checkpoint
    /\ UNCHANGED garbled

BatchOf(pendingOutcomes) == {n \in Names : pendingOutcomes[n] # NoRow}

(* _record(), second half: the checkpoint entry, with the unit's fingerprint
   whatever the outcome.  The timer may ask for a write before the batch is full. *)
RecordCheckpoint ==
    LET u == current.unit
        entry == [unit |-> u, status |-> current.status,
                  target |-> current.target, fp |-> Fp(u)]
        batch == [cpPending EXCEPT ![Name(u)] = entry]
    IN /\ pc = "checkpoint"
       /\ \/ WriteCheckpoint(batch)
          \/ /\ Cardinality(BatchOf(batch)) < CheckpointBatch
             /\ cpPending' = batch
             /\ UNCHANGED disk
       /\ pc' = "units"
       /\ current' = NoOutcome
       /\ UNCHANGED <<storeVars, target, process, world, todo>>

PhaseOver == pc = "units" /\ (todo = {} \/ interrupted)

(* The end of run(): the checkpoint first, the state table after it. *)
FlushCheckpoint ==
    /\ PhaseOver
    /\ IF BatchOf(cpPending) = {} THEN UNCHANGED <<cpPending, disk>>
       ELSE WriteCheckpoint(cpPending)
    /\ pc' = "flush"
    /\ UNCHANGED <<storeVars, target, process, world, todo, current>>

(* Defect: the phase waits until its rows are saved. *)
FlushPhaseUntilSaved ==
    /\ pc = "flush"
    /\ Flush
    /\ pc' = IF flushFailed' THEN "flush" ELSE IF interrupted THEN "final" ELSE "missing"
    /\ todo' = IF interrupted \/ InBundle = {} THEN {} ELSE Units \ InBundle
    /\ UNCHANGED <<target, disk, process, world, current, cpPending>>

FlushPhase ==
    /\ pc = "flush"
    /\ Flush
    /\ pc' = IF interrupted THEN "final" ELSE "missing"
    /\ todo' = IF interrupted \/ InBundle = {} THEN {} ELSE Units \ InBundle
    /\ UNCHANGED <<target, disk, process, world, current, cpPending>>

(* mark_missing_in_source(): reported in the row, nothing is deleted. *)
MarkMissing(u) ==
    /\ pc = "missing" /\ u \in todo
    /\ todo' = todo \ {u}
    /\ IF \/ cache[StateKey(u)] = NoRow
          \/ cache[StateKey(u)].action = "deleted_in_source"
          \/ u \in InternalUnits
       THEN UNCHANGED storeVars
       ELSE Record(StateKey(u), "deleted_in_source", Blank, Blank)
    /\ UNCHANGED <<target, disk, process, world, pc, current, cpPending>>

MissingDone ==
    /\ pc = "missing" /\ todo = {}
    /\ IF \E u \in Units : cache[StateKey(u)] # NoRow
              /\ cache[StateKey(u)].action = "deleted_in_source"
              /\ cache[StateKey(u)].run = runId
       THEN Flush ELSE UNCHANGED storeVars
    /\ pc' = "final"
    /\ UNCHANGED <<target, disk, process, world, todo, current, cpPending>>

(* The run's `finally`: the last flush decides the run's status. *)
FinalFlush ==
    /\ pc = "final"
    /\ Flush
    /\ runStatus' = IF flushFailed' THEN "completed_state_not_saved" ELSE "completed"
    /\ pc' = "exit"
    /\ UNCHANGED <<target, disk, world, run, existing, retryKeys, interrupted,
                   todo, current, cpPending>>

(* A live run over the whole bundle, without a failure, makes up for one that was
   cut short.                                                                 *)
FullRun == run.mode = "live" /\ run.retry = "off" /\ run.selected
CompletedFullRun == pc = "exit" /\ runStatus = "completed" /\ ~interrupted /\ FullRun
NothingFailed == \A u \in InBundle : cache[StateKey(u)].action # "failed"
CutShort == cutShort \/ run.mode = "live"

ForgetProcess ==
    /\ pc' = "idle"
    /\ todo' = {}
    /\ existing' = NothingListed
    /\ retryKeys' = {}
    /\ current' = NoOutcome
    /\ cpPending' = NoOutcomes
    /\ interrupted' = FALSE
    /\ runStatus' = "none"
    /\ UNCHANGED run

Exit ==
    /\ pc = "exit"
    /\ Stop
    /\ ForgetProcess
    /\ cutShort' = IF interrupted \/ runStatus # "completed" THEN CutShort
                   ELSE cutShort /\ ~(FullRun /\ NothingFailed)
    /\ UNCHANGED <<target, disk, bundle, bundleId, hosts, crashes, interrupts, handEdits>>

(* --- the environment ------------------------------------------------------ *)

(* The process dies; dying inside a checkpoint write may garble the file, which
   is opened for writing (and truncated) before its new text is written.       *)
Crash ==
    /\ pc # "idle"
    /\ crashes < MaxCrashes
    /\ crashes' = crashes + 1
    /\ Stop
    /\ ForgetProcess
    /\ garbled' \in {garbled} \cup
          (IF pc = "checkpoint" \/ (PhaseOver /\ BatchOf(cpPending) # {})
           THEN {TRUE} ELSE {})
    /\ cutShort' = CutShort
    /\ UNCHANGED <<target, checkpoint, bundle, bundleId, hosts, interrupts, handEdits>>

InPhase == {"units", "record", "checkpoint"}

(* A cancelled job raises KeyboardInterrupt, which no `except Exception` catches:
   only the `finally` clauses run.                                            *)
Interrupt ==
    /\ pc \in {"replay", "defer", "list"} \cup InPhase /\ ~interrupted
    /\ interrupts < MaxInterrupts
    /\ interrupts' = interrupts + 1
    /\ interrupted' = TRUE
    /\ pc' = IF pc \in InPhase THEN "units" ELSE "final"
    /\ current' = NoOutcome
    /\ UNCHANGED <<storeVars, target, disk, run, existing, retryKeys, runStatus,
                   bundle, bundleId, hosts, crashes, handEdits, cutShort, todo,
                   cpPending>>

(* Defect: the checkpoint outlives the bundle it belongs to. *)
NewBundleOldCheckpoint ==
    /\ pc = "idle"
    /\ bundleId + 1 \in RunIds
    /\ ReimportFirst => ~cutShort
    /\ bundleId' = bundleId + 1
    /\ bundle' \in [Units -> Fingerprints \cup {Blank}]
    /\ UNCHANGED <<storeVars, target, disk, process, hosts, crashes, interrupts,
                   handEdits, cutShort, pc, todo, current, cpPending>>

(* 01_Inventory and 02_Export write the next bundle into a folder of its own. *)
NewBundle ==
    /\ pc = "idle"
    /\ bundleId + 1 \in RunIds
    /\ ReimportFirst => ~cutShort
    /\ bundleId' = bundleId + 1
    /\ bundle' \in [Units -> Fingerprints \cup {Blank}]
    /\ checkpoint' = NoOutcomes
    /\ garbled' = FALSE
    /\ UNCHANGED <<storeVars, target, process, hosts, crashes, interrupts,
                   handEdits, cutShort, pc, todo, current, cpPending>>

HandMade(u) == [unit |-> u, content |-> ByHand, maker |-> "hand", live |-> TRUE]

HandEdit ==
    /\ handEdits < MaxHandEdits
    /\ handEdits' = handEdits + 1
    /\ \/ \E id \in TargetIds :
            /\ Live(id)
            /\ objects[id].unit \notin DeclarativeUnits
            /\ objects' = [objects EXCEPT ![id].live = FALSE]
       \/ \E u \in Units, id \in TargetIds :
            /\ LiveIds({u}) = {}
            /\ FreshId(id)
            /\ objects' = [objects EXCEPT ![id] = HandMade(u)]
    /\ UNCHANGED <<storeVars, apiFailures, disk, process, bundle, bundleId, hosts,
                   crashes, interrupts, cutShort, pc, todo, current, cpPending>>

(* Another family, another run or a person makes what a dependent unit needs. *)
HostAppears(u) ==
    /\ pc = "idle"
    /\ NoObject(u)
    /\ hosts' = hosts \cup {u}
    /\ UNCHANGED <<storeVars, target, disk, process, bundle, bundleId, crashes,
                   interrupts, handEdits, cutShort, pc, todo, current, cpPending>>

TimePasses ==
    /\ FlushSecondsPass
    /\ UNCHANGED <<target, disk, process, world, pc, todo, current, cpPending>>

(* --- specification -------------------------------------------------------- *)

Init ==
    /\ StoreInit
    /\ runId = 1
    /\ bundle \in [Units -> Fingerprints \cup {Blank}]
    /\ bundleId = 1
    /\ objects = [id \in TargetIds |-> IF id \in DOMAIN PreExisting
                                      THEN HandMade(PreExisting[id]) ELSE NoRow]
    /\ hosts = {}
    /\ checkpoint = NoOutcomes /\ garbled = FALSE
    /\ pc = "idle" /\ todo = {}
    /\ run \in RunSettings
    /\ existing = NothingListed /\ retryKeys = {}
    /\ current = NoOutcome /\ cpPending = NoOutcomes
    /\ interrupted = FALSE /\ runStatus = "none"
    /\ crashes = 0 /\ interrupts = 0 /\ apiFailures = 0 /\ handEdits = 0
    /\ cutShort = FALSE

ProcessUnit(u) ==
    /\ ~interrupted
    /\ \/ OutOfScope(u) \/ NotAttempted(u)
       \/ Resume(u) \/ CheckpointUnreadable(u)
       \/ Unchanged(u)
       \/ \E action \in {"CREATE", "UPDATE", "ADOPT"} : Rehearse(u, action)
       \/ Update(u) \/ Adopt(u)
       \/ Create(u) \/ AlreadyExists(u) \/ CreateDeclarative(u) \/ CreateNoObject(u)

(* What the process itself does once it has been started. *)
RunStep ==
    /\ \/ \E n \in Names : Replay(n)
       \/ ReplayDone
       \/ \E u \in Units : Defer(u) \/ ProcessUnit(u) \/ MarkMissing(u)
       \/ DeferDone \/ List
       \/ RecordState \/ RecordCheckpoint
       \/ FlushCheckpoint \/ FlushPhase \/ MissingDone \/ FinalFlush \/ Exit
    /\ DiskMayFail \/ ~flushFailed'

Environment ==
    \/ \E settings \in RunSettings : StartRun(settings)
    \/ \E u \in Units : HostAppears(u)
    \/ Crash \/ Interrupt \/ NewBundle \/ HandEdit \/ TimePasses

Next == RunStep \/ Environment

Spec == Init /\ [][Next]_vars /\ WF_vars(RunStep)

(* --- properties ----------------------------------------------------------- *)

TypeOK ==
    /\ StoreTypeOK
    /\ bundle \in [Units -> Fingerprints \cup {Blank}]
    /\ bundleId \in RunIds
    /\ objects \in [TargetIds -> Object \cup {NoRow}]
    /\ checkpoint \in [Names -> Outcome \cup {NoRow}]
    /\ cpPending \in [Names -> Outcome \cup {NoRow}]
    /\ garbled \in BOOLEAN
    /\ hosts \subseteq DependentUnits
    /\ pc \in {"idle", "replay", "defer", "list", "units", "record", "checkpoint",
               "flush", "missing", "final", "exit"}
    /\ todo \subseteq Units \cup Names
    /\ run \in RunSettings
    /\ existing \in [Names -> TargetIds \cup {Blank}]
    /\ retryKeys \subseteq Keys
    /\ current \in Conclusion \cup {NoOutcome}
    /\ interrupted \in BOOLEAN /\ cutShort \in BOOLEAN
    /\ runStatus \in {"none", "running", "completed", "completed_state_not_saved"}

(* A row, pending or durable, never names an object made for another unit: an
   update goes to the stored id, so it would edit the wrong object.            *)
RowsNameOwnObjects ==
    \A k \in Keys : \A row \in {cache[k], table[k]} :
        TargetOf(row) # Blank =>
            /\ objects[row.target] # NoRow
            /\ objects[row.target].unit = k[2]

(* However runs are cut short, retried and repeated, the importer never makes a
   second object for a unit while one it made is still there.                 *)
OneObjectPerUnit ==
    \A u \in Units :
        Cardinality({id \in LiveIds({u}) : objects[id].maker = "tool"}) <= 1

Succeeded == {"created", "updated", "adopted", "skipped", "created_with_warning"}

(* Between runs, the fingerprint of a live row that claims success is the content
   of the object it names (unless people wrote that content).  A row that claims
   content which never landed makes every later run skip the unit.            *)
FingerprintsAreHonest ==
    (pc = "idle" /\ ~cutShort) =>
        \A u \in Units :
            LET row == table[<<"live", u>>] IN
            (/\ TargetOf(row) # Blank
             /\ row.action \in Succeeded
             /\ Live(row.target)
             /\ objects[row.target].content # ByHand) =>
                row.fp = objects[row.target].content

(* "A FAILED outcome must NOT advance the stored fingerprint": a live row whose
   last action failed never holds the bundle's fingerprint while the object it
   names has other content, or the next run would see nothing left to do.      *)
FailedRowsStayMoved ==
    pc = "idle" =>
        \A u \in InBundle :
            LET row == table[<<"live", u>>] IN
            (/\ TargetOf(row) # Blank
             /\ row.action = "failed"
             /\ Live(row.target)
             /\ row.fp = Fp(u)) => objects[row.target].content = Fp(u)

(* A full live run that ends `completed` has saved a row of its own for every
   unit of the bundle, and each success it claims is there on the target.       *)
CompletedRunMigrates ==
    CompletedFullRun =>
        \A u \in InBundle :
            LET row == table[<<"live", u>>] IN
            /\ row # NoRow
            /\ row.run = bundleId
            /\ (row.action \in Succeeded /\ u \notin SkippedUnits) =>
                  /\ row.fp = Fp(u)
                  /\ \E id \in LiveIds({u}) : objects[id].content \in {Fp(u), ByHand}

(* A full live run that claims success for a declarative unit has applied it: that
   its object exists does not mean that the work is done.  (A unit that the bundle
   says to skip is recorded as skipped, and nothing is claimed of it.)        *)
DeclarativeWorkIsDone ==
    CompletedFullRun =>
        \A u \in (InBundle \cap DeclarativeUnits) \ SkippedUnits :
            table[<<"live", u>>].action \in Succeeded =>
                \E id \in LiveIds({u}) : objects[id].content = Fp(u)

(* `skipped_no_object` is never taken for done: a full run that ends after the
   missing object has appeared has applied the unit, or failed to.             *)
NoObjectIsNotDone ==
    CompletedFullRun =>
        \A u \in InBundle \cap hosts :
            table[<<"live", u>>].action # "skipped_no_object"

(* Work left for later is on record: a live run over everything that gets to its
   end, whatever was selected, leaves no unit of the bundle without a row: a retry
   would not see it.                                                          *)
DeferredWorkIsVisible ==
    (/\ pc = "exit" /\ runStatus = "completed" /\ ~interrupted
     /\ run.mode = "live" /\ run.retry = "off") =>
        \A u \in InBundle : table[<<"live", u>>] # NoRow

(* A rehearsal calls nothing on the target and writes no live row. *)
RehearsalTouchesNothingLive ==
    [][(run.mode = "dry" /\ RunStep) =>
          /\ objects' = objects
          /\ \A u \in Units : table'[<<"live", u>>] = table[<<"live", u>>]]_vars

(* Every run that is started comes to an end, by itself or by being killed. *)
RunTerminates == pc # "idle" ~> pc = "idle"
===============================================================================
