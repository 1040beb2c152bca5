------------------------------ MODULE ImportRun -------------------------------
(* The import runner over several runs: gates, phases, the references that the
   phases resolve to target ids, flushes, the end of a run and what the next run
   makes of it.

   One unit is one asset; each run acts on a bundle exported just before it.  The
   listing that fails, the checkpoint of a bundle that is imported twice, hand-made
   objects and rehearsals are the import engine's (ImportEngine); schedules, whose
   matching differs from the publish state's, and units without an id of their own
   (directories, grants) are left out.                                            *)
EXTENDS ImportPlan

CONSTANTS Units, Type, Refs,    \* assets, their types, the assets whose ids they carry
          Parent,               \* the dashboard of a publish unit
          Settings,             \* of a run: import_assets, retry_mode, what preflight finds
          Usual,                \* the facts of an uneventful run
          MaxEdits, MaxRemovals, MaxDeletions, MaxFaults, MaxKills, MaxRuns,   \* bounds,
          MaxTrouble            \* and one on the sum of all but the last

Publish == "lakeview_dashboard_publish"
Children == {u \in Units : Type[u] = Publish}
Family == [u \in Units |-> FamilyOf[Type[u]]]
LoadedFirst == [u \in Units |-> {v \in Units : LoadedBefore(Type[v], Type[u])}]

ASSUME TypesAssumption == Type \in [Units -> AssetTypes \ {"lakeview_dashboard_schedule"}]
ASSUME RefsAssumption ==
    /\ Refs \in [Units -> SUBSET Units]
    /\ \A u \in Units : \A v \in Refs[u] : v # u /\ Type[v] \in ReferencedTypes(Type[u])
ASSUME ParentAssumption ==
    /\ Parent \in [Children -> Units]
    /\ \A u \in Children : Type[Parent[u]] = "lakeview_dashboard"
ASSUME SettingsAssumption ==
    Settings \subseteq [sel : SUBSET Families, mode : {"off", "failed_only"}, facts : Facts]
ASSUME FactsAssumption == Usual \in Facts
ASSUME BoundsAssumption ==
    \A b \in {MaxEdits, MaxRemovals, MaxDeletions, MaxFaults, MaxKills, MaxRuns,
            MaxTrouble} : b \in Nat

VARIABLES
    source,     \* version of each asset on the source, 0: absent
    bundle,     \* and in the bundle of the run
    target,     \* the object of each unit on the target
    made,       \* how many objects were made for a unit: object ids
    rows, saved,            \* the state rows in memory and in the table
    context, existing,      \* target ids that this run's importers and listings know
    pc, sel, mode, facts,   \* the run: where it is, its selection, retry mode, findings
    left, todo, acted,      \* phases to run, units of the phase to do, units acted on
    flushFailed, status,
    dirty,      \* history: a call or a save failed in this run, or it was interrupted
    lost,       \* history: units whose saved row did not know their object at some start
    settled, owed,          \* the changes are over; a full run is still owed
    edits, removals, deletions, faults, kills, runs

world == <<source, target, made>>
books == <<rows, saved, flushFailed>>
memory == <<context, existing, left, todo, acted>>
setup == <<sel, mode, facts>>
people == <<edits, removals, deletions, kills, runs, settled>>
vars == <<world, books, memory, setup, people, pc, status, bundle, lost, dirty, owed, faults>>

NoId == <<>>
Ids == Units \X Nat          \* the n-th object made for a unit; 0 is its source id
NoRow == [action |-> "none", fp |-> 0, id |-> NoId]
NoObject == [id |-> NoId, version |-> 0, refs |-> <<>>]
Object(u) == [id : Ids \cup {NoId}, version : Nat, refs : [Refs[u] -> Ids \cup {NoId}] \cup {<<>>}]

Live(u) == target[u] # NoObject
InBundle == {u \in Units : bundle[u] > 0}

(* --- a run starts ----------------------------------------------------------------- *)

Begin(s, m, f) ==
    /\ pc = "idle" /\ pc' = "gates"
    /\ bundle' = source /\ sel' = s /\ mode' = m /\ facts' = f
    /\ rows' = saved /\ flushFailed' = FALSE
    /\ status' = "running" /\ dirty' = FALSE
    /\ lost' = lost \cup {u \in Units : Live(u) /\ saved[u].id # target[u].id}
    /\ UNCHANGED <<world, saved, memory, edits, removals, deletions, kills, settled, owed, faults>>

Start == \E s \in Settings :
    ~settled /\ runs < MaxRuns /\ runs' = runs + 1 /\ Begin(s.sel, s.mode, s.facts)

(* The documented procedure: a full import, again if it did not come to its end, then
   retry_mode=failed_only as long as a unit failed. *)
Outstanding == \E u \in Units : saved[u].action = "failed"
Proceed ==
    /\ settled /\ UNCHANGED runs
    /\ \/ owed /\ Begin(Families, "off", Usual)
       \/ ~owed /\ Outstanding /\ Begin(Families, "failed_only", Usual)

(* --- gates, deferred families -------------------------------------------------------- *)

Trouble == edits + removals + deletions + faults + kills < MaxTrouble
Fault == Trouble /\ faults < MaxFaults /\ faults' = faults + 1 /\ dirty' = TRUE
NoFault == UNCHANGED <<faults, dirty>>

(* flush() keeps the rows pending when the table refuses them. *)
Flush(r) ==
    \/ saved' = r /\ flushFailed' = FALSE /\ NoFault
    \/ saved # r /\ flushFailed' = TRUE /\ Fault /\ UNCHANGED saved

(* has_family() *)
Recorded == {f \in Families : \E u \in Units :
    Family[u] = f /\ rows[u].action \notin {"none", "failed", "not_selected"}}

SelectionOK == UnmetPrerequisites(sel, Recorded) = {}

(* Every row of a family that is not selected, unless it has an outcome. *)
Deferred == [u \in Units |->
    IF u \in InBundle /\ Family[u] \notin sel /\ rows[u].action \in {"none", "not_selected"}
    THEN [rows[u] EXCEPT !.action = "not_selected", !.fp = bundle[u]]
    ELSE rows[u]]

(* A phase without units lists nothing; its flush is left to the next one. *)
PhasesOf(s) == {Family[u] : u \in Units} \cap s

PassGates ==
    /\ pc = "gates" /\ GatesOpen(facts) /\ facts.table /\ SelectionOK
    /\ rows' = Deferred
    /\ IF sel = Families THEN UNCHANGED <<saved, flushFailed>> /\ NoFault ELSE Flush(Deferred)
    /\ left' = PhasesOf(sel) /\ pc' = "phases"
    /\ UNCHANGED <<world, context, existing, todo, acted, setup, people, status, bundle, lost,
                   owed>>

Forget ==
    /\ context' = [u \in Units |-> NoId] /\ existing' = context' /\ acted' = {}
    /\ left' = {} /\ todo' = {} /\ sel' = {} /\ mode' = "off" /\ facts' = Usual

Abort ==
    /\ pc = "gates" /\ ~(GatesOpen(facts) /\ facts.table /\ SelectionOK)
    /\ status' = "aborted" /\ pc' = "idle" /\ Forget
    /\ UNCHANGED <<world, books, people, bundle, lost, dirty, owed, faults>>

(* --- phases -------------------------------------------------------------------------- *)

(* The listing of the family's own objects also is what later phases find ids in; the
   publish state is probed unit by unit. *)
Listed(f) == {u \in InBundle \ Children : Family[u] = f /\ Live(u)}

StartPhase ==
    /\ pc = "phases" /\ left # {} /\ pc' = "units"
    /\ LET f == FirstOf(left) IN
         /\ existing' = [u \in Units |-> IF u \in Listed(f) THEN target[u].id ELSE NoId]
         /\ context' = [u \in Units |-> IF u \in Listed(f) THEN target[u].id ELSE context[u]]
         /\ todo' = {u \in InBundle : Family[u] = f}
    /\ UNCHANGED <<world, books, left, acted, setup, people, status, bundle, lost, dirty, owed,
                   faults>>

(* Defect: a reference that is not resolved keeps the source's id. *)
ResolveOrKeep(v) ==
    IF v \in InBundle /\ context[v] # NoId THEN context[v]
    ELSE IF v \in InBundle /\ rows[v].id # NoId THEN rows[v].id ELSE <<v, 0>>

(* remap_id(): an id of this run, else the one of the row; nothing for a unit that the
   bundle does not have. *)
Resolve(v) ==
    IF v \notin InBundle THEN NoId ELSE IF context[v] # NoId THEN context[v] ELSE rows[v].id

ResolvedRefs(u) == [v \in Refs[u] |-> Resolve(v)]
RefsResolved(u) == \A v \in Refs[u] : Resolve(v) # NoId

ParentId(u) ==
    IF context[Parent[u]] # NoId THEN context[Parent[u]] ELSE rows[Parent[u]].id

(* The dashboard's own GET ../published answers for a publish unit. *)
ExistingId(u) ==
    IF u \notin Children THEN existing[u]
    ELSE IF Live(u) /\ target[u].id = ParentId(u) THEN target[u].id ELSE NoId

(* Defect: a retry leaves the dashboard it heals unpublished. *)
InWorkListAlone(u) == mode = "off" \/ rows[u].action = "failed"

(* On a retry the failed units, and the publish state of a dashboard acted on. *)
InWorkList(u) ==
    \/ mode = "off" \/ rows[u].action = "failed"
    \/ u \in Children /\ Parent[u] \in acted

(* decide(), and the second look at a child that had no dashboard. *)
Decision(u) ==
    CASE rows[u] = NoRow                                  -> IF ExistingId(u) = NoId
                                                             THEN "CREATE" ELSE "ADOPT"
      [] rows[u] # NoRow /\ ExistingId(u) = NoId          -> "CREATE"
      [] rows[u] # NoRow /\ ExistingId(u) # NoId          ->
            IF rows[u].fp # bundle[u] THEN "UPDATE"
            ELSE IF u \in Children /\ rows[u].action = "skipped_no_object" THEN "ADOPT"
            ELSE "SKIP"

(* record(): a failure keeps the fingerprint, and no id blanks a known one.  Any record
   may find that a flush is due. *)
Acted == {"created", "updated", "adopted"}
Record(u, action, id) ==
    /\ rows' = [rows EXCEPT ![u] = [action |-> action,
                                    fp |-> IF action = "failed" THEN @.fp ELSE bundle[u],
                                    id |-> IF id = NoId THEN @.id ELSE id]]
    /\ acted' = IF action \in Acted THEN acted \cup {u} ELSE acted
    /\ \/ UNCHANGED <<saved, flushFailed>>
       \/ saved' = rows' /\ flushFailed' = FALSE

Take(u) ==
    /\ pc = "units" /\ u \in todo /\ todo' = todo \ {u}
    /\ todo \cap LoadedFirst[u] = {}
    /\ UNCHANGED <<source, existing, left, setup, people, pc, status, bundle, lost, owed>>

NothingWritten == UNCHANGED <<target, made, context>>
Written(u, id) ==
    target' = [target EXCEPT ![u] = [id |-> id, version |-> bundle[u], refs |-> ResolvedRefs(u)]]

OutOfScope(u) == ~InWorkList(u) /\ NothingWritten /\ NoFault /\ UNCHANGED <<books, acted>>

(* Defect: an outcome that no retry bucket knows. *)
SkipMistyped(u) ==
    /\ Decision(u) = "SKIP" /\ NothingWritten /\ NoFault /\ Record(u, "skip", ExistingId(u))

Skip(u) ==
    /\ Decision(u) = "SKIP" /\ NothingWritten /\ NoFault
    /\ Record(u, "skipped", ExistingId(u))

(* The row of an adopted object gets the bundle's fingerprint whatever the object holds. *)
Adopt(u) ==
    /\ Decision(u) = "ADOPT" /\ u \notin Children /\ NothingWritten /\ NoFault
    /\ Record(u, "adopted", ExistingId(u))

(* A call on an object that is gone fails. *)
Reachable(u, id) == target[u].id = id

Calls(u) == CASE Decision(u) = "UPDATE" -> "updated"
              [] Decision(u) = "CREATE" -> "created"
              [] Decision(u) = "ADOPT" /\ u \in Children -> "updated"
              [] OTHER -> "none"

(* update_one() on the stored id rather than the listed one. *)
UpdatedId(u) == IF rows[u].id # NoId THEN rows[u].id ELSE ExistingId(u)

Fails(u) ==
    /\ NothingWritten
    /\ Record(u, "failed", IF Calls(u) = "updated"
                           THEN IF Decision(u) = "ADOPT" THEN ExistingId(u) ELSE UpdatedId(u)
                           ELSE NoId)

Update(u) ==
    /\ Decision(u) = "UPDATE" /\ u \notin Children
    /\ IF RefsResolved(u) /\ Reachable(u, UpdatedId(u))
       THEN \/ /\ Written(u, UpdatedId(u)) /\ UNCHANGED <<made, context>> /\ NoFault
               /\ Record(u, "updated", UpdatedId(u))
            \/ Fault /\ Fails(u)
       ELSE NoFault /\ Fails(u)

Create(u) ==
    /\ Decision(u) = "CREATE" /\ u \notin Children
    /\ IF RefsResolved(u)
       THEN \/ LET id == <<u, made[u] + 1>> IN
                 /\ Written(u, id) /\ made' = [made EXCEPT ![u] = @ + 1] /\ NoFault
                 /\ context' = [context EXCEPT ![u] = id] /\ Record(u, "created", id)
            \/ Fault /\ Fails(u)
       ELSE NoFault /\ Fails(u)

(* Publishing is a POST to the dashboard that the child resolves, whichever the decision;
   an existing publish state that matches is adopted without one. *)
NoParent(u) ==
    /\ u \in Children /\ Decision(u) = "CREATE" /\ ParentId(u) = NoId
    /\ NothingWritten /\ NoFault /\ Record(u, "skipped_no_object", NoId)

Matches(u) == target[u].version = bundle[u] /\ target[u].refs = ResolvedRefs(u)

AdoptPublished(u) ==
    /\ u \in Children /\ Decision(u) = "ADOPT" /\ RefsResolved(u) /\ Matches(u)
    /\ NothingWritten /\ NoFault /\ Record(u, "adopted", ExistingId(u))

PublishDashboard(u) ==
    /\ u \in Children /\ Calls(u) # "none" /\ ParentId(u) # NoId
    /\ ~(Decision(u) = "ADOPT" /\ RefsResolved(u) /\ Matches(u))
    /\ IF RefsResolved(u) /\ Reachable(Parent[u], ParentId(u))
       THEN \/ /\ Written(u, ParentId(u)) /\ UNCHANGED <<made, context>> /\ NoFault
               /\ Record(u, Calls(u), ParentId(u))
            \/ Fault /\ Fails(u)
       ELSE NoFault /\ Fails(u)

Process(u) ==
    /\ Take(u)
    /\ \/ OutOfScope(u)
       \/ /\ InWorkList(u)
          /\ \/ Skip(u) \/ Adopt(u) \/ Update(u) \/ Create(u)
             \/ NoParent(u) \/ AdoptPublished(u) \/ PublishDashboard(u)

EndPhase ==
    /\ pc = "units" /\ todo = {} /\ pc' = "phases" /\ left' = left \ {FirstOf(left)}
    /\ Flush(rows)
    /\ UNCHANGED <<world, rows, context, existing, todo, acted, setup, people, status, bundle, lost,
                   owed>>

(* --- the end of a run ------------------------------------------------------------------ *)

(* A type that has gone entirely is not compared, but for the publish units of a bundle
   that still has dashboards. *)
Compared(u) ==
    /\ Family[u] \in sel
    /\ \/ \E v \in InBundle : Type[v] = Type[u]
       \/ u \in Children /\ \E v \in InBundle : Type[v] = "lakeview_dashboard"

Gone == {u \in Units \ InBundle :
    Compared(u) /\ rows[u].action \notin {"none", "deleted_in_source"}}

MarkMissing ==
    /\ pc = "phases" /\ left = {} /\ pc' = "final"
    /\ rows' = [u \in Units |->
                   IF u \in Gone THEN [rows[u] EXCEPT !.action = "deleted_in_source"] ELSE rows[u]]
    /\ IF Gone = {} THEN UNCHANGED <<saved, flushFailed>> /\ NoFault ELSE Flush(rows')
    /\ UNCHANGED <<world, memory, setup, people, status, bundle, lost, owed>>

(* Defect: green although the last save failed. *)
CloseIgnoringFlush == Flush(rows) /\ status' \in {"completed", "completed_no_report"} /\ Forget

(* The last flush, then the reports; the worse outcome is the status. *)
Close ==
    /\ Flush(rows)
    /\ \/ status' = IF flushFailed' THEN "completed_state_not_saved" ELSE "completed"
       \/ status' = IF flushFailed' THEN "completed_state_not_saved" ELSE "completed_no_report"
    /\ Forget

Finish ==
    /\ pc = "final" /\ Close /\ pc' = "idle"
    /\ owed' = (owed /\ ~(settled /\ mode = "off" /\ status' # "completed_state_not_saved"))
    /\ UNCHANGED <<world, rows, bundle, lost, people>>

(* KeyboardInterrupt: the finally blocks run, but nothing marks the run aborted. *)
Interrupt ==
    /\ pc \in {"gates", "phases", "units"} /\ Fault /\ pc' = "idle" /\ owed' = TRUE
    /\ \/ /\ saved' = rows /\ flushFailed' = FALSE
          /\ status' \in {"completed", "completed_no_report"}
       \/ /\ saved # rows /\ UNCHANGED saved /\ flushFailed' = TRUE
          /\ status' = "completed_state_not_saved"
    /\ Forget
    /\ UNCHANGED <<world, rows, bundle, lost, people>>

Kill ==
    /\ pc # "idle" /\ Trouble /\ kills < MaxKills /\ kills' = kills + 1
    /\ pc' = "idle" /\ status' = "killed" /\ rows' = saved /\ flushFailed' = FALSE
    /\ owed' = TRUE /\ Forget
    /\ UNCHANGED <<world, saved, edits, removals, deletions, runs, settled, bundle, lost, dirty,
                   faults>>

(* --- between runs ---------------------------------------------------------------------- *)

Aside == pc = "idle" /\ ~settled /\ Trouble
           /\ UNCHANGED <<books, memory, setup, pc, status, bundle, lost, dirty, owed, faults,
                          kills, runs>>

EditSource(u) ==
    /\ Aside /\ source[u] > 0 /\ edits < MaxEdits /\ edits' = edits + 1
    /\ source' = [source EXCEPT ![u] = @ + 1]
    /\ UNCHANGED <<target, made, removals, deletions, settled>>

RemoveFromSource(u) ==
    /\ Aside /\ source[u] > 0 /\ removals < MaxRemovals /\ removals' = removals + 1
    /\ source' = [v \in Units |->
                     IF v = u \/ (v \in Children /\ Parent[v] = u) THEN 0 ELSE source[v]]
    /\ UNCHANGED <<target, made, edits, deletions, settled>>

DeleteOnTarget(u) ==
    /\ Aside /\ u \notin Children /\ Live(u) /\ deletions < MaxDeletions
    /\ deletions' = deletions + 1
    /\ target' = [v \in Units |->
                     IF v = u \/ (v \in Children /\ Parent[v] = u) THEN NoObject ELSE target[v]]
    /\ UNCHANGED <<source, made, edits, removals, settled>>

Settle ==
    /\ pc = "idle" /\ ~settled /\ settled' = TRUE
    /\ UNCHANGED <<world, books, memory, setup, pc, status, bundle, lost, dirty, owed, faults,
                   edits, removals, deletions, kills, runs>>

(* --- the specification ------------------------------------------------------------------- *)

Init ==
    /\ source = [u \in Units |-> 1] /\ bundle = [u \in Units |-> 0]
    /\ target = [u \in Units |-> NoObject] /\ made = [u \in Units |-> 0]
    /\ rows = [u \in Units |-> NoRow] /\ saved = rows /\ flushFailed = FALSE
    /\ context = [u \in Units |-> NoId] /\ existing = context
    /\ pc = "idle" /\ sel = {} /\ mode = "off" /\ facts = Usual
    /\ left = {} /\ todo = {} /\ acted = {} /\ status = "none"
    /\ dirty = FALSE /\ lost = {} /\ settled = FALSE /\ owed = TRUE
    /\ edits = 0 /\ removals = 0 /\ deletions = 0 /\ faults = 0 /\ kills = 0 /\ runs = 0

RunStep == PassGates \/ Abort \/ StartPhase \/ (\E u \in Units : Process(u)) \/ EndPhase
             \/ MarkMissing \/ Finish

Disturbance == Interrupt \/ Kill
Outside == \E u \in Units : EditSource(u) \/ RemoveFromSource(u) \/ DeleteOnTarget(u)

Next == Start \/ Proceed \/ RunStep \/ Disturbance \/ Outside \/ Settle

(* A notebook that runs goes on; people come to rest and follow the procedure.  At any
   time one of the three is enabled at most. *)
Fairness == WF_vars(RunStep \/ Settle \/ Proceed)

Spec == Init /\ [][Next]_vars /\ Fairness

(* --- properties ---------------------------------------------------------------------------- *)

Row == [action : {"none", "not_selected", "created", "updated", "adopted", "skipped",
                  "skipped_no_object", "failed", "deleted_in_source"},
        fp : Nat, id : Ids \cup {NoId}]

(* The type invariant. *)
ImportRunTypeOK ==
    /\ source \in [Units -> Nat] /\ bundle \in [Units -> Nat] /\ made \in [Units -> Nat]
    /\ DOMAIN target = Units /\ \A u \in Units : target[u] \in Object(u)
    /\ rows \in [Units -> Row] /\ saved \in [Units -> Row]
    /\ context \in [Units -> Ids \cup {NoId}] /\ existing \in [Units -> Ids \cup {NoId}]
    /\ pc \in {"idle", "gates", "phases", "units", "final"} /\ mode \in {"off", "failed_only"}
    /\ sel \subseteq Families /\ left \subseteq Families
    /\ todo \subseteq Units /\ acted \subseteq Units /\ lost \subseteq Units
    /\ facts \in Facts
    /\ \A n \in {edits, removals, deletions, faults, kills, runs} : n \in Nat
    /\ flushFailed \in BOOLEAN /\ dirty \in BOOLEAN /\ settled \in BOOLEAN /\ owed \in BOOLEAN

(* require_remap: a reference on the target is the id of an object that was made there for
   the very unit the source refers to; it never is a source id, and never another's. *)
ReferencesAreExact ==
    \A u \in Units : Live(u) =>
        \A v \in Refs[u] : /\ target[u].refs[v] \in Ids
                           /\ target[u].refs[v][1] = v
                           /\ target[u].refs[v][2] \in 1..made[v]

(* Units whose references and dashboard, with all that these need in turn, are in the
   bundle; none refers to its own type (a job that runs a later job waits for a retry). *)
Needs(u) == Refs[u] \cup (IF u \in Children THEN {Parent[u]} ELSE {})
Closed(us) == \A u \in us : Needs(u) \subseteq us
Complete(u, versions) == \E us \in SUBSET {v \in Units : versions[v] > 0} : u \in us /\ Closed(us)

InPhaseOrder(us) == \A u \in us : \A v \in Needs(u) : Type[v] # Type[u]
Resolvable(u) == \E us \in SUBSET InBundle : u \in us /\ Closed(us) /\ InPhaseOrder(us)

Current(u, versions) ==
    /\ Live(u) /\ target[u].version = versions[u]
    /\ deletions = 0 => \A v \in Refs[u] : target[u].refs[v] = target[v].id

(* The order of phases.py: one full import without a failure leaves no unit waiting for an
   id and no edit behind, whatever earlier runs did, but for units whose object an earlier
   run made without saving its row. *)
CleanRunsResolveEverything ==
    pc = "final" /\ mode = "off" /\ sel = Families /\ ~dirty =>
        \A u \in Units \ lost : Resolvable(u) => Current(u, bundle)

(* A run that ends green has saved every row and run every phase it could; a failed save
   in the middle may be made good by a later one, a failed last save may not. *)
GreenRunsAreSaved == pc = "idle" /\ status = "completed" => rows = saved

(* No phase starts on a bundle that is not whole, with a table it could not load, or
   against an enforced blocker, even when the check that looks for it broke. *)
NothingStartsUnchecked ==
    pc \in {"phases", "units", "final"} =>
        /\ facts.skipVerify \/ facts.manifest = "whole"
        /\ facts.pointer # "mismatch" /\ facts.table
        /\ facts.enforce => /\ facts.admin /\ facts.staging = "listed"
                            /\ facts.direct => facts.sourceReadable
                            /\ facts.groups # {} => facts.groupsListed # "never"

(* After the last change on either side, the procedure of the README and of the retry
   modes (a full import, then failed_only while something failed) brings every unit to the
   source's state, where it stays. *)
EventuallyMigrated ==
    <>[](settled /\ \A u \in Units \ lost : Complete(u, source) => Current(u, source))

(* base_importer.py, the comment on ADOPT: an object that exists may be stale and is
   updated when the source moved on. *)
AdoptedObjectsAreCurrent ==
    \A u \in Units : rows[u].action = "adopted" /\ Live(u) => target[u].version = rows[u].fp

(* require_remap's docstring: a reference whose own creation failed is a prerequisite that
   is missing, so what is written carries ids of objects that are there; false when the
   row of the object that failed still names the one that is gone (WholeOnly). *)
WrittenReferencesAreLive ==
    [][\A u \in Units : target'[u] # target[u] /\ target'[u] # NoObject =>
          \A v \in Refs[u] : target'[u].refs[v] = target'[v].id]_vars
===============================================================================
