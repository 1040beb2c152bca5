---------------------------- MODULE ImportRunProofs -----------------------------
(* Proofs about the import runner for any assets, references, settings and bounds.

   The inductive invariant says, part by part of the state, that an id kept for an
   asset is the id of an object that was made for it: in the rows, in the table, in
   what the phases resolve ids with, and on the target.  A publish unit's id is its
   dashboard's; no asset refers to one.

   For what a clean run leaves behind it is strengthened (RInv): rows know their
   objects, the listing of a phase is complete, and the units whose turn has passed,
   in the order of the phases, are resolved.                                      *)
EXTENDS ImportRun, WellFoundedInduction, TLAPS

MaybeId == Ids \cup {NoId}
Own(v, i, n) == i # NoId => i[1] = v /\ i[2] \in 1..n
Referable == Units \ Children

WorldTyped == source \in [Units -> Nat] /\ bundle \in [Units -> Nat] /\ made \in [Units -> Nat]

TargetGood ==
    /\ DOMAIN target = Units
    /\ \A u \in Units : target[u] \in Object(u)
    /\ \A v \in Referable : Own(v, target[v].id, made[v])
    /\ ReferencesAreExact

BooksGood ==
    /\ rows \in [Units -> Row] /\ saved \in [Units -> Row]
    /\ \A v \in Referable : Own(v, rows[v].id, made[v]) /\ Own(v, saved[v].id, made[v])

MemoryGood ==
    /\ context \in [Units -> MaybeId] /\ existing \in [Units -> MaybeId]
    /\ \A v \in Referable : Own(v, context[v], made[v]) /\ Own(v, existing[v], made[v])

RunTyped ==
    /\ pc \in {"idle", "gates", "phases", "units", "final"} /\ mode \in {"off", "failed_only"}
    /\ sel \subseteq Families /\ left \subseteq Families
    /\ todo \subseteq Units /\ acted \subseteq Units /\ lost \subseteq Units
    /\ facts \in Facts
    /\ flushFailed \in BOOLEAN /\ dirty \in BOOLEAN /\ settled \in BOOLEAN /\ owed \in BOOLEAN

CountsTyped == \A n \in {edits, removals, deletions, faults, kills, runs} : n \in Nat

IInv == WorldTyped /\ TargetGood /\ BooksGood /\ MemoryGood /\ RunTyped /\ CountsTyped

(* --- what the assumptions say -------------------------------------------------- *)

(* No asset carries the id of a publish unit. *)
LEMMA ReferredIsReferable == \A u \in Units : \A v \in Refs[u] : v \in Referable
<1> SUFFICES ASSUME NEW u \in Units, NEW v \in Refs[u] PROVE v \in Referable
    OBVIOUS
<1>1. v \in Units /\ Type[v] \in ReferencedTypes(Type[u])
    BY RefsAssumption
<1>2. "lakeview_dashboard_publish" \notin ReferencedTypes(Type[u])
    BY DEF ReferencedTypes, PolicyRefs, ClusterRefs, QueryRefs, AlertRefs, LegacyAlertRefs, PipelineRefs,
           JobRefs, TaskRefs, DashboardRefs, PublishRefs, ScheduleRefs, GenieRefs, WarehouseRefs
<1> QED
    BY <1>1, <1>2 DEF Referable, Children, Publish

LEMMA ParentIsReferable == \A u \in Children : Parent[u] \in Referable
BY ParentAssumption DEF Referable, Children, Publish

(* A family is one of the phases, whatever the order. *)
LEMMA FirstIsFamily ==
    ASSUME NEW s \in SUBSET Families
    PROVE  s \ {FirstOf(s)} \subseteq Families
OBVIOUS

LEMMA IInvImplies == IInv => ImportRunTypeOK /\ ReferencesAreExact
BY DEF IInv, WorldTyped, TargetGood, BooksGood, MemoryGood, RunTyped, CountsTyped,
       ImportRunTypeOK, MaybeId

(* --- one unit --------------------------------------------------------------------- *)

(* What a reference resolves to is an object made for the unit referred to. *)
LEMMA ResolvedIsExact ==
    ASSUME IInv, NEW u \in Units
    PROVE  /\ ResolvedRefs(u) \in [Refs[u] -> MaybeId]
           /\ RefsResolved(u) => \A v \in Refs[u] :
                 /\ ResolvedRefs(u)[v] \in Ids
                 /\ ResolvedRefs(u)[v][1] = v /\ ResolvedRefs(u)[v][2] \in 1..made[v]
<1>1. ASSUME NEW v \in Refs[u]
      PROVE  Resolve(v) \in MaybeId /\ Own(v, Resolve(v), made[v])
  <2>1. v \in Units /\ v \in Referable
      BY ReferredIsReferable DEF Referable
  <2>2. context[v] \in MaybeId /\ Own(v, context[v], made[v])
      BY <2>1 DEF IInv, MemoryGood
  <2>3. rows[v].id \in MaybeId /\ Own(v, rows[v].id, made[v])
      BY <2>1 DEF IInv, BooksGood, Row, MaybeId
  <2> QED
      BY <2>2, <2>3 DEF Resolve, MaybeId, Own
<1> QED
    BY <1>1 DEF ResolvedRefs, RefsResolved, MaybeId, Own

(* A write that carries resolved references and an own id. *)
LEMMA WrittenIsGood ==
    ASSUME IInv, NEW u \in Units, NEW id \in MaybeId, WorldTyped',
           \A v \in Units : made[v] <= made'[v],
           u \in Referable => Own(u, id, made'[u]),
           RefsResolved(u), Written(u, id)
    PROVE  TargetGood'
<1> DEFINE new == [id |-> id, version |-> bundle[u], refs |-> ResolvedRefs(u)]
<1>1. /\ DOMAIN target' = Units
      /\ \A v \in Units : target'[v] = IF v = u THEN new ELSE target[v]
    BY DEF Written, IInv, TargetGood
<1>2. new \in Object(u)
    BY ResolvedIsExact DEF Object, MaybeId, IInv, WorldTyped
<1>3. \A v \in Units : made[v] \in Nat /\ made'[v] \in Nat
    BY DEF IInv, WorldTyped
<1>4. \A v \in Referable : Own(v, target'[v].id, made'[v])
  <2> SUFFICES ASSUME NEW v \in Referable PROVE Own(v, target'[v].id, made'[v])
      OBVIOUS
  <2>1. CASE v = u
      BY <1>1, <2>1 DEF Referable
  <2>2. CASE v # u
    <3>1. Own(v, target[v].id, made[v]) /\ v \in Units
        BY DEF IInv, TargetGood, Referable
    <3>2. target[v].id \in MaybeId
        BY <3>1 DEF IInv, TargetGood, Object, MaybeId
    <3> QED
        BY <1>1, <1>3, <2>2, <3>1, <3>2 DEF Own, MaybeId, Ids
  <2> QED
      BY <2>1, <2>2
<1>5. ASSUME NEW w \in Units, Live(w)', NEW v \in Refs[w]
      PROVE  /\ target'[w].refs[v] \in Ids
             /\ target'[w].refs[v][1] = v /\ target'[w].refs[v][2] \in 1..made'[v]
  <2>1. v \in Units
      BY ReferredIsReferable DEF Referable
  <2>2. CASE w = u
    <3>1. /\ new.refs[v] \in Ids
          /\ new.refs[v][1] = v /\ new.refs[v][2] \in 1..made[v]
        BY <2>2, ResolvedIsExact
    <3>2. new.refs[v][2] \in Nat
        BY <3>1 DEF Ids
    <3> QED
        BY <1>1, <1>3, <2>1, <2>2, <3>1, <3>2
  <2>3. CASE w # u
    <3>1. Live(w)
        BY <1>1, <1>5, <2>3 DEF Live
    <3>2. /\ target[w].refs[v] \in Ids
          /\ target[w].refs[v][1] = v /\ target[w].refs[v][2] \in 1..made[v]
        BY <3>1 DEF IInv, TargetGood, ReferencesAreExact
    <3> QED
        BY <1>1, <1>3, <2>1, <2>3, <3>2
  <2> QED
      BY <2>2, <2>3
<1>6. \A v \in Units : target'[v] \in Object(v)
    BY <1>1, <1>2 DEF IInv, TargetGood
<1>7. ReferencesAreExact'
    BY <1>5 DEF ReferencesAreExact
<1> QED
    BY <1>1, <1>4, <1>6, <1>7 DEF TargetGood, Object

(* What was own stays own while more objects are made. *)
LEMMA TargetGoodGrows ==
    ASSUME IInv, WorldTyped', UNCHANGED target, \A v \in Units : made[v] <= made'[v]
    PROVE  TargetGood'
<1>1. \A v \in Units : made[v] \in Nat /\ made'[v] \in Nat
    BY DEF IInv, WorldTyped
<1>2. \A v \in Referable : Own(v, target[v].id, made'[v])
  <2> SUFFICES ASSUME NEW v \in Referable PROVE Own(v, target[v].id, made'[v])
      OBVIOUS
  <2>1. v \in Units /\ target[v].id \in MaybeId /\ Own(v, target[v].id, made[v])
      BY DEF IInv, TargetGood, Referable, Object, MaybeId
  <2> QED
      BY <1>1, <2>1 DEF Own, MaybeId, Ids
<1>3. ReferencesAreExact'
  <2> SUFFICES ASSUME NEW u \in Units, Live(u), NEW v \in Refs[u]
               PROVE  /\ target[u].refs[v] \in Ids
                      /\ target[u].refs[v][1] = v /\ target[u].refs[v][2] \in 1..made'[v]
      BY DEF ReferencesAreExact, Live
  <2>1. v \in Units
      BY ReferredIsReferable DEF Referable
  <2>2. /\ target[u].refs[v] \in Ids
        /\ target[u].refs[v][1] = v /\ target[u].refs[v][2] \in 1..made[v]
      BY DEF IInv, TargetGood, ReferencesAreExact
  <2> QED
      BY <1>1, <2>1, <2>2 DEF Ids
<1> QED
    BY <1>2, <1>3 DEF IInv, TargetGood, Object

(* Rows and ids in memory that were own stay own, and so does a record of an own id. *)
LEMMA RecordIsGood ==
    ASSUME IInv, NEW u \in Units, NEW id \in MaybeId, WorldTyped', bundle' = bundle,
           \A v \in Units : made[v] <= made'[v],
           u \in Referable => Own(u, id, made'[u]),
           NEW action \in {"created", "updated", "adopted", "skipped", "skipped_no_object",
                           "failed"},
           Record(u, action, id)
    PROVE  BooksGood' /\ acted' \subseteq Units /\ flushFailed' \in BOOLEAN
<1>1. \A v \in Units : made[v] \in Nat /\ made'[v] \in Nat /\ bundle[v] \in Nat
    BY DEF IInv, WorldTyped
<1> DEFINE kept == IF id = NoId THEN rows[u].id ELSE id
           new == [action |-> action,
                   fp |-> IF action = "failed" THEN rows[u].fp ELSE bundle[u], id |-> kept]
<1>2. /\ rows \in [Units -> Row] /\ saved \in [Units -> Row]
      /\ \A v \in Referable : Own(v, rows[v].id, made[v]) /\ Own(v, saved[v].id, made[v])
    BY DEF IInv, BooksGood
<1>3. new \in Row
    BY <1>1, <1>2 DEF Row, MaybeId
<1>4. rows' = [rows EXCEPT ![u] = new]
    BY DEF Record
<1>5. rows' \in [Units -> Row] /\ (saved' = saved \/ saved' = rows')
    BY <1>2, <1>3, <1>4 DEF Record
<1>6. \A v \in Referable : Own(v, rows[v].id, made'[v]) /\ Own(v, saved[v].id, made'[v])
  <2> SUFFICES ASSUME NEW v \in Referable
               PROVE  Own(v, rows[v].id, made'[v]) /\ Own(v, saved[v].id, made'[v])
      OBVIOUS
  <2>1. v \in Units /\ rows[v].id \in MaybeId /\ saved[v].id \in MaybeId
      BY <1>2 DEF Referable, Row, MaybeId
  <2> QED
      BY <1>1, <1>2, <2>1 DEF Own, MaybeId, Ids
<1>7. \A v \in Referable : Own(v, rows'[v].id, made'[v])
    BY <1>2, <1>4, <1>6 DEF Referable
<1>8. acted' \subseteq Units /\ flushFailed' \in BOOLEAN
    BY DEF Record, IInv, RunTyped
<1> QED
    BY <1>2, <1>5, <1>6, <1>7, <1>8 DEF BooksGood

LEMMA BooksGoodGrows ==
    ASSUME IInv, WorldTyped', UNCHANGED <<rows, saved>>,
           \A v \in Units : made[v] <= made'[v]
    PROVE  BooksGood'
<1>1. \A v \in Units : made[v] \in Nat /\ made'[v] \in Nat
    BY DEF IInv, WorldTyped
<1>2. \A v \in Referable : Own(v, rows[v].id, made'[v]) /\ Own(v, saved[v].id, made'[v])
  <2> SUFFICES ASSUME NEW v \in Referable
               PROVE  Own(v, rows[v].id, made'[v]) /\ Own(v, saved[v].id, made'[v])
      OBVIOUS
  <2>1. /\ v \in Units /\ rows[v].id \in MaybeId /\ saved[v].id \in MaybeId
        /\ Own(v, rows[v].id, made[v]) /\ Own(v, saved[v].id, made[v])
      BY DEF IInv, BooksGood, Referable, Row, MaybeId
  <2> QED
      BY <1>1, <2>1 DEF Own, MaybeId, Ids
<1> QED
    BY <1>2 DEF IInv, BooksGood

(* The ids the run resolves with, one of them perhaps that of the object just made. *)
LEMMA MemoryGoodGrows ==
    ASSUME IInv, WorldTyped', UNCHANGED existing, NEW u \in Units, NEW id \in MaybeId,
           \A v \in Units : made[v] <= made'[v],
           \/ context' = context
           \/ context' = [context EXCEPT ![u] = id] /\ Own(u, id, made'[u])
    PROVE  MemoryGood'
<1>1. \A v \in Units : made[v] \in Nat /\ made'[v] \in Nat
    BY DEF IInv, WorldTyped
<1>2. \A v \in Referable : Own(v, context[v], made'[v]) /\ Own(v, existing[v], made'[v])
  <2> SUFFICES ASSUME NEW v \in Referable
               PROVE  Own(v, context[v], made'[v]) /\ Own(v, existing[v], made'[v])
      OBVIOUS
  <2>1. /\ v \in Units /\ context[v] \in MaybeId /\ existing[v] \in MaybeId
        /\ Own(v, context[v], made[v]) /\ Own(v, existing[v], made[v])
      BY DEF IInv, MemoryGood, Referable
  <2> QED
      BY <1>1, <2>1 DEF Own, MaybeId, Ids
<1>3. context \in [Units -> MaybeId] /\ existing \in [Units -> MaybeId]
    BY DEF IInv, MemoryGood
<1> QED
    BY <1>2, <1>3 DEF MemoryGood, Referable

(* --- the steps of a unit ---------------------------------------------------------- *)

(* Every id a step of a unit records or writes to is its own. *)
LEMMA KnownIds ==
    ASSUME IInv, NEW u \in Units
    PROVE  /\ ExistingId(u) \in MaybeId /\ UpdatedId(u) \in MaybeId
           /\ u \in Children => ParentId(u) \in MaybeId
           /\ u \in Referable => /\ Own(u, ExistingId(u), made[u])
                                 /\ Own(u, UpdatedId(u), made[u])
<1>1. target[u].id \in MaybeId
    BY DEF IInv, TargetGood, Object, MaybeId
<1>2. rows[u].id \in MaybeId /\ existing[u] \in MaybeId /\ context[u] \in MaybeId
    BY DEF IInv, BooksGood, MemoryGood, Row, MaybeId
<1>3. ExistingId(u) \in MaybeId
    BY <1>1, <1>2 DEF ExistingId, MaybeId
<1>4. UpdatedId(u) \in MaybeId
    BY <1>2, <1>3 DEF UpdatedId
<1>5. ASSUME u \in Children PROVE ParentId(u) \in MaybeId
  <2>1. Parent[u] \in Units
      BY <1>5, ParentIsReferable DEF Referable
  <2>2. context[Parent[u]] \in MaybeId /\ rows[Parent[u]].id \in MaybeId
      BY <2>1 DEF IInv, BooksGood, MemoryGood, Row, MaybeId
  <2> QED
      BY <2>2 DEF ParentId
<1>6. ASSUME u \in Referable
      PROVE  Own(u, ExistingId(u), made[u]) /\ Own(u, UpdatedId(u), made[u])
  <2>1. Own(u, existing[u], made[u]) /\ Own(u, rows[u].id, made[u])
      BY <1>6 DEF IInv, BooksGood, MemoryGood
  <2>2. u \notin Children
      BY <1>6 DEF Referable
  <2> QED
      BY <2>1, <2>2 DEF ExistingId, UpdatedId
<1> QED
    BY <1>3, <1>4, <1>5, <1>6

(* What a step of a unit leaves alone, and the faults it may count. *)
LEMMA TakeKeeps ==
    ASSUME IInv, NEW u \in Units, Take(u), Fault \/ NoFault,
           acted' \subseteq Units, flushFailed' \in BOOLEAN
    PROVE  RunTyped' /\ CountsTyped' /\ UNCHANGED <<source, bundle, existing>>
<1>1. faults' \in Nat /\ dirty' \in BOOLEAN
  <2>1. faults \in Nat /\ dirty \in BOOLEAN
      BY DEF IInv, CountsTyped, RunTyped
  <2>2. CASE Fault
      BY <2>1, <2>2 DEF Fault
  <2>3. CASE NoFault
      BY <2>1, <2>3 DEF NoFault
  <2> QED
      BY <2>2, <2>3
<1>2. RunTyped'
    BY <1>1 DEF Take, setup, people, IInv, RunTyped
<1>3. CountsTyped'
    BY <1>1 DEF Take, people, IInv, CountsTyped
<1> QED
    BY <1>2, <1>3 DEF Take

LEMMA RecordKeeps ==
    ASSUME IInv, NEW u \in Units, Take(u), NothingWritten, Fault \/ NoFault,
           NEW id \in MaybeId, u \in Referable => Own(u, id, made[u]),
           NEW action \in {"created", "updated", "adopted", "skipped", "skipped_no_object",
                           "failed"},
           Record(u, action, id)
    PROVE  IInv'
<1>1. UNCHANGED <<source, bundle, made, target, context, existing>>
    BY DEF Take, NothingWritten
<1>2. WorldTyped'
    BY <1>1 DEF IInv, WorldTyped
<1>3. \A v \in Units : made[v] <= made'[v]
    BY <1>1 DEF IInv, WorldTyped
<1>4. BooksGood' /\ acted' \subseteq Units /\ flushFailed' \in BOOLEAN
    BY <1>1, <1>2, <1>3, RecordIsGood
<1>5. TargetGood' /\ MemoryGood'
  <2>1. TargetGood'
      BY <1>1, <1>2, <1>3, TargetGoodGrows
  <2>2. MemoryGood'
      BY <1>1, <1>2, <1>3, MemoryGoodGrows
  <2> QED
      BY <2>1, <2>2
<1>6. RunTyped' /\ CountsTyped'
    BY <1>4, TakeKeeps
<1> QED
    BY <1>2, <1>4, <1>5, <1>6 DEF IInv

(* A call that lands on an object that was there: its content and its references. *)
LEMMA WriteKeeps ==
    ASSUME IInv, NEW u \in Units, Take(u), NoFault, UNCHANGED <<made, context>>,
           NEW id \in MaybeId, u \in Referable => Own(u, id, made[u]),
           RefsResolved(u), Written(u, id),
           NEW action \in {"created", "updated", "adopted", "skipped", "skipped_no_object",
                           "failed"},
           Record(u, action, id)
    PROVE  IInv'
<1>1. UNCHANGED <<source, bundle, made, context, existing>>
    BY DEF Take
<1>2. WorldTyped'
    BY <1>1 DEF IInv, WorldTyped
<1>3. \A v \in Units : made[v] <= made'[v]
    BY <1>1 DEF IInv, WorldTyped
<1>4. BooksGood' /\ acted' \subseteq Units /\ flushFailed' \in BOOLEAN
    BY <1>1, <1>2, <1>3, RecordIsGood
<1>5. TargetGood'
    BY <1>1, <1>2, <1>3, WrittenIsGood
<1>6. MemoryGood'
    BY <1>1, <1>2, <1>3, MemoryGoodGrows
<1>7. RunTyped' /\ CountsTyped'
    BY <1>4, TakeKeeps
<1> QED
    BY <1>2, <1>4, <1>5, <1>6, <1>7 DEF IInv

(* A call that makes an object, with the next id of its unit. *)
LEMMA CreationKeeps ==
    ASSUME IInv, NEW u \in Units, Take(u), NoFault, RefsResolved(u),
           NEW id, id = <<u, made[u] + 1>>, Written(u, id),
           made' = [made EXCEPT ![u] = @ + 1], context' = [context EXCEPT ![u] = id],
           Record(u, "created", id)
    PROVE  IInv'
<1>1. UNCHANGED <<source, bundle, existing>>
    BY DEF Take
<1>2. made \in [Units -> Nat] /\ made' \in [Units -> Nat]
    BY DEF IInv, WorldTyped
<1>3. WorldTyped'
    BY <1>1, <1>2 DEF IInv, WorldTyped
<1>4. \A v \in Units : made[v] <= made'[v]
    BY <1>2
<1>5. id \in MaybeId /\ Own(u, id, made'[u])
    BY <1>2 DEF MaybeId, Ids, Own
<1>6. BooksGood' /\ acted' \subseteq Units /\ flushFailed' \in BOOLEAN
    BY <1>1, <1>3, <1>4, <1>5, RecordIsGood
<1>7. TargetGood'
    BY <1>3, <1>4, <1>5, WrittenIsGood
<1>8. MemoryGood'
    BY <1>1, <1>3, <1>4, <1>5, MemoryGoodGrows
<1>9. RunTyped' /\ CountsTyped'
    BY <1>6, TakeKeeps
<1> QED
    BY <1>3, <1>6, <1>7, <1>8, <1>9 DEF IInv

LEMMA FailureKeeps ==
    ASSUME IInv, NEW u \in Units, Take(u), Fault \/ NoFault, Fails(u)
    PROVE  IInv'
<1> DEFINE id == IF Calls(u) = "updated"
                 THEN IF Decision(u) = "ADOPT" THEN ExistingId(u) ELSE UpdatedId(u)
                 ELSE NoId
<1>1. id \in MaybeId /\ (u \in Referable => Own(u, id, made[u]))
    BY KnownIds DEF MaybeId, Own
<1>2. NothingWritten /\ Record(u, "failed", id)
    BY DEF Fails
<1> HIDE DEF id
<1> QED
    BY <1>1, <1>2, RecordKeeps

LEMMA ProcessKeeps ==
    ASSUME IInv, NEW u \in Units, Process(u)
    PROVE  IInv'
<1>1. Take(u)
    BY DEF Process
<1>2. CASE OutOfScope(u)
  <2>1. NothingWritten /\ NoFault /\ UNCHANGED <<rows, saved, flushFailed, acted>>
      BY <1>2 DEF OutOfScope, books
  <2>2. UNCHANGED <<source, bundle, made, target, context, existing>>
      BY <1>1, <2>1 DEF Take, NothingWritten
  <2>3. WorldTyped' /\ TargetGood' /\ BooksGood' /\ MemoryGood'
      BY <2>1, <2>2 DEF IInv, WorldTyped, TargetGood, ReferencesAreExact, Live, BooksGood,
                        MemoryGood
  <2>4. acted' \subseteq Units /\ flushFailed' \in BOOLEAN
      BY <2>1 DEF IInv, RunTyped
  <2> QED
      BY <1>1, <2>1, <2>3, <2>4, TakeKeeps DEF IInv
<1>3. CASE Skip(u) \/ Adopt(u) \/ AdoptPublished(u)
  <2>1. /\ NothingWritten /\ NoFault
        /\ \E action \in {"skipped", "adopted"} : Record(u, action, ExistingId(u))
      BY <1>3 DEF Skip, Adopt, AdoptPublished
  <2> QED
      BY <1>1, <2>1, KnownIds, RecordKeeps
<1>4. CASE NoParent(u)
  <2>1. NothingWritten /\ NoFault /\ Record(u, "skipped_no_object", NoId)
      BY <1>4 DEF NoParent
  <2>2. NoId \in MaybeId /\ Own(u, NoId, made[u])
      BY DEF MaybeId, Own
  <2> QED
      BY <1>1, <2>1, <2>2, RecordKeeps
<1>5. CASE Update(u)
  <2>1. CASE (Fault \/ NoFault) /\ Fails(u)
      BY <1>1, <2>1, FailureKeeps
  <2>2. CASE /\ RefsResolved(u) /\ Written(u, UpdatedId(u)) /\ UNCHANGED <<made, context>>
             /\ NoFault /\ Record(u, "updated", UpdatedId(u))
      BY <1>1, <2>2, KnownIds, WriteKeeps
  <2> QED
      BY <1>5, <2>1, <2>2 DEF Update
<1>6. CASE Create(u)
  <2>1. CASE (Fault \/ NoFault) /\ Fails(u)
      BY <1>1, <2>1, FailureKeeps
  <2>2. CASE /\ RefsResolved(u) /\ Written(u, <<u, made[u] + 1>>)
             /\ made' = [made EXCEPT ![u] = @ + 1] /\ NoFault
             /\ context' = [context EXCEPT ![u] = <<u, made[u] + 1>>]
             /\ Record(u, "created", <<u, made[u] + 1>>)
      BY <1>1, <2>2, CreationKeeps
  <2> QED
      BY <1>6, <2>1, <2>2 DEF Create
<1>7. CASE PublishDashboard(u)
  <2>1. CASE (Fault \/ NoFault) /\ Fails(u)
      BY <1>1, <2>1, FailureKeeps
  <2>2. CASE /\ RefsResolved(u) /\ Written(u, ParentId(u)) /\ UNCHANGED <<made, context>>
             /\ NoFault /\ Record(u, Calls(u), ParentId(u))
    <3>1. u \in Children /\ u \notin Referable /\ Calls(u) \in {"updated", "created"}
        BY <1>7 DEF PublishDashboard, Referable, Calls
    <3> QED
        BY <1>1, <2>2, <3>1, KnownIds, WriteKeeps
  <2> QED
      BY <1>7, <2>1, <2>2 DEF PublishDashboard
<1> QED
    BY <1>2, <1>3, <1>4, <1>5, <1>6, <1>7 DEF Process

(* --- the steps of a run and between runs ---------------------------------------------- *)

LEMMA FlushIsGood ==
    ASSUME IInv, NEW r \in [Units -> Row], Flush(r),
           \A v \in Referable : Own(v, r[v].id, made[v])
    PROVE  /\ saved' \in [Units -> Row] /\ flushFailed' \in BOOLEAN
           /\ \A v \in Referable : Own(v, saved'[v].id, made[v])
           /\ faults' \in Nat /\ dirty' \in BOOLEAN
<1>1. /\ saved \in [Units -> Row] /\ dirty \in BOOLEAN /\ faults \in Nat
      /\ \A v \in Referable : Own(v, saved[v].id, made[v])
  <2>1. faults \in Nat
      BY DEF IInv, CountsTyped
  <2> QED
      BY <2>1 DEF IInv, BooksGood, RunTyped
<1>2. CASE saved' = r /\ flushFailed' = FALSE /\ NoFault
    BY <1>1, <1>2 DEF NoFault
<1>3. CASE flushFailed' = TRUE /\ Fault /\ UNCHANGED saved
  <2>1. faults' \in Nat /\ dirty' \in BOOLEAN
      BY <1>1, <1>3 DEF Fault
  <2> QED
      BY <1>1, <1>3, <2>1
<1> QED
    BY <1>2, <1>3 DEF Flush

(* The parts of the invariant that only the books, the memory or the counters disturb. *)
LEMMA WorldKeeps ==
    ASSUME IInv, UNCHANGED <<world, bundle>>
    PROVE  WorldTyped' /\ TargetGood'
BY DEF world, IInv, WorldTyped, TargetGood, ReferencesAreExact, Live

LEMMA BooksKeep ==
    ASSUME IInv, UNCHANGED <<made, rows, saved>>
    PROVE  BooksGood'
BY DEF IInv, BooksGood

LEMMA MemoryKeeps ==
    ASSUME IInv, UNCHANGED <<made, context, existing>>
    PROVE  MemoryGood'
BY DEF IInv, MemoryGood

LEMMA CountsKeep ==
    ASSUME IInv, faults' \in Nat, kills' \in Nat,
           UNCHANGED <<edits, removals, deletions, runs>>
    PROVE  CountsTyped'
BY DEF IInv, CountsTyped

LEMMA ForgetIsGood ==
    ASSUME IInv, Forget, UNCHANGED made
    PROVE  /\ MemoryGood' /\ left' = {} /\ todo' = {} /\ acted' = {} /\ sel' = {}
           /\ mode' = "off" /\ facts' \in Facts
BY FactsAssumption DEF Forget, MemoryGood, MaybeId, Own, Referable

LEMMA BeginKeeps ==
    ASSUME IInv, NEW s \in SUBSET Families, NEW m \in {"off", "failed_only"}, NEW f \in Facts,
           Begin(s, m, f), runs' \in Nat
    PROVE  IInv'
<1>1. UNCHANGED <<source, target, made, context, existing, saved, edits, removals, deletions,
                  kills, faults>>
    BY DEF Begin, world, memory
<1>2. WorldTyped' /\ TargetGood'
    BY <1>1 DEF Begin, IInv, WorldTyped, TargetGood, ReferencesAreExact, Live
<1>3. BooksGood'
    BY <1>1 DEF Begin, IInv, BooksGood
<1>4. MemoryGood'
    BY <1>1, MemoryKeeps
<1>5. RunTyped'
    BY DEF Begin, memory, IInv, RunTyped
<1>6. CountsTyped'
    BY <1>1 DEF IInv, CountsTyped
<1> QED
    BY <1>2, <1>3, <1>4, <1>5, <1>6 DEF IInv

LEMMA StartKeeps == IInv /\ Start => IInv'
<1> SUFFICES ASSUME IInv, Start PROVE IInv'
    OBVIOUS
<1>1. PICK s \in Settings : runs' = runs + 1 /\ Begin(s.sel, s.mode, s.facts)
    BY DEF Start
<1>2. s.sel \in SUBSET Families /\ s.mode \in {"off", "failed_only"} /\ s.facts \in Facts
    BY SettingsAssumption
<1>3. runs' \in Nat
    BY <1>1 DEF IInv, CountsTyped
<1> QED
    BY <1>1, <1>2, <1>3, BeginKeeps

LEMMA ProceedKeeps == IInv /\ Proceed => IInv'
<1> SUFFICES ASSUME IInv, Proceed PROVE IInv'
    OBVIOUS
<1>1. runs' \in Nat
    BY DEF Proceed, IInv, CountsTyped
<1>2. PICK m \in {"off", "failed_only"} : Begin(Families, m, Usual)
    BY DEF Proceed
<1> QED
    BY <1>1, <1>2, FactsAssumption, BeginKeeps

LEMMA PassGatesKeeps == IInv /\ PassGates => IInv'
<1> SUFFICES ASSUME IInv, PassGates PROVE IInv'
    OBVIOUS
<1>1. /\ Deferred \in [Units -> Row]
      /\ \A v \in Referable : Own(v, Deferred[v].id, made[v])
  <2>1. /\ rows \in [Units -> Row] /\ bundle \in [Units -> Nat]
        /\ \A v \in Referable : Own(v, rows[v].id, made[v])
      BY DEF IInv, BooksGood, WorldTyped
  <2>2. \A u \in Units : Deferred[u] \in Row /\ Deferred[u].id = rows[u].id
      BY <2>1 DEF Deferred, Row
  <2>3. Deferred = [u \in Units |-> Deferred[u]]
      BY DEF Deferred
  <2> QED
      BY <2>1, <2>2, <2>3 DEF Referable
<1>2. UNCHANGED <<world, bundle, context, existing, todo, acted, setup, people, lost, owed>>
    BY DEF PassGates
<1>3. /\ saved' \in [Units -> Row] /\ flushFailed' \in BOOLEAN
      /\ \A v \in Referable : Own(v, saved'[v].id, made[v])
      /\ faults' \in Nat /\ dirty' \in BOOLEAN
  <2>1. CASE Flush(Deferred)
      BY <1>1, <2>1, FlushIsGood
  <2>2. CASE UNCHANGED <<saved, flushFailed>> /\ NoFault
    <3>1. faults \in Nat
        BY DEF IInv, CountsTyped
    <3> QED
        BY <2>2, <3>1 DEF NoFault, IInv, BooksGood, RunTyped
  <2> QED
      BY <2>1, <2>2 DEF PassGates
<1>4. BooksGood'
    BY <1>1, <1>2, <1>3 DEF PassGates, world, BooksGood
<1>5. WorldTyped' /\ TargetGood' /\ MemoryGood'
    BY <1>2, WorldKeeps, MemoryKeeps DEF world
<1>6. RunTyped'
  <2>1. PhasesOf(sel) \subseteq Families
      BY DEF PhasesOf, IInv, RunTyped
  <2> QED
      BY <1>2, <1>3, <2>1 DEF PassGates, setup, people, IInv, RunTyped
<1>7. CountsTyped'
  <2>1. kills' \in Nat
      BY <1>2 DEF people, IInv, CountsTyped
  <2> QED
      BY <1>2, <1>3, <2>1, CountsKeep DEF people
<1> QED
    BY <1>4, <1>5, <1>6, <1>7 DEF IInv

LEMMA AbortKeeps == IInv /\ Abort => IInv'
<1> SUFFICES ASSUME IInv, Abort PROVE IInv'
    OBVIOUS
<1>1. UNCHANGED <<world, books, people, bundle, lost, dirty, owed, faults>> /\ Forget
      /\ pc' = "idle"
    BY DEF Abort
<1>2. WorldTyped' /\ TargetGood' /\ BooksGood' /\ MemoryGood'
    BY <1>1, WorldKeeps, BooksKeep, ForgetIsGood DEF world, books
<1>3. RunTyped'
    BY <1>1, ForgetIsGood DEF world, books, people, IInv, RunTyped
<1>4. CountsTyped'
    BY <1>1 DEF people, IInv, CountsTyped
<1> QED
    BY <1>2, <1>3, <1>4 DEF IInv

LEMMA StartPhaseKeeps == IInv /\ StartPhase => IInv'
<1> SUFFICES ASSUME IInv, StartPhase PROVE IInv'
    OBVIOUS
<1> DEFINE f == FirstOf(left)
<1>1. UNCHANGED <<world, books, left, acted, setup, people, status, bundle, lost, dirty, owed,
                  faults>> /\ pc' = "units"
    BY DEF StartPhase
<1>2. WorldTyped' /\ TargetGood' /\ BooksGood'
    BY <1>1, WorldKeeps, BooksKeep DEF world, books
<1>3. MemoryGood'
  <2>1. /\ existing' = [u \in Units |-> IF u \in Listed(f) THEN target[u].id ELSE NoId]
        /\ context' = [u \in Units |-> IF u \in Listed(f) THEN target[u].id ELSE context[u]]
      BY DEF StartPhase
  <2>2. \A u \in Units : target[u].id \in MaybeId /\ context[u] \in MaybeId
      BY DEF IInv, TargetGood, MemoryGood, Object, MaybeId
  <2>3. \A v \in Referable : Own(v, target[v].id, made[v]) /\ Own(v, context[v], made[v])
      BY DEF IInv, TargetGood, MemoryGood
  <2>4. context' \in [Units -> MaybeId] /\ existing' \in [Units -> MaybeId]
      BY <2>1, <2>2 DEF MaybeId
  <2>5. \A v \in Referable : Own(v, context'[v], made[v]) /\ Own(v, existing'[v], made[v])
      BY <2>1, <2>3 DEF Referable, Own
  <2> QED
      BY <1>1, <2>4, <2>5 DEF MemoryGood, world
<1>4. RunTyped'
  <2>1. todo' \subseteq Units
      BY DEF StartPhase, InBundle
  <2> QED
      BY <1>1, <2>1 DEF books, setup, people, IInv, RunTyped
<1>5. CountsTyped'
    BY <1>1 DEF people, IInv, CountsTyped
<1> QED
    BY <1>2, <1>3, <1>4, <1>5 DEF IInv

(* A flush of rows whose ids are own, between phases and at the end of a run. *)
LEMMA SavingKeeps ==
    ASSUME IInv, Flush(rows'), rows' \in [Units -> Row],
           \A v \in Referable : Own(v, rows'[v].id, made[v]), UNCHANGED <<world, people, bundle>>
    PROVE  /\ WorldTyped' /\ TargetGood' /\ BooksGood' /\ CountsTyped'
           /\ flushFailed' \in BOOLEAN /\ dirty' \in BOOLEAN
<1>1. /\ saved' \in [Units -> Row] /\ flushFailed' \in BOOLEAN
      /\ \A v \in Referable : Own(v, saved'[v].id, made[v])
      /\ faults' \in Nat /\ dirty' \in BOOLEAN
    BY FlushIsGood
<1>2. WorldTyped' /\ TargetGood'
    BY WorldKeeps
<1>3. BooksGood'
    BY <1>1 DEF BooksGood, world
<1>4. CountsTyped'
    BY <1>1 DEF people, IInv, CountsTyped
<1> QED
    BY <1>1, <1>2, <1>3, <1>4

LEMMA EndPhaseKeeps == IInv /\ EndPhase => IInv'
<1> SUFFICES ASSUME IInv, EndPhase PROVE IInv'
    OBVIOUS
<1>1. /\ UNCHANGED <<world, rows, context, existing, todo, acted, setup, people, bundle, lost,
                     owed>>
      /\ Flush(rows) /\ pc' = "phases" /\ left' = left \ {FirstOf(left)}
    BY DEF EndPhase
<1>2. rows' = rows /\ rows \in [Units -> Row] /\ (\A v \in Referable : Own(v, rows[v].id, made[v]))
    BY <1>1 DEF IInv, BooksGood
<1>3. /\ WorldTyped' /\ TargetGood' /\ BooksGood' /\ CountsTyped'
      /\ flushFailed' \in BOOLEAN /\ dirty' \in BOOLEAN
    BY <1>1, <1>2, SavingKeeps
<1>4. MemoryGood'
    BY <1>1, MemoryKeeps DEF world
<1>5. RunTyped'
    BY <1>1, <1>3 DEF setup, people, IInv, RunTyped
<1> QED
    BY <1>3, <1>4, <1>5 DEF IInv

LEMMA MarkMissingKeeps == IInv /\ MarkMissing => IInv'
<1> SUFFICES ASSUME IInv, MarkMissing PROVE IInv'
    OBVIOUS
<1>1. /\ UNCHANGED <<world, memory, setup, people, status, bundle, lost, owed>> /\ pc' = "final"
      /\ rows' = [u \in Units |-> IF u \in Gone THEN [rows[u] EXCEPT !.action = "deleted_in_source"]
                                ELSE rows[u]]
    BY DEF MarkMissing
<1>2. /\ rows' \in [Units -> Row]
      /\ \A v \in Referable : Own(v, rows'[v].id, made[v])
  <2>1. rows \in [Units -> Row] /\ \A v \in Referable : Own(v, rows[v].id, made[v])
      BY DEF IInv, BooksGood
  <2>2. \A u \in Units : rows'[u] \in Row /\ rows'[u].id = rows[u].id
      BY <1>1, <2>1 DEF Row
  <2> QED
      BY <1>1, <2>1, <2>2 DEF Referable
<1>3. /\ WorldTyped' /\ TargetGood' /\ BooksGood' /\ CountsTyped'
      /\ flushFailed' \in BOOLEAN /\ dirty' \in BOOLEAN
  <2>1. CASE Flush(rows')
      BY <1>1, <1>2, <2>1, SavingKeeps
  <2>2. CASE UNCHANGED <<saved, flushFailed>> /\ NoFault
    <3>1. BooksGood'
        BY <1>1, <1>2, <2>2 DEF world, IInv, BooksGood
    <3>2. CountsTyped' /\ flushFailed' \in BOOLEAN /\ dirty' \in BOOLEAN
        BY <1>1, <2>2 DEF NoFault, people, IInv, CountsTyped, RunTyped
    <3> QED
        BY <1>1, <3>1, <3>2, WorldKeeps
  <2> QED
      BY <2>1, <2>2 DEF MarkMissing
<1>4. MemoryGood'
    BY <1>1, MemoryKeeps DEF world, memory
<1>5. RunTyped'
    BY <1>1, <1>3 DEF memory, setup, people, IInv, RunTyped
<1> QED
    BY <1>3, <1>4, <1>5 DEF IInv

LEMMA FinishKeeps == IInv /\ Finish => IInv'
<1> SUFFICES ASSUME IInv, Finish PROVE IInv'
    OBVIOUS
<1>1. /\ UNCHANGED <<world, rows, bundle, lost, people>> /\ Flush(rows) /\ Forget /\ pc' = "idle"
      /\ owed' \in BOOLEAN
    BY DEF Finish, Close
<1>2. rows' = rows /\ rows \in [Units -> Row] /\ (\A v \in Referable : Own(v, rows[v].id, made[v]))
    BY <1>1 DEF IInv, BooksGood
<1>3. /\ WorldTyped' /\ TargetGood' /\ BooksGood' /\ CountsTyped'
      /\ flushFailed' \in BOOLEAN /\ dirty' \in BOOLEAN
    BY <1>1, <1>2, SavingKeeps
<1>4. MemoryGood'
    BY <1>1, ForgetIsGood DEF world
<1>5. RunTyped'
    BY <1>1, <1>3, ForgetIsGood DEF world, people, IInv, RunTyped
<1> QED
    BY <1>3, <1>4, <1>5 DEF IInv

LEMMA InterruptKeeps == IInv /\ Interrupt => IInv'
<1> SUFFICES ASSUME IInv, Interrupt PROVE IInv'
    OBVIOUS
<1>1. /\ UNCHANGED <<world, rows, bundle, lost, people>> /\ Forget /\ Fault
      /\ pc' = "idle" /\ owed' = TRUE /\ saved' \in {rows, saved} /\ flushFailed' \in BOOLEAN
    BY DEF Interrupt
<1>2. faults' \in Nat /\ dirty' \in BOOLEAN
  <2>1. faults \in Nat
      BY DEF IInv, CountsTyped
  <2> QED
      BY <1>1, <2>1 DEF Fault
<1>3. WorldTyped' /\ TargetGood' /\ MemoryGood'
    BY <1>1, WorldKeeps, ForgetIsGood DEF world
<1>4. BooksGood'
    BY <1>1 DEF world, IInv, BooksGood
<1>5. RunTyped'
    BY <1>1, <1>2, ForgetIsGood DEF world, people, IInv, RunTyped
<1>6. CountsTyped'
    BY <1>1, <1>2 DEF people, IInv, CountsTyped
<1> QED
    BY <1>3, <1>4, <1>5, <1>6 DEF IInv

LEMMA KillKeeps == IInv /\ Kill => IInv'
<1> SUFFICES ASSUME IInv, Kill PROVE IInv'
    OBVIOUS
<1>1. /\ UNCHANGED <<world, saved, edits, removals, deletions, runs, settled, bundle, lost, dirty,
                     faults>>
      /\ Forget /\ pc' = "idle" /\ rows' = saved /\ flushFailed' = FALSE /\ owed' = TRUE
      /\ kills' = kills + 1
    BY DEF Kill
<1>2. WorldTyped' /\ TargetGood' /\ MemoryGood'
    BY <1>1, WorldKeeps, ForgetIsGood DEF world
<1>3. BooksGood'
    BY <1>1 DEF world, IInv, BooksGood
<1>4. RunTyped'
    BY <1>1, ForgetIsGood DEF world, IInv, RunTyped
<1>5. CountsTyped'
    BY <1>1 DEF IInv, CountsTyped
<1> QED
    BY <1>2, <1>3, <1>4, <1>5 DEF IInv

(* What people do between runs touches the source, the target and a counter. *)
LEMMA AsideKeeps ==
    ASSUME IInv, Aside, UNCHANGED <<made, settled>>
    PROVE  BooksGood' /\ MemoryGood' /\ RunTyped'
<1>1. UNCHANGED <<books, memory, setup, pc, status, bundle, lost, dirty, owed, faults, kills, runs>>
    BY DEF Aside
<1>2. BooksGood' /\ MemoryGood'
    BY <1>1, BooksKeep, MemoryKeeps DEF books, memory
<1>3. RunTyped'
    BY <1>1 DEF books, memory, setup, IInv, RunTyped
<1> QED
    BY <1>2, <1>3

LEMMA EditSourceKeeps ==
    ASSUME IInv, NEW u \in Units, EditSource(u) \/ RemoveFromSource(u)
    PROVE  IInv'
<1>1. Aside /\ UNCHANGED <<target, made, deletions, settled>>
    BY DEF EditSource, RemoveFromSource
<1>2. source' \in [Units -> Nat]
    BY DEF EditSource, RemoveFromSource, IInv, WorldTyped
<1>3. WorldTyped' /\ TargetGood'
    BY <1>1, <1>2 DEF Aside, IInv, WorldTyped, TargetGood, ReferencesAreExact, Live
<1>4. edits' \in Nat /\ removals' \in Nat
  <2>1. edits \in Nat /\ removals \in Nat
      BY DEF IInv, CountsTyped
  <2> QED
      BY <2>1 DEF EditSource, RemoveFromSource
<1>5. CountsTyped'
    BY <1>1, <1>4 DEF Aside, IInv, CountsTyped
<1> QED
    BY <1>1, <1>3, <1>5, AsideKeeps DEF IInv

LEMMA DeleteOnTargetKeeps ==
    ASSUME IInv, NEW u \in Units, DeleteOnTarget(u)
    PROVE  IInv'
<1>1. /\ Aside /\ UNCHANGED <<source, made, edits, removals, settled>>
      /\ target' = [v \in Units |->
                       IF v = u \/ (v \in Children /\ Parent[v] = u) THEN NoObject ELSE target[v]]
    BY DEF DeleteOnTarget
<1>2. WorldTyped'
    BY <1>1 DEF Aside, IInv, WorldTyped
<1>3. TargetGood'
  <2>1. \A v \in Units : target'[v] = target[v] \/ target'[v] = NoObject
      BY <1>1
  <2>2. \A v \in Units : NoObject \in Object(v) /\ Own(v, NoObject.id, made[v])
      BY DEF NoObject, Object, Own
  <2>3. \A v \in Units : target'[v] \in Object(v)
      BY <2>1, <2>2 DEF IInv, TargetGood
  <2>4. \A v \in Referable : Own(v, target'[v].id, made[v])
      BY <2>1, <2>2 DEF IInv, TargetGood, Referable
  <2>5. ReferencesAreExact'
      BY <1>1, <2>1 DEF IInv, TargetGood, ReferencesAreExact, Live
  <2> QED
      BY <1>1, <2>3, <2>4, <2>5 DEF TargetGood, Object
<1>4. deletions' \in Nat
  <2>1. deletions \in Nat
      BY DEF IInv, CountsTyped
  <2> QED
      BY <2>1 DEF DeleteOnTarget
<1>5. CountsTyped'
    BY <1>1, <1>4 DEF Aside, IInv, CountsTyped
<1> QED
    BY <1>1, <1>2, <1>3, <1>5, AsideKeeps DEF IInv

LEMMA SettleKeeps == IInv /\ Settle => IInv'
<1> SUFFICES ASSUME IInv, Settle PROVE IInv'
    OBVIOUS
<1>1. /\ UNCHANGED <<world, books, memory, setup, pc, bundle, lost, dirty, owed, faults, edits,
                     removals, deletions, kills, runs>>
      /\ settled' = TRUE
    BY DEF Settle
<1>2. WorldTyped' /\ TargetGood' /\ BooksGood' /\ MemoryGood'
    BY <1>1, WorldKeeps, BooksKeep, MemoryKeeps DEF world, books, memory
<1>3. RunTyped' /\ CountsTyped'
    BY <1>1 DEF books, memory, setup, IInv, RunTyped, CountsTyped
<1> QED
    BY <1>2, <1>3 DEF IInv

LEMMA StutterKeeps == IInv /\ UNCHANGED vars => IInv'
<1> SUFFICES ASSUME IInv, UNCHANGED vars PROVE IInv'
    OBVIOUS
<1>1. WorldTyped' /\ TargetGood' /\ BooksGood' /\ MemoryGood'
    BY WorldKeeps, BooksKeep, MemoryKeeps DEF vars, world, books, memory
<1>2. RunTyped' /\ CountsTyped'
    BY DEF vars, books, memory, setup, people, IInv, RunTyped, CountsTyped
<1> QED
    BY <1>1, <1>2 DEF IInv

(* --- the theorems ------------------------------------------------------------------------ *)

LEMMA InitIsGood == Init => IInv
<1> SUFFICES ASSUME Init PROVE IInv
    OBVIOUS
<1>1. WorldTyped
    BY DEF Init, WorldTyped
<1>2. TargetGood
    BY DEF Init, TargetGood, ReferencesAreExact, Live, NoObject, Object, Own, Referable
<1>3. BooksGood
    BY DEF Init, BooksGood, NoRow, Row, Own, Referable
<1>4. MemoryGood
    BY DEF Init, MemoryGood, MaybeId, Own, Referable
<1>5. RunTyped
    BY FactsAssumption DEF Init, RunTyped
<1>6. CountsTyped
    BY DEF Init, CountsTyped
<1> QED
    BY <1>1, <1>2, <1>3, <1>4, <1>5, <1>6 DEF IInv

LEMMA NextKeeps == IInv /\ [Next]_vars => IInv'
<1> SUFFICES ASSUME IInv, [Next]_vars PROVE IInv'
    OBVIOUS
<1>1. CASE Start \/ Proceed \/ Settle
    BY <1>1, StartKeeps, ProceedKeeps, SettleKeeps
<1>2. CASE RunStep
    BY <1>2, PassGatesKeeps, AbortKeeps, StartPhaseKeeps, ProcessKeeps, EndPhaseKeeps,
       MarkMissingKeeps, FinishKeeps DEF RunStep
<1>3. CASE Disturbance
    BY <1>3, InterruptKeeps, KillKeeps DEF Disturbance
<1>4. CASE Outside
    BY <1>4, EditSourceKeeps, DeleteOnTargetKeeps DEF Outside
<1>5. CASE UNCHANGED vars
    BY <1>5, StutterKeeps
<1> QED
    BY <1>1, <1>2, <1>3, <1>4, <1>5 DEF Next

(* Every variable of the runner keeps its type, for any assets, runs and troubles. *)
THEOREM RunnerIsTyped == Spec => []ImportRunTypeOK
<1>1. IInv => ImportRunTypeOK
    BY IInvImplies
<1> QED
    BY <1>1, InitIsGood, NextKeeps, PTL DEF Spec

(* BaseImporter.require_remap: what is written to the target refers to objects that were
   made there for the very assets the source refers to; no source id gets through.     *)
THEOREM ReferencesStayExact == Spec => []ReferencesAreExact
<1>1. IInv => ReferencesAreExact
    BY IInvImplies
<1> QED
    BY <1>1, InitIsGood, NextKeeps, PTL DEF Spec

(* ImportRunner.run: a run ends green only if the table holds all its rows. *)
THEOREM GreenIsSaved == Spec => []GreenRunsAreSaved
<1>1. Init => GreenRunsAreSaved
    BY DEF Init, GreenRunsAreSaved
<1>2. GreenRunsAreSaved /\ [Next]_vars => GreenRunsAreSaved'
  <2> SUFFICES ASSUME GreenRunsAreSaved, [Next]_vars PROVE GreenRunsAreSaved'
      OBVIOUS
  <2>1. CASE Start \/ Proceed
      BY <2>1 DEF Start, Proceed, Begin, GreenRunsAreSaved
  <2>2. CASE RunStep
    <3>1. CASE PassGates \/ StartPhase \/ EndPhase \/ MarkMissing
        BY <3>1 DEF PassGates, StartPhase, EndPhase, MarkMissing, GreenRunsAreSaved
    <3>2. CASE Abort
        BY <3>2 DEF Abort, GreenRunsAreSaved
    <3>3. CASE \E u \in Units : Process(u)
        BY <3>3 DEF Process, Take, GreenRunsAreSaved
    <3>4. CASE Finish
        BY <3>4 DEF Finish, Close, Flush, GreenRunsAreSaved
    <3> QED
        BY <2>2, <3>1, <3>2, <3>3, <3>4 DEF RunStep
  <2>3. CASE Disturbance
      BY <2>3 DEF Disturbance, Interrupt, Kill, GreenRunsAreSaved
  <2>4. CASE Outside \/ Settle
    <3>1. UNCHANGED <<pc, status, rows, saved>>
        BY <2>4 DEF Outside, EditSource, RemoveFromSource, DeleteOnTarget, Aside, Settle, books
    <3> QED
        BY <3>1 DEF GreenRunsAreSaved
  <2>5. CASE UNCHANGED vars
      BY <2>5 DEF vars, books, GreenRunsAreSaved
  <2> QED
      BY <2>1, <2>2, <2>3, <2>4, <2>5 DEF Next
<1> QED
    BY <1>1, <1>2, PTL DEF Spec

(* The runner's gates: a preflight that is enforced lets no run through on these facts,
   and the bundle and the state table are looked at again whatever it said.           *)
LEMMA OpenGates ==
    ASSUME NEW f \in Facts, GatesOpen(f)
    PROVE  /\ f.skipVerify \/ f.manifest = "whole"
           /\ f.pointer # "mismatch"
           /\ f.enforce => /\ f.admin /\ f.staging = "listed"
                           /\ f.direct => f.sourceReadable
                           /\ f.groups # {} => f.groupsListed # "never"
<1>1. (f.skipVerify \/ f.manifest = "whole") /\ f.pointer # "mismatch"
    BY DEF GatesOpen, VerifyBundle, PointerMatches
<1>2. ASSUME f.enforce
      PROVE  Finding(FALSE, "BLOCKING") \notin Findings(f)
    BY <1>2 DEF GatesOpen, EnforcePreflight, Verdict
<1>3. /\ f.admin \in BOOLEAN /\ f.direct \in BOOLEAN /\ f.sourceReadable \in BOOLEAN
    BY DEF Facts
<1>4. ASSUME f.enforce PROVE f.admin
    BY <1>2, <1>3, <1>4 DEF Findings, CheckTargetAdmin
<1>5. ASSUME f.enforce PROVE f.staging = "listed"
  <2>1. (f.staging = "listed") \in BOOLEAN
      OBVIOUS
  <2> QED
      BY <1>2, <1>5, <2>1 DEF Findings, CheckStaging
<1>6. ASSUME f.enforce, f.direct PROVE f.sourceReadable
  <2>1. (f.direct => f.sourceReadable) \in BOOLEAN
      OBVIOUS
  <2> QED
      BY <1>2, <1>6, <1>3, <2>1 DEF Findings, CheckSource
<1>7. ASSUME f.enforce, f.groups # {} PROVE f.groupsListed # "never"
    BY <1>2, <1>7 DEF Findings, CheckAccountGroups
<1> QED
    BY <1>1, <1>4, <1>5, <1>6, <1>7

(* ImportRunner.run: no phase starts on a bundle that is not whole, with a table that could
   not be loaded, or against an enforced blocker, even when the check that looks for it
   broke.                                                                                  *)
THEOREM NothingStartsUncheckedEver == Spec => []NothingStartsUnchecked
<1>1. Init => NothingStartsUnchecked
    BY DEF Init, NothingStartsUnchecked
<1>2. IInv /\ NothingStartsUnchecked /\ [Next]_vars => NothingStartsUnchecked'
  <2> SUFFICES ASSUME IInv, NothingStartsUnchecked, [Next]_vars PROVE NothingStartsUnchecked'
      OBVIOUS
  <2>1. CASE PassGates
    <3>1. facts \in Facts /\ GatesOpen(facts) /\ facts.table /\ facts' = facts
        BY <2>1 DEF PassGates, setup, IInv, RunTyped
    <3> QED
        BY <3>1, OpenGates DEF NothingStartsUnchecked
  <2>2. CASE pc' \in {"idle", "gates"}
      BY <2>2 DEF NothingStartsUnchecked
  <2>3. CASE pc \in {"phases", "units", "final"} /\ facts' = facts
      BY <2>3 DEF NothingStartsUnchecked
  <2>4. Start \/ Proceed => pc' = "gates"
      BY DEF Start, Proceed, Begin
  <2>5. Abort \/ Finish \/ Disturbance \/ Outside \/ Settle => pc' = "idle"
      BY DEF Abort, Finish, Disturbance, Interrupt, Kill, Outside, EditSource,
             RemoveFromSource, DeleteOnTarget, Aside, Settle
  <2>6. StartPhase \/ EndPhase \/ MarkMissing \/ (\E u \in Units : Process(u)) =>
            pc \in {"phases", "units", "final"} /\ facts' = facts
      BY DEF StartPhase, EndPhase, MarkMissing, Process, Take, setup
  <2>7. UNCHANGED vars => UNCHANGED <<pc, facts>>
      BY DEF vars, setup
  <2> QED
      BY <2>1, <2>2, <2>3, <2>4, <2>5, <2>6, <2>7 DEF Next, RunStep, NothingStartsUnchecked
<1> QED
    BY <1>1, <1>2, InitIsGood, NextKeeps, PTL DEF Spec

(* --- the order of the phases ----------------------------------------------------- *)

LEMMA FamiliesAre ==
    Families = {"identity", "compute", "workspace", "secrets", "sql", "dlt", "jobs",
                "dashboards", "genie", "serving", "misc", "acls"}
<1>1. DOMAIN PhaseOrder = 1..12
    BY DEF PhaseOrder
<1>2. Families = {PhaseOrder[i] : i \in 1..12}
    BY <1>1 DEF Families
<1> QED
    BY <1>2 DEF PhaseOrder

(* The place of a family in the order of the phases. *)
LEMMA RankOf ==
    ASSUME NEW i \in 1..12
    PROVE  PhaseOrder[i] \in Families /\ Rank[PhaseOrder[i]] = i
<1>1. DOMAIN PhaseOrder = 1..12
    BY DEF PhaseOrder
<1>2. \A j \in 1..12 : PhaseOrder[j] = PhaseOrder[i] => j = i
    BY DEF PhaseOrder
<1>3. PhaseOrder[i] \in Families
    BY <1>1 DEF Families
<1>4. Rank[PhaseOrder[i]] = CHOOSE j \in 1..12 : PhaseOrder[j] = PhaseOrder[i]
    BY <1>1, <1>3 DEF Rank
<1> QED
    BY <1>2, <1>3, <1>4

LEMMA Ranks ==
    /\ Rank["identity"] = 1 /\ Rank["compute"] = 2 /\ Rank["workspace"] = 3
    /\ Rank["secrets"] = 4 /\ Rank["sql"] = 5 /\ Rank["dlt"] = 6 /\ Rank["jobs"] = 7
    /\ Rank["dashboards"] = 8 /\ Rank["genie"] = 9 /\ Rank["serving"] = 10
    /\ Rank["misc"] = 11 /\ Rank["acls"] = 12
<1>1. \A i \in 1..12 : Rank[PhaseOrder[i]] = i
    BY RankOf
<1> QED
    BY <1>1 DEF PhaseOrder

(* The phase that runs is the first of those left. *)
LEMMA FirstIsFirst ==
    ASSUME NEW s \in SUBSET Families, s # {}
    PROVE  FirstOf(s) \in s /\ \A f \in s : Rank[FirstOf(s)] <= Rank[f]
<1>1. \A f \in Families : Rank[f] \in Nat
    BY FamiliesAre, Ranks
<1> DEFINE ranks == {Rank[f] : f \in s}
<1>2. ranks \subseteq Nat /\ ranks # {}
    BY <1>1
<1>3. PICK n \in ranks : \A m \in ranks : <<m, n>> \notin OpToRel(<, Nat)
    BY <1>2, NatLessThanWellFounded, WFMin
<1>4. \A m \in ranks : ~(m < n)
    BY <1>2, <1>3 DEF OpToRel
<1>5. \E f \in s : \A g \in s : Rank[f] <= Rank[g]
    BY <1>1, <1>4
<1> QED
    BY <1>5 DEF FirstOf

(* The types of each family. *)
LEMMA TypesByFamily ==
    /\ TypesOf("compute") = {"instance_pool", "cluster_policy", "cluster"}
    /\ TypesOf("jobs") = {"job"}
    /\ TypesOf("sql") = {"sql_warehouse", "legacy_query", "legacy_alert", "alert_v2",
                         "legacy_dashboard"}
    /\ TypesOf("dlt") = {"dlt_pipeline"}
    /\ TypesOf("dashboards") = {"lakeview_dashboard", "lakeview_dashboard_publish",
                                "lakeview_dashboard_schedule"}
    /\ TypesOf("genie") = {"genie_space"}
BY DEF TypesOf, FamilyTypes

LEMMA OtherTypes ==
    /\ TypesOf("identity") = {"user", "service_principal", "group", "group_membership"}
    /\ TypesOf("workspace") = {"directory", "notebook", "workspace_file", "repo"}
    /\ TypesOf("secrets") = {"secret_scope", "secret_value"}
    /\ TypesOf("serving") = {"serving_endpoint"}
    /\ TypesOf("misc") = {"global_init_script", "cluster_library", "workspace_conf"}
    /\ TypesOf("acls") = {"acl"}
BY DEF TypesOf, FamilyTypes

LEMMA FamilyIs ==
    ASSUME NEW f \in Families, NEW t \in TypesOf(f)
    PROVE  t \in AssetTypes /\ FamilyOf[t] = f
<1>1. t \in AssetTypes
    BY DEF AssetTypes
<1>2. \A g \in Families : t \in TypesOf(g) => g = f
    BY FamiliesAre, TypesByFamily, OtherTypes
<1>3. FamilyOf[t] = CHOOSE g \in Families : t \in TypesOf(g)
    BY <1>1 DEF FamilyOf
<1> QED
    BY <1>1, <1>2, <1>3

(* The place of a type in its importer. *)
LEMMA TypeRankIs ==
    ASSUME NEW f \in Families, NEW n \in Nat, DOMAIN FamilyTypes(f) = 1..n,
           \A i, j \in 1..n : FamilyTypes(f)[i] = FamilyTypes(f)[j] => i = j,
           NEW k \in 1..n
    PROVE  FamilyOf[FamilyTypes(f)[k]] = f /\ TypeRank[FamilyTypes(f)[k]] = k
<1> DEFINE t == FamilyTypes(f)[k]
<1>1. t \in TypesOf(f)
    BY DEF TypesOf
<1>2. t \in AssetTypes /\ FamilyOf[t] = f
    BY <1>1, FamilyIs
<1>3. TypeRank[t] = CHOOSE i \in DOMAIN FamilyTypes(FamilyOf[t]) : FamilyTypes(FamilyOf[t])[i] = t
    BY <1>2 DEF TypeRank
<1> HIDE DEF t
<1>4. TypeRank[t] = CHOOSE i \in 1..n : FamilyTypes(f)[i] = t
    BY <1>2, <1>3
<1> USE DEF t
<1>5. TypeRank[t] = k
    BY <1>4
<1> QED
    BY <1>2, <1>5

LEMMA OrderInCompute ==
    /\ LoadedBefore("instance_pool", "cluster_policy")
    /\ LoadedBefore("instance_pool", "cluster")
    /\ LoadedBefore("cluster_policy", "cluster")
<1> DEFINE f == "compute"
<1>1. f \in Families
    BY FamiliesAre
<1>2. FamilyTypes(f) = <<"instance_pool", "cluster_policy", "cluster">>
    BY DEF FamilyTypes
<1>3. /\ DOMAIN FamilyTypes(f) = 1..3
      /\ \A i, j \in 1..3 : FamilyTypes(f)[i] = FamilyTypes(f)[j] => i = j
    BY <1>2
<1>4. \A k \in 1..3 : FamilyOf[FamilyTypes(f)[k]] = f /\ TypeRank[FamilyTypes(f)[k]] = k
    BY <1>1, <1>3, TypeRankIs
<1> QED
    BY <1>2, <1>4 DEF LoadedBefore

LEMMA OrderInSql ==
    /\ LoadedBefore("sql_warehouse", "legacy_query") /\ LoadedBefore("sql_warehouse", "alert_v2")
    /\ LoadedBefore("sql_warehouse", "legacy_alert")
    /\ LoadedBefore("legacy_query", "legacy_alert")
<1> DEFINE f == "sql"
<1>1. f \in Families
    BY FamiliesAre
<1>2. FamilyTypes(f) = <<"sql_warehouse", "legacy_query", "legacy_alert", "alert_v2",
                         "legacy_dashboard">>
    BY DEF FamilyTypes
<1>3. /\ DOMAIN FamilyTypes(f) = 1..5
      /\ \A i, j \in 1..5 : FamilyTypes(f)[i] = FamilyTypes(f)[j] => i = j
    BY <1>2
<1>4. \A k \in 1..5 : FamilyOf[FamilyTypes(f)[k]] = f /\ TypeRank[FamilyTypes(f)[k]] = k
    BY <1>1, <1>3, TypeRankIs
<1> QED
    BY <1>2, <1>4 DEF LoadedBefore

LEMMA OrderInDashboards == LoadedBefore("lakeview_dashboard", "lakeview_dashboard_publish")
<1> DEFINE f == "dashboards"
<1>1. f \in Families
    BY FamiliesAre
<1>2. FamilyTypes(f) = <<"lakeview_dashboard", "lakeview_dashboard_publish",
                         "lakeview_dashboard_schedule">>
    BY DEF FamilyTypes
<1>3. /\ DOMAIN FamilyTypes(f) = 1..3
      /\ \A i, j \in 1..3 : FamilyTypes(f)[i] = FamilyTypes(f)[j] => i = j
    BY <1>2
<1>4. \A k \in 1..3 : FamilyOf[FamilyTypes(f)[k]] = f /\ TypeRank[FamilyTypes(f)[k]] = k
    BY <1>1, <1>3, TypeRankIs
<1> QED
    BY <1>2, <1>4 DEF LoadedBefore

(* phases.py and the order inside an importer: what an asset refers to, unless it is of its
   own type, is loaded in an earlier phase or earlier in the same one.                     *)
THEOREM ReferencedComesFirst ==
    ASSUME NEW t, NEW s \in ReferencedTypes(t), s # t
    PROVE  Rank[FamilyOf[s]] < Rank[FamilyOf[t]] \/ LoadedBefore(s, t)
<1>1. /\ FamilyOf["instance_pool"] = "compute" /\ FamilyOf["cluster_policy"] = "compute"
      /\ FamilyOf["cluster"] = "compute" /\ FamilyOf["job"] = "jobs"
      /\ FamilyOf["sql_warehouse"] = "sql" /\ FamilyOf["legacy_query"] = "sql"
      /\ FamilyOf["dlt_pipeline"] = "dlt"
  <2>1. {"compute", "jobs", "sql", "dlt"} \subseteq Families
      BY FamiliesAre
  <2>2. \A f \in Families : \A x \in TypesOf(f) : FamilyOf[x] = f
      BY FamilyIs
  <2> QED
      BY <2>1, <2>2, TypesByFamily
<1>2. /\ FamilyOf["lakeview_dashboard"] = "dashboards" /\ FamilyOf["genie_space"] = "genie"
      /\ FamilyOf["lakeview_dashboard_publish"] = "dashboards"
      /\ FamilyOf["lakeview_dashboard_schedule"] = "dashboards"
  <2>1. {"dashboards", "genie"} \subseteq Families
      BY FamiliesAre
  <2>2. \A f \in Families : \A x \in TypesOf(f) : FamilyOf[x] = f
      BY FamilyIs
  <2> QED
      BY <2>1, <2>2, TypesByFamily
<1>3. CASE t = "job"
  <2>1. s \in {"instance_pool", "cluster_policy", "cluster", "sql_warehouse", "legacy_query",
               "dlt_pipeline"}
      BY <1>3 DEF ReferencedTypes, JobRefs, ClusterRefs, TaskRefs, WarehouseRefs
  <2> QED
      BY <1>1, <1>3, <2>1, Ranks
<1>4. CASE t \in {"lakeview_dashboard", "lakeview_dashboard_publish",
                  "lakeview_dashboard_schedule", "genie_space"}
  <2>1. s = "sql_warehouse"
      BY <1>4 DEF ReferencedTypes, DashboardRefs, PublishRefs, ScheduleRefs, GenieRefs,
                  WarehouseRefs
  <2> QED
      BY <1>1, <1>2, <1>4, <2>1, Ranks
<1>5. CASE t \in {"legacy_query", "alert_v2", "legacy_alert"}
    BY <1>5, OrderInSql DEF ReferencedTypes, QueryRefs, AlertRefs, LegacyAlertRefs, WarehouseRefs
<1>6. CASE t = "dlt_pipeline"
  <2>1. s \in {"instance_pool", "cluster_policy"}
      BY <1>6 DEF ReferencedTypes, PipelineRefs, ClusterRefs
  <2> QED
      BY <1>1, <1>6, <2>1, Ranks
<1>7. CASE t \in {"cluster_policy", "cluster"}
    BY <1>7, OrderInCompute DEF ReferencedTypes, PolicyRefs, ClusterRefs
<1>8. t \in {"job", "lakeview_dashboard", "lakeview_dashboard_publish",
             "lakeview_dashboard_schedule", "genie_space", "legacy_query", "alert_v2",
             "legacy_alert", "dlt_pipeline", "cluster_policy", "cluster"}
    BY DEF ReferencedTypes
<1> QED
    BY <1>3, <1>4, <1>5, <1>6, <1>7, <1>8

(* --- what a clean run leaves behind ------------------------------------------------ *)

(* The state that the order of the phases acts on: what is published is published under
   its dashboard, and no object is newer than its source. *)
WorldKnown ==
    /\ \A u \in Units : Live(u) => target[u].id # NoId
    /\ \A u \in Children : Live(u) => target[u].id = target[Parent[u]].id
    /\ \A u \in Children : source[u] > 0 => source[Parent[u]] > 0
    /\ \A u \in Units : source[u] > 0 /\ Live(u) => target[u].version <= source[u]
    /\ pc # "idle" => bundle = source

(* An id is made anew only for an object that is gone. *)
MadeOnce == deletions = 0 => \A u \in Referable : made[u] <= 1 /\ (made[u] = 1 => Live(u))

(* A row of an object that was never lost knows its id, and not more than it holds. *)
Knows(row, u) == row.id = target[u].id /\ row.fp <= target[u].version
RowsKnow == pc # "idle" => \A u \in Units \ lost : Live(u) => Knows(rows[u], u)
SavedKnow ==
    \A u \in Units \ lost : Live(u) /\ saved[u].id = target[u].id => Knows(saved[u], u)

Plausible(row, u) ==
    /\ source[u] > 0 => row.fp <= source[u]
    /\ row.action \in {"none", "not_selected"} => row.id = NoId
BooksKnown == \A u \in Units : Plausible(rows[u], u) /\ Plausible(saved[u], u)

(* What the run resolves with is what is there, and what the phase listed is all of it. *)
ContextKnown ==
    /\ \A u \in Units : context[u] # NoId => context[u] = target[u].id
    /\ pc \in {"idle", "gates"} => \A u \in Units : context[u] = NoId
    /\ pc = "final" => left = {}

ListingKnown ==
    pc = "units" =>
        /\ left # {}
        /\ \A u \in todo : u \in InBundle /\ Family[u] = FirstOf(left)
        /\ \A u \in InBundle \ Children :
              Family[u] = FirstOf(left) /\ Live(u) => context[u] # NoId
        /\ \A u \in todo \ Children : existing[u] = context[u]

(* Units whose turn in this run has passed. *)
Done(u) ==
    /\ u \in InBundle
    /\ \/ Family[u] \notin left
       \/ pc = "units" /\ Family[u] = FirstOf(left) /\ u \notin todo

Sound(us) == us \subseteq InBundle /\ Closed(us) /\ InPhaseOrder(us)
Clean == pc \in {"phases", "units", "final"} /\ mode = "off" /\ sel = Families /\ ~dirty
Resolved(u) ==
    /\ u \notin Children => context[u] # NoId
    /\ u \notin lost => Live(u) /\ target[u].version = bundle[u]
DoneResolved ==
    Clean => \A us \in SUBSET Units : Sound(us) => \A u \in us : Done(u) => Resolved(u)

KnownInv ==
    WorldKnown /\ MadeOnce /\ RowsKnow /\ SavedKnow /\ BooksKnown /\ ContextKnown /\ ListingKnown
RInv == IInv /\ KnownInv /\ DoneResolved

(* --- what one unit finds -------------------------------------------------------------- *)

LEMMA NoObjectIs == NoObject.id = NoId /\ NoObject.version = 0
BY DEF NoObject

(* A dashboard is loaded by the importer of its publish state, and before it. *)
LEMMA ParentComesFirst ==
    ASSUME NEW u \in Children
    PROVE  Parent[u] \in Referable /\ Parent[u] \in Units /\ u \in Units
           /\ Family[Parent[u]] = Family[u] /\ Parent[u] \in LoadedFirst[u]
<1>1. Parent[u] \in Referable /\ Parent[u] \in Units /\ u \in Units
    BY ParentIsReferable DEF Referable, Children
<1>2. Type[Parent[u]] = "lakeview_dashboard" /\ Type[u] = "lakeview_dashboard_publish"
    BY ParentAssumption DEF Children, Publish
<1>3. LoadedBefore(Type[Parent[u]], Type[u])
    BY <1>2, OrderInDashboards
<1>4. FamilyOf[Type[Parent[u]]] = FamilyOf[Type[u]]
    BY <1>3 DEF LoadedBefore
<1> QED
    BY <1>1, <1>3, <1>4 DEF Family, LoadedFirst

LEMMA DecisionIs ==
    ASSUME NEW u \in Units
    PROVE  /\ Decision(u) \in {"CREATE", "ADOPT", "UPDATE", "SKIP"}
           /\ Decision(u) = "CREATE" <=> ExistingId(u) = NoId
           /\ Decision(u) = "ADOPT" => rows[u] = NoRow \/ u \in Children
           /\ Decision(u) = "SKIP" => rows[u] # NoRow /\ rows[u].fp = bundle[u]
BY DEF Decision

(* The turn of a unit: it finds the object it has, and its dashboard. *)
LEMMA TurnOf ==
    ASSUME IInv, KnownInv, NEW u \in Units, Take(u)
    PROVE  /\ pc = "units" /\ u \in InBundle /\ bundle = source /\ bundle[u] \in Nat \ {0}
           /\ Live(u) => ExistingId(u) = target[u].id /\ target[u].id # NoId
           /\ ~Live(u) => ExistingId(u) = NoId
           /\ u \in Children => (Live(Parent[u]) => ParentId(u) = target[Parent[u]].id)
           /\ u \notin Children => existing[u] = context[u]
<1>1. /\ pc = "units" /\ u \in InBundle /\ bundle = source /\ u \in todo
      /\ Family[u] = FirstOf(left)
    BY DEF Take, KnownInv, WorldKnown, ListingKnown
<1>2. bundle[u] \in Nat \ {0}
    BY <1>1 DEF InBundle, IInv, WorldTyped
<1>3. Live(u) => target[u].id # NoId
    BY DEF KnownInv, WorldKnown
<1>4. ASSUME u \notin Children
      PROVE  /\ existing[u] = context[u]
             /\ Live(u) => ExistingId(u) = target[u].id
             /\ ~Live(u) => ExistingId(u) = NoId
  <2>1. existing[u] = context[u] /\ ExistingId(u) = existing[u]
      BY <1>1, <1>4 DEF KnownInv, ListingKnown, ExistingId
  <2>2. context[u] # NoId => context[u] = target[u].id
      BY DEF KnownInv, ContextKnown
  <2>3. Live(u) => context[u] # NoId
      BY <1>1, <1>4 DEF KnownInv, ListingKnown
  <2>4. ~Live(u) => target[u].id = NoId
      BY NoObjectIs DEF Live
  <2> QED
      BY <2>1, <2>2, <2>3, <2>4
<1>5. ASSUME u \in Children
      PROVE  /\ Live(Parent[u]) => ParentId(u) = target[Parent[u]].id
             /\ Live(u) => ExistingId(u) = target[u].id
             /\ ~Live(u) => ExistingId(u) = NoId
  <2>1. /\ Parent[u] \in Units \ Children /\ Family[Parent[u]] = FirstOf(left)
      BY <1>1, <1>5, ParentComesFirst DEF Referable
  <2>2. source[Parent[u]] > 0
      BY <1>1, <1>2, <1>5 DEF KnownInv, WorldKnown
  <2>3. Parent[u] \in InBundle
      BY <1>1, <2>1, <2>2 DEF InBundle
  <2>4. Live(Parent[u]) => ParentId(u) = target[Parent[u]].id
      BY <1>1, <2>1, <2>3 DEF KnownInv, ListingKnown, ContextKnown, ParentId
  <2>5. Live(u) => target[u].id = target[Parent[u]].id
      BY <1>5 DEF KnownInv, WorldKnown
  <2>6. Live(u) => Live(Parent[u])
      BY <1>3, <2>5, NoObjectIs DEF Live
  <2> QED
      BY <1>5, <2>4, <2>5, <2>6 DEF ExistingId
<1> QED
    BY <1>1, <1>2, <1>3, <1>4, <1>5

LEMMA IdsAreIds == NoId \notin Ids
<1> SUFFICES ASSUME NEW w \in Units, NEW n \in Nat PROVE <<w, n>> # NoId
    BY DEF Ids
<1>1. DOMAIN <<w, n>> = 1..2
    OBVIOUS
<1>2. DOMAIN NoId = {}
    BY DEF NoId
<1> QED
    BY <1>1, <1>2

(* --- what one unit does ---------------------------------------------------------------- *)

Noted(u, row) == rows' = [rows EXCEPT ![u] = row] /\ (saved' = saved \/ saved' = rows')

(* A row that leaves the object as it is, and one of an object that was written. *)
Left(u, row) ==
    /\ NothingWritten
    /\ u \notin lost /\ Live(u) => Knows(row, u)
Put(u, row) ==
    /\ row.id # NoId /\ row.fp = bundle[u] /\ Written(u, row.id)
    /\ u \in Children => row.id = target[Parent[u]].id
    /\ \/ UNCHANGED <<made, context>> /\ (u \notin Children => row.id = target[u].id)
       \/ /\ u \notin Children /\ ~Live(u) /\ row.id = <<u, made[u] + 1>>
          /\ made' = [made EXCEPT ![u] = @ + 1] /\ context' = [context EXCEPT ![u] = row.id]
Turn(u) ==
    \E row \in Row :
        /\ Noted(u, row) /\ (Left(u, row) \/ Put(u, row))
        /\ row.fp \in {rows[u].fp, bundle[u]}
        /\ row = rows[u] \/ row.action \notin {"none", "not_selected"}

Outcomes == {"created", "updated", "adopted", "skipped", "skipped_no_object", "failed"}

(* The row that record() makes. *)
RowOf(u, action, id) ==
    [action |-> action, fp |-> IF action = "failed" THEN rows[u].fp ELSE bundle[u],
     id |-> IF id = NoId THEN rows[u].id ELSE id]

LEMMA RecordIs ==
    ASSUME IInv, NEW u \in Units, NEW action \in Outcomes, NEW id \in MaybeId,
           Record(u, action, id)
    PROVE  /\ Noted(u, RowOf(u, action, id)) /\ RowOf(u, action, id) \in Row
           /\ RowOf(u, action, id).fp \in {rows[u].fp, bundle[u]}
           /\ RowOf(u, action, id).action \notin {"none", "not_selected"}
<1>1. rows[u] \in Row /\ bundle[u] \in Nat
    BY DEF IInv, BooksGood, WorldTyped
<1>2. RowOf(u, action, id) \in Row
    BY <1>1 DEF RowOf, Row, MaybeId, Outcomes
<1>3. Noted(u, RowOf(u, action, id))
    BY DEF Record, Noted, RowOf
<1> QED
    BY <1>2, <1>3 DEF RowOf, Outcomes

(* The steps that record an outcome of an object they do not touch. *)
LEMMA LeavesIt ==
    ASSUME IInv, NEW u \in Units, NEW action \in Outcomes, NEW id \in MaybeId,
           Record(u, action, id), NothingWritten,
           (u \notin lost /\ Live(u)) => Knows(RowOf(u, action, id), u)
    PROVE  Turn(u)
<1> DEFINE row == RowOf(u, action, id)
<1>1. /\ Noted(u, row) /\ row \in Row /\ row.fp \in {rows[u].fp, bundle[u]}
      /\ row.action \notin {"none", "not_selected"}
    BY RecordIs
<1>2. Left(u, row)
    BY DEF Left
<1> HIDE DEF row
<1> QED
    BY <1>1, <1>2 DEF Turn

LEMMA PutsIt ==
    ASSUME IInv, NEW u \in Units, NEW action \in Outcomes \ {"failed"}, NEW id \in Ids,
           Record(u, action, id), Written(u, id), u \in Children => id = target[Parent[u]].id,
           \/ UNCHANGED <<made, context>> /\ (u \notin Children => id = target[u].id)
           \/ /\ u \notin Children /\ ~Live(u) /\ id = <<u, made[u] + 1>>
              /\ made' = [made EXCEPT ![u] = @ + 1] /\ context' = [context EXCEPT ![u] = id]
    PROVE  Turn(u)
<1> DEFINE row == RowOf(u, action, id)
<1>1. id # NoId
    BY IdsAreIds
<1>2. /\ Noted(u, row) /\ row \in Row /\ row.fp \in {rows[u].fp, bundle[u]}
      /\ row.action \notin {"none", "not_selected"}
    BY RecordIs DEF MaybeId, Outcomes
<1>3. row.id = id /\ row.fp = bundle[u]
    BY <1>1 DEF RowOf
<1> HIDE DEF row
<1>4. Put(u, row)
    BY <1>1, <1>3 DEF Put
<1> QED
    BY <1>2, <1>4 DEF Turn

LEMMA FailsLeavesIt ==
    ASSUME IInv, KnownInv, NEW u \in Units, Take(u), Fails(u)
    PROVE  Turn(u)
<1> DEFINE id == IF Calls(u) = "updated"
                 THEN IF Decision(u) = "ADOPT" THEN ExistingId(u) ELSE UpdatedId(u)
                 ELSE NoId
<1>1. id \in MaybeId
    BY KnownIds DEF MaybeId
<1>2. NothingWritten /\ Record(u, "failed", id)
    BY DEF Fails
<1>3. ASSUME u \notin lost, Live(u) PROVE Knows(RowOf(u, "failed", id), u)
  <2>1. pc = "units" /\ ExistingId(u) = target[u].id /\ target[u].id # NoId
      BY <1>3, TurnOf
  <2>2. rows[u].id = target[u].id /\ rows[u].fp <= target[u].version
      BY <1>3, <2>1 DEF KnownInv, RowsKnow, Knows
  <2>3. id = NoId \/ id = target[u].id
      BY <2>1, <2>2 DEF UpdatedId
  <2> HIDE DEF id
  <2> QED
      BY <2>2, <2>3 DEF RowOf, Knows
<1> HIDE DEF id
<1> QED
    BY <1>1, <1>2, <1>3, LeavesIt DEF Outcomes

LEMMA SkipLeavesIt ==
    ASSUME IInv, KnownInv, NEW u \in Units, Take(u), Skip(u) \/ Adopt(u) \/ AdoptPublished(u)
    PROVE  Turn(u)
<1>1. PICK action \in {"skipped", "adopted"} : NothingWritten /\ Record(u, action, ExistingId(u))
    BY DEF Skip, Adopt, AdoptPublished
<1>2. ExistingId(u) \in MaybeId
    BY KnownIds
<1>3. ASSUME u \notin lost, Live(u) PROVE Knows(RowOf(u, action, ExistingId(u)), u)
  <2>1. pc = "units" /\ ExistingId(u) = target[u].id /\ target[u].id # NoId
      BY <1>3, TurnOf
  <2>2. rows[u].id = target[u].id /\ rows[u].fp <= target[u].version
      BY <1>3, <2>1 DEF KnownInv, RowsKnow, Knows
  <2>3. bundle[u] <= target[u].version
    <3>1. CASE Skip(u)
        BY <2>2, <3>1, DecisionIs DEF Skip
    <3>2. CASE Adopt(u)
      <4>1. rows[u] = NoRow
          BY <3>2, DecisionIs DEF Adopt
      <4> QED
          BY <2>1, <2>2, <4>1 DEF NoRow
    <3>3. CASE AdoptPublished(u)
        BY <3>3, TurnOf DEF AdoptPublished, Matches
    <3> QED
        BY <3>1, <3>2, <3>3
  <2> QED
      BY <2>1, <2>3 DEF RowOf, Knows
<1> QED
    BY <1>1, <1>2, <1>3, LeavesIt DEF Outcomes

(* A publish unit without a dashboard has no publish state either. *)
LEMMA NoParentLeavesIt ==
    ASSUME IInv, KnownInv, NEW u \in Units, Take(u), NoParent(u)
    PROVE  Turn(u)
<1>1. /\ u \in Children /\ ExistingId(u) = NoId /\ NothingWritten
      /\ Record(u, "skipped_no_object", NoId)
    BY DecisionIs DEF NoParent
<1>2. ~Live(u)
    BY <1>1, TurnOf
<1> QED
    BY <1>1, <1>2, LeavesIt DEF Outcomes, MaybeId

LEMMA UpdatePutsIt ==
    ASSUME IInv, KnownInv, NEW u \in Units, Take(u), Update(u)
    PROVE  Turn(u)
<1>1. CASE Fails(u)
    BY <1>1, FailsLeavesIt
<1>2. CASE /\ Reachable(u, UpdatedId(u)) /\ Written(u, UpdatedId(u)) /\ UNCHANGED <<made, context>>
           /\ Record(u, "updated", UpdatedId(u))
  <2>1. ExistingId(u) # NoId /\ u \notin Children
      BY DecisionIs DEF Update
  <2>2. UpdatedId(u) # NoId /\ UpdatedId(u) \in Ids
      BY <2>1, KnownIds DEF UpdatedId, MaybeId
  <2>3. UpdatedId(u) = target[u].id
      BY <1>2 DEF Reachable
  <2> QED
      BY <1>2, <2>1, <2>2, <2>3, PutsIt DEF Outcomes
<1> QED
    BY <1>1, <1>2 DEF Update

LEMMA CreatePutsIt ==
    ASSUME IInv, KnownInv, NEW u \in Units, Take(u), Create(u)
    PROVE  Turn(u)
<1>1. CASE Fails(u)
    BY <1>1, FailsLeavesIt
<1>2. CASE /\ Written(u, <<u, made[u] + 1>>) /\ made' = [made EXCEPT ![u] = @ + 1]
           /\ context' = [context EXCEPT ![u] = <<u, made[u] + 1>>]
           /\ Record(u, "created", <<u, made[u] + 1>>)
  <2>1. u \notin Children /\ ~Live(u)
      BY DecisionIs, TurnOf DEF Create
  <2>2. <<u, made[u] + 1>> \in Ids
      BY DEF Ids, IInv, WorldTyped
  <2> QED
      BY <1>2, <2>1, <2>2, PutsIt DEF Outcomes
<1> QED
    BY <1>1, <1>2 DEF Create

LEMMA PublishPutsIt ==
    ASSUME IInv, KnownInv, NEW u \in Units, Take(u), PublishDashboard(u)
    PROVE  Turn(u)
<1>1. CASE Fails(u)
    BY <1>1, FailsLeavesIt
<1>2. CASE /\ Reachable(Parent[u], ParentId(u)) /\ Written(u, ParentId(u))
           /\ UNCHANGED <<made, context>> /\ Record(u, Calls(u), ParentId(u))
  <2>1. u \in Children /\ ParentId(u) # NoId /\ Calls(u) \in {"updated", "created"}
      BY DEF PublishDashboard, Calls
  <2>2. ParentId(u) \in Ids
      BY <2>1, KnownIds DEF MaybeId
  <2>3. ParentId(u) = target[Parent[u]].id
      BY <1>2 DEF Reachable
  <2> QED
      BY <1>2, <2>1, <2>2, <2>3, PutsIt DEF Outcomes
<1> QED
    BY <1>1, <1>2 DEF PublishDashboard

LEMMA ProcessIsTurn ==
    ASSUME IInv, KnownInv, NEW u \in Units, Process(u)
    PROVE  Take(u) /\ Turn(u)
<1>1. Take(u)
    BY DEF Process
<1>2. CASE OutOfScope(u)
  <2>1. NothingWritten /\ UNCHANGED <<rows, saved>>
      BY <1>2 DEF OutOfScope, books
  <2>2. rows[u] \in Row /\ rows \in [Units -> Row]
      BY DEF IInv, BooksGood
  <2>3. Noted(u, rows[u])
      BY <2>1, <2>2 DEF Noted
  <2>4. (u \notin lost /\ Live(u)) => Knows(rows[u], u)
      BY <1>1, TurnOf DEF KnownInv, RowsKnow
  <2> QED
      BY <1>1, <2>1, <2>2, <2>3, <2>4 DEF Turn, Left
<1> QED
    BY <1>1, <1>2, SkipLeavesIt, NoParentLeavesIt, UpdatePutsIt, CreatePutsIt, PublishPutsIt
       DEF Process

(* --- what a turn keeps ------------------------------------------------------------------ *)

LEMMA PutIs ==
    ASSUME IInv, NEW u \in Units, NEW row, Put(u, row)
    PROVE  /\ target'[u].id = row.id /\ target'[u].version = bundle[u]
           /\ target'[u] # NoObject
           /\ \A v \in Units : v # u => target'[v] = target[v]
BY NoObjectIs DEF Put, Written, IInv, TargetGood

LEMMA NotedIs ==
    ASSUME IInv, NEW u \in Units, NEW row, Noted(u, row)
    PROVE  rows'[u] = row /\ \A v \in Units : v # u => rows'[v] = rows[v]
BY DEF Noted, IInv, BooksGood

LEMMA TurnKeepsWorld ==
    ASSUME IInv, KnownInv, NEW u \in Units, Take(u), Turn(u)
    PROVE  WorldKnown'
<1>1. UNCHANGED <<source, bundle, pc>>
    BY DEF Take
<1>2. PICK row \in Row : Left(u, row) \/ Put(u, row)
    BY DEF Turn
<1>3. CASE Left(u, row)
    BY <1>1, <1>3 DEF Left, NothingWritten, KnownInv, WorldKnown, Live
<1>4. CASE Put(u, row)
  <2>1. /\ target'[u].id = row.id /\ target'[u].version = bundle[u] /\ row.id # NoId
        /\ target'[u] # NoObject /\ \A v \in Units : v # u => target'[v] = target[v]
      BY <1>4, PutIs DEF Put
  <2>2. \A v \in Units : Live(v)' => target'[v].id # NoId
      BY <2>1 DEF KnownInv, WorldKnown, Live
  <2>3. \A v \in Children : Live(v)' => target'[v].id = target'[Parent[v]].id
    <3> SUFFICES ASSUME NEW v \in Children, Live(v)'
                 PROVE  target'[v].id = target'[Parent[v]].id
        OBVIOUS
    <3>1. Parent[v] \in Units /\ Parent[v] \notin Children /\ v \in Units
        BY ParentComesFirst DEF Referable
    <3>2. CASE v = u
        BY <1>4, <2>1, <3>1, <3>2 DEF Put
    <3>3. CASE v # u
      <4>1. Live(v) /\ target'[v] = target[v] /\ target[v].id = target[Parent[v]].id
            /\ target[v].id # NoId
          BY <2>1, <3>1, <3>3 DEF Live, KnownInv, WorldKnown
      <4>2. CASE Parent[v] # u
          BY <2>1, <3>1, <4>1, <4>2
      <4>3. CASE Parent[v] = u
        <5>1. Live(u)
            BY <4>1, <4>3, NoObjectIs DEF Live
        <5>2. row.id = target[u].id
            BY <1>4, <3>1, <4>3, <5>1 DEF Put
        <5> QED
            BY <2>1, <4>1, <4>3, <5>2
      <4> QED
          BY <4>2, <4>3
    <3> QED
        BY <3>2, <3>3
  <2>4. \A v \in Units : source'[v] > 0 /\ Live(v)' => target'[v].version <= source'[v]
    <3> SUFFICES ASSUME NEW v \in Units, source'[v] > 0, Live(v)'
                 PROVE  target'[v].version <= source'[v]
        OBVIOUS
    <3>1. CASE v = u
        BY <1>1, <2>1, <3>1, TurnOf
    <3>2. CASE v # u
        BY <1>1, <2>1, <3>2 DEF KnownInv, WorldKnown, Live
    <3> QED
        BY <3>1, <3>2
  <2>5. \A v \in Children : source'[v] > 0 => source'[Parent[v]] > 0
      BY <1>1 DEF KnownInv, WorldKnown
  <2>6. pc' # "idle" => bundle' = source'
      BY <1>1 DEF KnownInv, WorldKnown
  <2> QED
      BY <2>2, <2>3, <2>4, <2>5, <2>6 DEF WorldKnown
<1> QED
    BY <1>2, <1>3, <1>4

LEMMA TurnKeepsMade ==
    ASSUME IInv, KnownInv, NEW u \in Units, Take(u), Turn(u)
    PROVE  MadeOnce'
<1>1. PICK row \in Row : Left(u, row) \/ Put(u, row)
    BY DEF Turn
<1>2. deletions' = deletions
    BY DEF Take, people
<1>3. CASE Left(u, row)
    BY <1>2, <1>3 DEF Left, NothingWritten, KnownInv, MadeOnce, Live
<1>4. CASE Put(u, row)
  <2>1. \A v \in Units : Live(v) \/ v = u => Live(v)'
      BY <1>4, PutIs DEF Live
  <2>2. CASE made' = made
      BY <1>2, <2>1, <2>2 DEF KnownInv, MadeOnce, Referable
  <2>3. CASE ~Live(u) /\ made' = [made EXCEPT ![u] = @ + 1]
    <3>1. made \in [Units -> Nat]
        BY DEF IInv, WorldTyped
    <3> SUFFICES ASSUME deletions = 0, NEW v \in Referable
                 PROVE  made'[v] <= 1 /\ (made'[v] = 1 => Live(v)')
        BY <1>2 DEF MadeOnce
    <3>2. v \in Units /\ made[v] <= 1 /\ (made[v] = 1 => Live(v))
        BY DEF Referable, KnownInv, MadeOnce
    <3>3. CASE v = u
        BY <2>1, <2>3, <3>1, <3>2, <3>3
    <3>4. CASE v # u
        BY <2>1, <2>3, <3>1, <3>2, <3>4
    <3> QED
        BY <3>3, <3>4
  <2> QED
      BY <1>4, <2>2, <2>3 DEF Put
<1> QED
    BY <1>1, <1>3, <1>4

LEMMA TurnKeepsRows ==
    ASSUME IInv, KnownInv, NEW u \in Units, Take(u), Turn(u)
    PROVE  RowsKnow' /\ SavedKnow' /\ BooksKnown'
<1>1. /\ UNCHANGED <<source, bundle, pc, lost>> /\ pc = "units"
    BY DEF Take
<1>2. /\ bundle = source /\ bundle[u] \in Nat \ {0} /\ source \in [Units -> Nat]
    BY TurnOf DEF IInv, WorldTyped
<1>3. PICK row \in Row :
          /\ Noted(u, row) /\ (Left(u, row) \/ Put(u, row)) /\ row.fp \in {rows[u].fp, bundle[u]}
          /\ row = rows[u] \/ row.action \notin {"none", "not_selected"}
    BY DEF Turn
<1>4. /\ rows'[u] = row /\ \A v \in Units : v # u => rows'[v] = rows[v]
      /\ saved' = saved \/ saved' = rows'
    BY <1>3, NotedIs DEF Noted
<1>5. \A v \in Units : v # u => target'[v] = target[v]
    BY <1>3, PutIs DEF Left, NothingWritten
<1>6. \A v \in Units \ lost : Live(v)' => Knows(rows[v], v)'
  <2> SUFFICES ASSUME NEW v \in Units \ lost, Live(v)'
               PROVE  rows'[v].id = target'[v].id /\ rows'[v].fp <= target'[v].version
      BY DEF Knows
  <2>1. CASE v # u
      BY <1>1, <1>4, <1>5, <2>1 DEF KnownInv, RowsKnow, Knows, Live
  <2>2. CASE v = u /\ Left(u, row)
      BY <1>4, <2>2 DEF Left, NothingWritten, Knows, Live
  <2>3. CASE v = u /\ Put(u, row)
    <3>1. row.id = target'[u].id /\ row.fp = target'[u].version /\ row.fp \in Nat
        BY <1>2, <2>3, PutIs DEF Put
    <3> QED
        BY <1>4, <2>3, <3>1
  <2> QED
      BY <1>3, <2>1, <2>2, <2>3
<1>7. RowsKnow'
    BY <1>1, <1>6 DEF RowsKnow
<1>8. \A v \in Units : Plausible(rows[v], v) /\ Plausible(saved[v], v)
    BY DEF KnownInv, BooksKnown
<1>9. \A v \in Units : Plausible(rows[v], v)'
  <2> SUFFICES ASSUME NEW v \in Units PROVE Plausible(rows[v], v)'
      OBVIOUS
  <2>1. CASE v # u
      BY <1>1, <1>4, <1>8, <2>1 DEF Plausible
  <2>2. CASE v = u
      BY <1>1, <1>2, <1>3, <1>4, <1>8, <2>2 DEF Plausible
  <2> QED
      BY <2>1, <2>2
<1>10. BooksKnown'
  <2>1. \A v \in Units : Plausible(saved[v], v)'
      BY <1>1, <1>8, <1>9, <1>4 DEF Plausible
  <2> QED
      BY <1>9, <2>1 DEF BooksKnown
<1>11. SavedKnow'
  <2> SUFFICES ASSUME NEW v \in Units \ lost, Live(v)', saved'[v].id = target'[v].id
               PROVE  saved'[v].fp <= target'[v].version
      BY <1>1 DEF SavedKnow, Knows
  <2>1. CASE saved' = rows'
      BY <1>6, <2>1 DEF Knows
  <2>2. CASE saved' = saved /\ v # u
      BY <1>5, <2>2 DEF KnownInv, SavedKnow, Knows, Live
  <2>3. CASE saved' = saved /\ v = u /\ Left(u, row)
      BY <2>3 DEF KnownInv, SavedKnow, Knows, Live, Left, NothingWritten
  <2>4. CASE saved' = saved /\ v = u /\ Put(u, row)
    <3>1. target'[u].version = bundle[u]
        BY <2>4, PutIs
    <3>2. saved[u].fp <= source[u]
        BY <1>2, <1>8 DEF Plausible
    <3> QED
        BY <1>2, <2>4, <3>1, <3>2
  <2> QED
      BY <1>3, <1>4, <2>1, <2>2, <2>3, <2>4
<1> QED
    BY <1>7, <1>10, <1>11

LEMMA TurnKeepsContext ==
    ASSUME IInv, KnownInv, NEW u \in Units, Take(u), Turn(u)
    PROVE  ContextKnown' /\ ListingKnown'
<1>1. /\ UNCHANGED <<bundle, pc, left, existing>> /\ pc = "units" /\ todo' = todo \ {u}
      /\ u \in todo
    BY DEF Take
<1>2. PICK row \in Row : Left(u, row) \/ Put(u, row)
    BY DEF Turn
<1>3. \A v \in Units : context[v] # NoId => context[v] = target[v].id
    BY DEF KnownInv, ContextKnown
<1>4. context \in [Units -> MaybeId]
    BY DEF IInv, MemoryGood
<1>5. \A v \in Units : v # u => context'[v] = context[v] /\ target'[v] = target[v]
    BY <1>2, <1>4, PutIs DEF Left, NothingWritten, Put
<1>6. context'[u] # NoId => context'[u] = target'[u].id
  <2>1. CASE Left(u, row)
      BY <1>3, <2>1 DEF Left, NothingWritten
  <2>2. CASE Put(u, row) /\ context' = context /\ row.id = target[u].id
      BY <1>3, <2>2, PutIs
  <2>3. CASE Put(u, row) /\ context' = context /\ u \in Children
    <3> SUFFICES ASSUME context[u] # NoId PROVE context[u] = target'[u].id
        BY <2>3
    <3>1. context[u] = target[u].id /\ Live(u)
        BY <1>3, NoObjectIs DEF Live
    <3>2. target[u].id = target[Parent[u]].id
        BY <2>3, <3>1 DEF KnownInv, WorldKnown
    <3> QED
        BY <2>3, <3>1, <3>2, PutIs DEF Put
  <2>4. CASE Put(u, row) /\ context' = [context EXCEPT ![u] = row.id]
      BY <1>4, <2>4, PutIs
  <2> QED
      BY <1>2, <2>1, <2>2, <2>3, <2>4 DEF Put
<1>7. ContextKnown'
    BY <1>1, <1>3, <1>5, <1>6 DEF ContextKnown
<1>8. left # {} /\ (\A v \in todo : v \in InBundle /\ Family[v] = FirstOf(left))
    BY <1>1 DEF KnownInv, ListingKnown
<1>9. InBundle' = InBundle
    BY <1>1 DEF InBundle
<1>10. \A v \in InBundle \ Children :
          Family[v] = FirstOf(left) /\ Live(v)' => context'[v] # NoId
  <2> SUFFICES ASSUME NEW v \in InBundle \ Children, Family[v] = FirstOf(left), Live(v)'
               PROVE  context'[v] # NoId
      OBVIOUS
  <2>1. v \in Units /\ (Live(v) => context[v] # NoId)
      BY <1>1 DEF InBundle, KnownInv, ListingKnown
  <2>2. CASE v # u
      BY <1>5, <2>1, <2>2 DEF Live
  <2>3. CASE v = u /\ Left(u, row)
      BY <2>1, <2>3 DEF Left, NothingWritten, Live
  <2>4. CASE v = u /\ Put(u, row) /\ context' = context /\ row.id = target[u].id
    <3>1. row.id # NoId /\ row.id = target[u].id
        BY <2>4 DEF Put
    <3>2. Live(u)
        BY <3>1, NoObjectIs DEF Live
    <3> QED
        BY <2>1, <2>4, <3>2
  <2>5. CASE v = u /\ Put(u, row) /\ context' = [context EXCEPT ![u] = row.id]
      BY <1>4, <2>5 DEF Put
  <2> QED
      BY <1>2, <2>2, <2>3, <2>4, <2>5 DEF Put
<1>11. \A v \in todo' \ Children : existing[v] = context'[v]
    BY <1>1, <1>5 DEF KnownInv, ListingKnown, IInv, RunTyped
<1> QED
    BY <1>1, <1>7, <1>8, <1>9, <1>10, <1>11 DEF ListingKnown

(* --- a turn of a clean run ------------------------------------------------------------- *)

LEMMA FaultIsDirty == Fault => dirty'
BY DEF Fault

LEMMA WrittenIs ==
    ASSUME IInv, NEW u \in Units, NEW id, id # NoId, Written(u, id)
    PROVE  Live(u)' /\ target'[u].version = bundle[u]
BY NoObjectIs DEF Written, Live, IInv, TargetGood

(* A unit whose references and dashboard are resolved ends its turn with an id, and with
   the bundle's content unless the state table never knew its object. *)
LEMMA TurnResolves ==
    ASSUME IInv, KnownInv, NEW u \in Units, Process(u), mode = "off", ~dirty',
           \A v \in Needs(u) : v \in InBundle /\ context[v] # NoId
    PROVE  Resolved(u)'
<1>1. Take(u) /\ lost' = lost /\ bundle' = bundle /\ pc = "units"
    BY DEF Process, Take
<1>2. /\ bundle = source /\ bundle[u] \in Nat \ {0} /\ u \in InBundle
      /\ (Live(u) => ExistingId(u) = target[u].id /\ target[u].id # NoId)
      /\ (~Live(u) => ExistingId(u) = NoId)
      /\ (u \notin Children => existing[u] = context[u])
    BY <1>1, TurnOf
<1>3. RefsResolved(u)
  <2>1. \A v \in Refs[u] : v \in Needs(u)
      BY DEF Needs
  <2> QED
      BY <2>1 DEF RefsResolved, Resolve
<1>4. ASSUME u \in Children
      PROVE  ParentId(u) # NoId /\ Reachable(Parent[u], ParentId(u))
  <2>1. Parent[u] \in Needs(u) /\ Parent[u] \in Units
      BY <1>4, ParentComesFirst DEF Needs
  <2>2. context[Parent[u]] # NoId /\ context[Parent[u]] = target[Parent[u]].id
      BY <2>1 DEF KnownInv, ContextKnown
  <2> QED
      BY <2>2 DEF ParentId, Reachable
<1>5. InWorkList(u) /\ ~Fault
    BY FaultIsDirty DEF InWorkList
<1>6. ASSUME u \notin lost, Live(u)
      PROVE  /\ rows[u].id = target[u].id /\ rows[u].id # NoId
             /\ rows[u].fp = bundle[u] => target[u].version = bundle[u]
  <2>1. rows[u].id = target[u].id /\ rows[u].fp <= target[u].version
      BY <1>1, <1>6 DEF KnownInv, RowsKnow, Knows
  <2>2. target[u].version <= bundle[u]
      BY <1>2, <1>6 DEF KnownInv, WorldKnown
  <2>3. target[u].version \in Nat
    <3>1. target[u] \in Object(u)
        BY DEF IInv, TargetGood
    <3> QED
        BY <3>1 DEF Object
  <2> QED
      BY <1>2, <1>6, <2>1, <2>2, <2>3
<1>7. ASSUME u \notin Children, ExistingId(u) # NoId, context' = context
      PROVE  context'[u] # NoId
    BY <1>2, <1>7 DEF ExistingId
<1>8. CASE Skip(u) \/ Adopt(u)
  <2>1. ExistingId(u) # NoId /\ Live(u) /\ UNCHANGED <<target, context>>
      BY <1>2, <1>8, DecisionIs DEF Skip, Adopt, NothingWritten
  <2>2. ASSUME u \notin lost PROVE target[u].version = bundle[u]
    <3>1. rows[u].fp = bundle[u] \/ rows[u] = NoRow
        BY <1>8, DecisionIs DEF Skip, Adopt
    <3>2. rows[u] # NoRow
        BY <1>6, <2>1, <2>2 DEF NoRow
    <3> QED
        BY <1>6, <2>1, <2>2, <3>1, <3>2
  <2> QED
      BY <1>1, <1>7, <2>1, <2>2 DEF Resolved, Live
<1>9. CASE Update(u)
  <2>1. u \notin Children /\ ExistingId(u) # NoId /\ Live(u)
      BY <1>2, <1>9, DecisionIs DEF Update
  <2>2. UpdatedId(u) # NoId
      BY <2>1 DEF UpdatedId
  <2>3. CASE Reachable(u, UpdatedId(u))
    <3>1. Written(u, UpdatedId(u)) /\ context' = context
        BY <1>3, <1>5, <1>9, <2>3 DEF Update
    <3> QED
        BY <1>1, <1>7, <2>1, <2>2, <3>1, WrittenIs DEF Resolved
  <2>4. CASE ~Reachable(u, UpdatedId(u))
    <3>1. u \in lost
        BY <1>6, <2>1, <2>4 DEF Reachable, UpdatedId
    <3>2. context' = context
        BY <1>9, <2>4 DEF Update, Fails, NothingWritten
    <3> QED
        BY <1>1, <1>7, <2>1, <3>1, <3>2 DEF Resolved
  <2> QED
      BY <2>3, <2>4
<1>10. CASE Create(u)
  <2>1. /\ Written(u, <<u, made[u] + 1>>)
        /\ context' = [context EXCEPT ![u] = <<u, made[u] + 1>>]
      BY <1>3, <1>5, <1>10 DEF Create
  <2>2. <<u, made[u] + 1>> # NoId
      BY IdsAreIds DEF Ids, IInv, WorldTyped
  <2>3. context'[u] = <<u, made[u] + 1>>
      BY <2>1 DEF IInv, MemoryGood
  <2> QED
      BY <1>1, <2>1, <2>2, <2>3, WrittenIs DEF Resolved
<1>11. CASE AdoptPublished(u)
  <2>1. /\ u \in Children /\ ExistingId(u) # NoId /\ Live(u) /\ target' = target
        /\ target[u].version = bundle[u]
      BY <1>2, <1>11, DecisionIs DEF AdoptPublished, Matches, NothingWritten
  <2> QED
      BY <1>1, <2>1 DEF Resolved, Live
<1>12. CASE PublishDashboard(u)
  <2>1. u \in Children /\ Written(u, ParentId(u)) /\ ParentId(u) # NoId
      BY <1>3, <1>4, <1>5, <1>12 DEF PublishDashboard
  <2> QED
      BY <1>1, <2>1, WrittenIs DEF Resolved
<1>13. ~NoParent(u) /\ ~OutOfScope(u)
    BY <1>4, <1>5 DEF NoParent, OutOfScope
<1> QED
    BY <1>8, <1>9, <1>10, <1>11, <1>12, <1>13 DEF Process

(* What a unit needs has had its turn. *)
LEMMA NeedsAreDone ==
    ASSUME IInv, KnownInv, NEW us \in SUBSET Units, Sound(us), NEW u \in us, Take(u),
           NEW v \in Needs(u)
    PROVE  v \in us /\ v \in InBundle /\ v \in Referable /\ Done(v)
<1>1. /\ pc = "units" /\ left # {} /\ left \subseteq Families /\ Family[u] = FirstOf(left)
      /\ todo \cap LoadedFirst[u] = {} /\ u \in Units
    BY DEF Take, KnownInv, ListingKnown, IInv, RunTyped
<1>2. v \in us /\ v \in InBundle /\ v \in Units
    BY DEF Sound, Closed
<1>3. v \in Referable
    BY ReferredIsReferable, ParentIsReferable DEF Needs
<1>4. /\ Rank[Family[v]] < Rank[Family[u]] \/ LoadedBefore(Type[v], Type[u])
  <2>1. CASE v \in Refs[u]
    <3>1. Type[v] \in ReferencedTypes(Type[u]) /\ Type[v] # Type[u]
        BY <1>1, <2>1, RefsAssumption DEF Sound, InPhaseOrder
    <3> QED
        BY <1>1, <1>2, <3>1, ReferencedComesFirst DEF Family
  <2>2. CASE u \in Children /\ v = Parent[u]
    <3>1. Type[v] = "lakeview_dashboard" /\ Type[u] = "lakeview_dashboard_publish"
        BY <2>2, ParentAssumption DEF Children, Publish
    <3> QED
        BY <3>1, OrderInDashboards
  <2> QED
      BY <2>1, <2>2 DEF Needs
<1>5. CASE Rank[Family[v]] < Rank[Family[u]]
  <2>1. \A f \in left : Rank[Family[u]] <= Rank[f]
      BY <1>1, FirstIsFirst
  <2>2. Family[v] \notin left
    <3> SUFFICES ASSUME Family[v] \in left PROVE FALSE
        OBVIOUS
    <3>1. Family[u] \in Families /\ Family[v] \in Families
        BY <1>1, FirstIsFirst
    <3>2. Rank[Family[u]] \in Nat /\ Rank[Family[v]] \in Nat
        BY <3>1, FamiliesAre, Ranks
    <3> QED
        BY <1>5, <2>1, <3>2
  <2> QED
      BY <1>2, <1>3, <2>2 DEF Done
<1>6. CASE LoadedBefore(Type[v], Type[u])
  <2>1. v \in LoadedFirst[u] /\ Family[v] = Family[u]
      BY <1>1, <1>2, <1>6 DEF LoadedFirst, LoadedBefore, Family
  <2> QED
      BY <1>1, <1>2, <1>3, <2>1 DEF Done
<1> QED
    BY <1>4, <1>5, <1>6

LEMMA ProcessResolves ==
    ASSUME RInv, NEW u \in Units, Process(u)
    PROVE  DoneResolved'
<1>1. /\ Take(u) /\ Turn(u) /\ pc = "units" /\ todo' = todo \ {u} /\ u \in todo
      /\ UNCHANGED <<pc, left, mode, sel, bundle, lost>>
    BY ProcessIsTurn DEF RInv, Take, setup
<1>2. ~dirty' => ~dirty
  <2>1. Fault \/ NoFault
      BY DEF Process, OutOfScope, Skip, Adopt, Update, Create, NoParent, AdoptPublished,
             PublishDashboard
  <2> QED
      BY <2>1 DEF Fault, NoFault
<1>3. \A v \in Units : v # u => context'[v] = context[v] /\ target'[v] = target[v]
  <2>1. PICK row \in Row : Left(u, row) \/ Put(u, row)
      BY <1>1 DEF Turn
  <2> QED
      BY <2>1, PutIs DEF Left, NothingWritten, Put, RInv, IInv, MemoryGood
<1> SUFFICES ASSUME Clean', NEW us \in SUBSET Units, Sound(us)', NEW v \in us, Done(v)'
             PROVE  Resolved(v)'
    BY DEF DoneResolved
<1>4. Clean /\ ~dirty'
    BY <1>1, <1>2 DEF Clean
<1>5. InBundle' = InBundle
    BY <1>1 DEF InBundle
<1>6. Sound(us)
    BY <1>5 DEF Sound
<1>7. \A w \in us : Done(w) => Resolved(w)
    BY <1>4, <1>6 DEF RInv, DoneResolved
<1>8. CASE v # u
  <2>1. Done(v)
      BY <1>1, <1>5, <1>8 DEF Done
  <2> QED
      BY <1>1, <1>3, <1>7, <1>8, <2>1 DEF Resolved, Live
<1>9. CASE v = u
  <2>1. \A w \in Needs(u) : w \in InBundle /\ context[w] # NoId
    <3> SUFFICES ASSUME NEW w \in Needs(u) PROVE w \in InBundle /\ context[w] # NoId
        OBVIOUS
    <3>1. w \in us /\ w \in InBundle /\ w \in Referable /\ Done(w)
        BY <1>1, <1>6, <1>9, NeedsAreDone DEF RInv
    <3> QED
        BY <1>7, <3>1 DEF Resolved, Referable
  <2> QED
      BY <1>4, <1>9, <2>1, TurnResolves DEF RInv, Clean
<1> QED
    BY <1>8, <1>9

(* --- the other steps -------------------------------------------------------------------- *)

LEMMA FamilyOfUnit == \A u \in Units : Family[u] \in Families
<1> SUFFICES ASSUME NEW u \in Units PROVE FamilyOf[Type[u]] \in Families
    BY DEF Family
<1>1. Type[u] \in AssetTypes
    BY TypesAssumption
<1>2. PICK f \in Families : Type[u] \in TypesOf(f)
    BY <1>1 DEF AssetTypes
<1> QED
    BY <1>2, FamilyIs

(* The world, the bundle and the deletions are as they were. *)
LEMMA WorldStays ==
    ASSUME KnownInv, UNCHANGED <<world, bundle, deletions>>, pc # "idle" \/ pc' = "idle"
    PROVE  WorldKnown' /\ MadeOnce'
BY DEF world, KnownInv, WorldKnown, MadeOnce, Live

LEMMA UnlessClean == ~Clean' => DoneResolved'
BY DEF DoneResolved

(* Rows that are what the run's or the table's were know what these did. *)
LEMMA BooksStay ==
    ASSUME KnownInv, UNCHANGED <<source, target, lost>>, pc # "idle",
           rows' \in {rows, saved}, saved' \in {rows, saved}
    PROVE  SavedKnow' /\ BooksKnown'
<1>1. BooksKnown'
    BY DEF KnownInv, BooksKnown, Plausible
<1>2. \A u \in Units \ lost : Live(u) => Knows(rows[u], u)
    BY DEF KnownInv, RowsKnow
<1>3. SavedKnow'
    BY <1>2 DEF KnownInv, SavedKnow, Knows, Live
<1> QED
    BY <1>1, <1>3

LEMMA BeginKnows ==
    ASSUME RInv, NEW s, NEW m, NEW f, Begin(s, m, f)
    PROVE  KnownInv' /\ DoneResolved'
<1>1. /\ UNCHANGED <<source, target, made, deletions, saved, context, left>> /\ bundle' = source
      /\ rows' = saved /\ pc = "idle" /\ pc' = "gates"
      /\ lost' = lost \cup {u \in Units : Live(u) /\ saved[u].id # target[u].id}
    BY DEF Begin, world, memory
<1>2. WorldKnown' /\ MadeOnce'
    BY <1>1 DEF RInv, KnownInv, WorldKnown, MadeOnce, Live
<1>3. SavedKnow' /\ BooksKnown'
    BY <1>1 DEF RInv, KnownInv, SavedKnow, BooksKnown, Plausible, Knows, Live
<1>4. RowsKnow'
    BY <1>1 DEF RInv, KnownInv, SavedKnow, RowsKnow, Knows, Live
<1>5. ContextKnown' /\ ListingKnown' /\ ~Clean'
    BY <1>1 DEF RInv, KnownInv, ContextKnown, ListingKnown, Clean
<1> QED
    BY <1>2, <1>3, <1>4, <1>5, UnlessClean DEF KnownInv

LEMMA PassGatesKnows ==
    ASSUME RInv, PassGates
    PROVE  KnownInv' /\ DoneResolved'
<1>1. /\ UNCHANGED <<source, target, made, deletions, bundle, lost, context, sel>>
      /\ rows' = Deferred /\ saved' \in {saved, rows'} /\ pc = "gates" /\ pc' = "phases"
      /\ left' = PhasesOf(sel)
    BY DEF PassGates, Flush, world, people, setup
<1>2. WorldKnown' /\ MadeOnce'
    BY <1>1, WorldStays DEF RInv, world
<1>3. /\ rows \in [Units -> Row] /\ bundle = source /\ source \in [Units -> Nat]
    BY <1>1 DEF RInv, IInv, BooksGood, KnownInv, WorldKnown, WorldTyped
<1>4. \A u \in Units :
          /\ rows[u].action \notin {"none", "not_selected"} => rows'[u] = rows[u]
          /\ rows'[u].id = rows[u].id /\ (rows'[u].fp = rows[u].fp \/ rows'[u].fp = bundle[u])
          /\ rows'[u].action = rows[u].action \/ rows[u].action \in {"none", "not_selected"}
    BY <1>1, <1>3 DEF Deferred, Row
<1>5. \A u \in Units \ lost : Live(u) => Knows(rows'[u], u)
  <2> SUFFICES ASSUME NEW u \in Units \ lost, Live(u) PROVE Knows(rows'[u], u)
      OBVIOUS
  <2>1. Knows(rows[u], u) /\ target[u].id # NoId
      BY <1>1 DEF RInv, KnownInv, RowsKnow, WorldKnown
  <2>2. rows[u].action \notin {"none", "not_selected"}
      BY <2>1 DEF RInv, KnownInv, BooksKnown, Plausible, Knows
  <2> QED
      BY <1>4, <2>1, <2>2
<1>6. RowsKnow' /\ SavedKnow'
    BY <1>1, <1>5 DEF RInv, KnownInv, RowsKnow, SavedKnow, Knows, Live
<1>7. BooksKnown'
  <2>1. \A u \in Units : Plausible(rows[u], u) /\ Plausible(saved[u], u)
      BY DEF RInv, KnownInv, BooksKnown
  <2>2. \A u \in Units : Plausible(rows'[u], u)
    <3> SUFFICES ASSUME NEW u \in Units PROVE Plausible(rows'[u], u)
        OBVIOUS
    <3>1. source[u] > 0 => rows'[u].fp <= source[u]
        BY <1>3, <1>4, <2>1 DEF Plausible
    <3>2. rows'[u].action \in {"none", "not_selected"} => rows'[u].id = NoId
        BY <1>4, <2>1 DEF Plausible
    <3> QED
        BY <3>1, <3>2 DEF Plausible
  <2> QED
      BY <1>1, <2>1, <2>2 DEF BooksKnown, Plausible
<1>8. ContextKnown' /\ ListingKnown'
    BY <1>1 DEF RInv, KnownInv, ContextKnown, ListingKnown
<1>9. DoneResolved'
  <2>1. ASSUME Clean', NEW u \in Units PROVE ~Done(u)'
    <3>1. Family[u] \in left'
        BY <1>1, <2>1, FamilyOfUnit DEF Clean, PhasesOf
    <3> QED
        BY <1>1, <3>1 DEF Done
  <2> QED
      BY <2>1 DEF DoneResolved
<1> QED
    BY <1>2, <1>6, <1>7, <1>8, <1>9 DEF KnownInv

LEMMA StartPhaseKnows ==
    ASSUME RInv, StartPhase
    PROVE  KnownInv' /\ DoneResolved'
<1> DEFINE f == FirstOf(left)
<1>1. /\ UNCHANGED <<source, target, made, deletions, bundle, lost, rows, saved, left, sel, mode,
                     dirty>>
      /\ pc = "phases" /\ pc' = "units" /\ left # {}
      /\ existing' = [u \in Units |-> IF u \in Listed(f) THEN target[u].id ELSE NoId]
      /\ context' = [u \in Units |-> IF u \in Listed(f) THEN target[u].id ELSE context[u]]
      /\ todo' = {u \in InBundle : Family[u] = f}
    BY DEF StartPhase, world, books, people, setup
<1>2. WorldKnown' /\ MadeOnce'
    BY <1>1, WorldStays DEF RInv, world
<1>3. RowsKnow' /\ SavedKnow' /\ BooksKnown'
    BY <1>1, BooksStay DEF RInv, KnownInv, RowsKnow, Knows, Live
<1>4. InBundle' = InBundle /\ InBundle \subseteq Units
    BY <1>1 DEF InBundle
<1>5. \A u \in Units : context[u] # NoId => context'[u] = context[u] /\ context[u] = target[u].id
    BY <1>1 DEF RInv, KnownInv, ContextKnown
<1>6. ContextKnown'
    BY <1>1, <1>5 DEF ContextKnown
<1>7. \A u \in InBundle \ Children : Family[u] = f /\ Live(u) => context'[u] # NoId
    BY <1>1, <1>4 DEF Listed, RInv, KnownInv, WorldKnown
<1>8. \A u \in todo' \ Children : existing'[u] = context'[u]
  <2> SUFFICES ASSUME NEW u \in todo' \ Children PROVE existing'[u] = context'[u]
      OBVIOUS
  <2>1. u \in Units /\ (u \in Listed(f) <=> Live(u))
      BY <1>1, <1>4 DEF Listed
  <2>2. ~Live(u) => context[u] = NoId
      BY <1>5, <2>1, NoObjectIs DEF Live
  <2> QED
      BY <1>1, <2>1, <2>2
<1>9. ListingKnown'
    BY <1>1, <1>4, <1>7, <1>8 DEF ListingKnown, Live
<1>10. DoneResolved'
  <2> SUFFICES ASSUME Clean', NEW us \in SUBSET Units, Sound(us)', NEW u \in us, Done(u)'
               PROVE  Resolved(u)'
      BY DEF DoneResolved
  <2>1. Clean /\ Sound(us) /\ Done(u) /\ u \in Units
      BY <1>1, <1>4 DEF Clean, Sound, Done
  <2>2. Resolved(u)
      BY <2>1 DEF RInv, DoneResolved
  <2> QED
      BY <1>1, <1>5, <2>1, <2>2 DEF Resolved, Live
<1> QED
    BY <1>2, <1>3, <1>6, <1>9, <1>10 DEF KnownInv

LEMMA EndPhaseKnows ==
    ASSUME RInv, EndPhase
    PROVE  KnownInv' /\ DoneResolved'
<1>1. /\ UNCHANGED <<source, target, made, deletions, bundle, lost, rows, context, sel, mode>>
      /\ pc = "units" /\ todo = {} /\ pc' = "phases" /\ left' = left \ {FirstOf(left)}
      /\ saved' \in {saved, rows} /\ (~dirty' => ~dirty)
    BY DEF EndPhase, Flush, Fault, NoFault, world, people, setup
<1>2. WorldKnown' /\ MadeOnce'
    BY <1>1, WorldStays DEF RInv, world
<1>3. RowsKnow' /\ SavedKnow' /\ BooksKnown'
    BY <1>1, BooksStay DEF RInv, KnownInv, RowsKnow, Knows, Live
<1>4. ContextKnown' /\ ListingKnown'
    BY <1>1 DEF RInv, KnownInv, ContextKnown, ListingKnown
<1>5. DoneResolved'
  <2> SUFFICES ASSUME Clean', NEW us \in SUBSET Units, Sound(us)', NEW u \in us, Done(u)'
               PROVE  Resolved(u)'
      BY DEF DoneResolved
  <2>1. Clean /\ Sound(us) /\ Done(u)
      BY <1>1 DEF Clean, Sound, Done, InBundle
  <2>2. Resolved(u)
      BY <2>1 DEF RInv, DoneResolved
  <2> QED
      BY <1>1, <2>2 DEF Resolved, Live
<1> QED
    BY <1>2, <1>3, <1>4, <1>5 DEF KnownInv

LEMMA MarkMissingKnows ==
    ASSUME RInv, MarkMissing
    PROVE  KnownInv' /\ DoneResolved'
<1>1. /\ UNCHANGED <<source, target, made, deletions, bundle, lost, context, left, todo, sel, mode>>
      /\ pc = "phases" /\ left = {} /\ pc' = "final" /\ saved' \in {saved, rows'}
      /\ rows' = [u \in Units |-> IF u \in Gone THEN [rows[u] EXCEPT !.action = "deleted_in_source"]
                                ELSE rows[u]]
      /\ (~dirty' => ~dirty)
    BY DEF MarkMissing, Flush, Fault, NoFault, world, memory, people, setup
<1>2. WorldKnown' /\ MadeOnce'
    BY <1>1, WorldStays DEF RInv, world
<1>3. rows \in [Units -> Row]
    BY DEF RInv, IInv, BooksGood
<1>4. \A u \in Units :
          /\ rows'[u].id = rows[u].id /\ rows'[u].fp = rows[u].fp
          /\ rows'[u].action = rows[u].action \/ rows'[u].action = "deleted_in_source"
    BY <1>1, <1>3 DEF Row
<1>5. RowsKnow' /\ SavedKnow'
    BY <1>1, <1>4 DEF RInv, KnownInv, RowsKnow, SavedKnow, Knows, Live
<1>6. BooksKnown'
    BY <1>1, <1>4 DEF RInv, KnownInv, BooksKnown, Plausible
<1>7. ContextKnown' /\ ListingKnown'
    BY <1>1 DEF RInv, KnownInv, ContextKnown, ListingKnown
<1>8. DoneResolved'
  <2> SUFFICES ASSUME Clean', NEW us \in SUBSET Units, Sound(us)', NEW u \in us, Done(u)'
               PROVE  Resolved(u)'
      BY DEF DoneResolved
  <2>1. Clean /\ Sound(us) /\ Done(u)
      BY <1>1 DEF Clean, Sound, Done, InBundle
  <2>2. Resolved(u)
      BY <2>1 DEF RInv, DoneResolved
  <2> QED
      BY <1>1, <2>2 DEF Resolved, Live
<1> QED
    BY <1>2, <1>5, <1>6, <1>7, <1>8 DEF KnownInv

(* However a run ends, what it resolved with is forgotten. *)
LEMMA EndKnows ==
    ASSUME RInv, Abort \/ Finish \/ Disturbance
    PROVE  KnownInv' /\ DoneResolved'
<1>1. /\ UNCHANGED <<source, target, made, deletions, bundle, lost>>
      /\ pc # "idle" /\ pc' = "idle" /\ Forget
      /\ rows' \in {rows, saved} /\ saved' \in {rows, saved}
    BY DEF Abort, Finish, Close, Flush, Disturbance, Interrupt, Kill, world, books, people
<1>2. WorldKnown' /\ MadeOnce'
    BY <1>1, WorldStays DEF RInv, world
<1>3. SavedKnow' /\ BooksKnown'
    BY <1>1, BooksStay DEF RInv
<1>4. RowsKnow' /\ ListingKnown' /\ ~Clean'
    BY <1>1 DEF RowsKnow, ListingKnown, Clean
<1>5. ContextKnown'
    BY <1>1 DEF Forget, ContextKnown
<1> QED
    BY <1>2, <1>3, <1>4, <1>5, UnlessClean DEF KnownInv

(* Between runs nothing is resolved; what a run may rely on later is all there is. *)
LEMMA BetweenRuns ==
    ASSUME RInv, pc = "idle", UNCHANGED <<pc, rows, saved, lost, context>>,
           WorldKnown', MadeOnce', BooksKnown',
           \A u \in Units : target'[u] = target[u] \/ target'[u] = NoObject
    PROVE  KnownInv' /\ DoneResolved'
<1>1. RowsKnow' /\ ListingKnown' /\ ~Clean'
    BY DEF RowsKnow, ListingKnown, Clean
<1>2. ContextKnown'
    BY DEF RInv, KnownInv, ContextKnown
<1>3. SavedKnow'
    BY DEF RInv, KnownInv, SavedKnow, Knows, Live
<1> QED
    BY <1>1, <1>2, <1>3, UnlessClean DEF KnownInv

LEMMA EditKnows ==
    ASSUME RInv, NEW u \in Units, EditSource(u) \/ RemoveFromSource(u)
    PROVE  KnownInv' /\ DoneResolved'
<1>1. /\ UNCHANGED <<pc, rows, saved, lost, context, target, made, deletions, bundle>>
      /\ pc = "idle" /\ source \in [Units -> Nat] /\ source[u] > 0
    BY DEF EditSource, RemoveFromSource, Aside, books, memory, RInv, IInv, WorldTyped
<1>2. MadeOnce'
    BY <1>1 DEF RInv, KnownInv, MadeOnce, Live
<1>3. /\ \A v \in Units : source'[v] > 0 => source[v] > 0 /\ source[v] <= source'[v]
      /\ \A v \in Children : source'[v] > 0 => source'[Parent[v]] > 0
  <2>1. \A v \in Children :
            /\ v \in Units /\ Parent[v] \in Units /\ Parent[v] \notin Children
            /\ source[v] > 0 => source[Parent[v]] > 0
      BY ParentComesFirst DEF Referable, RInv, KnownInv, WorldKnown
  <2>2. CASE EditSource(u)
    <3>1. source' = [source EXCEPT ![u] = @ + 1]
        BY <2>2 DEF EditSource
    <3> QED
        BY <1>1, <2>1, <3>1
  <2>3. CASE RemoveFromSource(u)
    <3>1. source' = [v \in Units |->
                        IF v = u \/ (v \in Children /\ Parent[v] = u) THEN 0 ELSE source[v]]
        BY <2>3 DEF RemoveFromSource
    <3>2. \A v \in Units : source'[v] > 0 => source'[v] = source[v]
        BY <1>1, <3>1
    <3>3. \A v \in Children : source'[v] > 0 => source'[Parent[v]] = source[Parent[v]]
        BY <2>1, <3>1
    <3> QED
        BY <1>1, <2>1, <3>2, <3>3
  <2> QED
      BY <2>2, <2>3
<1>4. source' \in [Units -> Nat]
    BY <1>1 DEF EditSource, RemoveFromSource
<1>5. \A v \in Units : Live(v) => target[v].version \in Nat
  <2>1. \A v \in Units : target[v] \in Object(v)
      BY DEF RInv, IInv, TargetGood
  <2> QED
      BY <2>1 DEF Object
<1>6. \A v \in Units : source'[v] > 0 /\ Live(v)' => target'[v].version <= source'[v]
    BY <1>1, <1>3, <1>4, <1>5 DEF RInv, KnownInv, WorldKnown, Live
<1>7. WorldKnown'
    BY <1>1, <1>3, <1>6 DEF RInv, KnownInv, WorldKnown, Live
<1>8. BooksKnown'
  <2>1. \A v \in Units : rows[v].fp \in Nat /\ saved[v].fp \in Nat
      BY DEF RInv, IInv, BooksGood, Row
  <2> QED
      BY <1>1, <1>3, <1>4, <2>1 DEF RInv, KnownInv, BooksKnown, Plausible
<1> QED
    BY <1>1, <1>2, <1>7, <1>8, BetweenRuns

LEMMA DeleteKnows ==
    ASSUME RInv, NEW u \in Units, DeleteOnTarget(u)
    PROVE  KnownInv' /\ DoneResolved'
<1>1. /\ UNCHANGED <<pc, rows, saved, lost, context, source, made, bundle>> /\ pc = "idle"
      /\ deletions' = deletions + 1 /\ deletions \in Nat
      /\ target' = [v \in Units |->
                       IF v = u \/ (v \in Children /\ Parent[v] = u) THEN NoObject ELSE target[v]]
    BY DEF DeleteOnTarget, Aside, books, memory, RInv, IInv, CountsTyped
<1>2. MadeOnce'
    BY <1>1 DEF MadeOnce
<1>3. \A v \in Units : target'[v] = target[v] \/ target'[v] = NoObject
    BY <1>1
<1>4. \A v \in Children : Live(v)' => target'[v].id = target'[Parent[v]].id
  <2> SUFFICES ASSUME NEW v \in Children, Live(v)' PROVE target'[v].id = target'[Parent[v]].id
      OBVIOUS
  <2>1. v \in Units /\ Parent[v] \in Units /\ Parent[v] \notin Children
      BY ParentComesFirst DEF Referable
  <2>2. v # u /\ Parent[v] # u /\ target'[v] = target[v] /\ Live(v)
      BY <1>1, <2>1 DEF Live
  <2>3. target'[Parent[v]] = target[Parent[v]]
      BY <1>1, <2>1, <2>2
  <2> QED
      BY <2>2, <2>3 DEF RInv, KnownInv, WorldKnown
<1>5. WorldKnown'
    BY <1>1, <1>3, <1>4 DEF RInv, KnownInv, WorldKnown, Live
<1>6. BooksKnown'
    BY <1>1 DEF RInv, KnownInv, BooksKnown, Plausible
<1> QED
    BY <1>1, <1>2, <1>3, <1>5, <1>6, BetweenRuns

LEMMA SettleKnows ==
    ASSUME RInv, Settle
    PROVE  KnownInv' /\ DoneResolved'
<1>1. /\ UNCHANGED <<pc, rows, saved, lost, context, source, target, made, bundle, deletions>>
      /\ pc = "idle"
    BY DEF Settle, world, books, memory
<1>2. WorldKnown' /\ MadeOnce' /\ BooksKnown'
    BY <1>1 DEF RInv, KnownInv, WorldKnown, MadeOnce, BooksKnown, Plausible, Live
<1> QED
    BY <1>1, <1>2, BetweenRuns

LEMMA StutterKnows ==
    ASSUME RInv, UNCHANGED vars
    PROVE  KnownInv' /\ DoneResolved'
<1>1. UNCHANGED <<source, target, made, bundle, rows, saved, pc, sel, mode, dirty, lost, deletions,
                  context, existing, left, todo>>
    BY DEF vars, world, books, memory, setup, people
<1>2. WorldKnown' /\ MadeOnce' /\ BooksKnown'
    BY <1>1 DEF RInv, KnownInv, WorldKnown, MadeOnce, BooksKnown, Plausible, Live
<1>3. RowsKnow' /\ SavedKnow'
    BY <1>1 DEF RInv, KnownInv, RowsKnow, SavedKnow, Knows, Live
<1>4. ContextKnown' /\ ListingKnown'
    BY <1>1 DEF RInv, KnownInv, ContextKnown, ListingKnown, InBundle, Live
<1>5. DoneResolved'
  <2>1. (Clean' <=> Clean) /\ InBundle' = InBundle
      BY <1>1 DEF Clean, InBundle
  <2>2. \A us \in SUBSET Units : Sound(us)' <=> Sound(us)
      BY <2>1 DEF Sound
  <2>3. \A u \in Units : (Done(u)' <=> Done(u)) /\ (Resolved(u)' <=> Resolved(u))
      BY <1>1, <2>1 DEF Done, Resolved, Live
  <2> QED
      BY <2>1, <2>2, <2>3 DEF RInv, DoneResolved
<1> QED
    BY <1>2, <1>3, <1>4, <1>5 DEF KnownInv

(* --- the theorem ---------------------------------------------------------------------------- *)

LEMMA InitKnows == Init => RInv
<1> SUFFICES ASSUME Init PROVE RInv
    OBVIOUS
<1>1. IInv
    BY InitIsGood
<1>2. \A u \in Units : ~Live(u) /\ made[u] = 0 /\ context[u] = NoId /\ source[u] = 1
                       /\ rows[u] = NoRow /\ saved[u] = NoRow
    BY DEF Init, Live
<1>3. WorldKnown /\ MadeOnce
    BY <1>2, ParentComesFirst DEF Init, WorldKnown, MadeOnce, Referable
<1>4. RowsKnow /\ SavedKnow /\ BooksKnown
    BY <1>2 DEF RowsKnow, SavedKnow, BooksKnown, Plausible, NoRow
<1>5. ContextKnown /\ ListingKnown /\ DoneResolved
    BY <1>2 DEF Init, ContextKnown, ListingKnown, DoneResolved, Clean
<1> QED
    BY <1>1, <1>3, <1>4, <1>5 DEF RInv, KnownInv

LEMMA NextKnows == RInv /\ [Next]_vars => RInv'
<1> SUFFICES ASSUME RInv, [Next]_vars PROVE RInv'
    OBVIOUS
<1>1. IInv'
    BY NextKeeps DEF RInv
<1>2. CASE Start \/ Proceed
  <2>1. \E s, m, f : Begin(s, m, f)
      BY <1>2 DEF Start, Proceed
  <2> QED
      BY <1>1, <2>1, BeginKnows DEF RInv
<1>3. CASE \E u \in Units : Process(u)
  <2>1. PICK u \in Units : Process(u)
      BY <1>3
  <2>2. Take(u) /\ Turn(u)
      BY <2>1, ProcessIsTurn DEF RInv
  <2>3. KnownInv'
      BY <2>2, TurnKeepsWorld, TurnKeepsMade, TurnKeepsRows, TurnKeepsContext DEF RInv, KnownInv
  <2> QED
      BY <1>1, <2>1, <2>3, ProcessResolves DEF RInv
<1>4. CASE PassGates \/ StartPhase \/ EndPhase \/ MarkMissing
    BY <1>1, <1>4, PassGatesKnows, StartPhaseKnows, EndPhaseKnows, MarkMissingKnows DEF RInv
<1>5. CASE Abort \/ Finish \/ Disturbance
    BY <1>1, <1>5, EndKnows DEF RInv
<1>6. CASE Outside
    BY <1>1, <1>6, EditKnows, DeleteKnows DEF Outside, RInv
<1>7. CASE Settle \/ UNCHANGED vars
    BY <1>1, <1>7, SettleKnows, StutterKnows DEF RInv
<1> QED
    BY <1>2, <1>3, <1>4, <1>5, <1>6, <1>7 DEF Next, RunStep

(* While no one deletes objects on the target, a reference carries the id that is there. *)
LEMMA ReferencesAreThere ==
    ASSUME RInv, deletions = 0, NEW u \in Units, Live(u), NEW v \in Refs[u]
    PROVE  target[u].refs[v] = target[v].id
<1>1. v \in Referable /\ v \in Units
    BY ReferredIsReferable DEF Referable
<1>2. /\ target[u].refs[v] \in Ids /\ target[u].refs[v][1] = v
      /\ target[u].refs[v][2] \in 1..made[v]
    BY DEF RInv, IInv, TargetGood, ReferencesAreExact
<1>3. made[v] \in Nat /\ made[v] <= 1 /\ (made[v] = 1 => Live(v))
    BY <1>1 DEF RInv, IInv, WorldTyped, KnownInv, MadeOnce
<1>4. made[v] = 1 /\ target[u].refs[v][2] = 1
    BY <1>2, <1>3
<1>5. target[v].id # NoId
    BY <1>1, <1>3, <1>4 DEF RInv, KnownInv, WorldKnown
<1>6. target[v].id \in Ids
  <2>1. target[v] \in Object(v)
      BY <1>1 DEF RInv, IInv, TargetGood
  <2> QED
      BY <1>5, <2>1 DEF Object
<1>7. target[v].id[1] = v /\ target[v].id[2] = 1
    BY <1>1, <1>4, <1>5 DEF RInv, IInv, TargetGood, Own
<1> QED
    BY <1>2, <1>4, <1>6, <1>7 DEF Ids

(* phases.py and BaseImporter.process_units: after a full import in which no call and no
   save failed, every asset whose references, with theirs in turn, are in the bundle has
   the bundle's content and its references the ids that are there, whatever earlier runs
   did; but for an object that was made and whose row was never saved.                  *)
THEOREM CleanRunsResolve == Spec => []CleanRunsResolveEverything
<1>1. RInv => CleanRunsResolveEverything
  <2> SUFFICES ASSUME RInv, pc = "final", mode = "off", sel = Families, ~dirty,
                      NEW u \in Units \ lost, Resolvable(u)
               PROVE  Current(u, bundle)
      BY DEF CleanRunsResolveEverything
  <2>1. PICK us \in SUBSET InBundle : u \in us /\ Closed(us) /\ InPhaseOrder(us)
      BY DEF Resolvable
  <2>2. Sound(us) /\ us \in SUBSET Units
      BY <2>1 DEF Sound, InBundle
  <2>3. left = {}
      BY DEF RInv, KnownInv, ContextKnown
  <2>4. Done(u)
      BY <2>1, <2>3 DEF Done
  <2>5. Live(u) /\ target[u].version = bundle[u]
      BY <2>1, <2>2, <2>4 DEF RInv, DoneResolved, Clean, Resolved
  <2> QED
      BY <2>5, ReferencesAreThere DEF Current
<1> QED
    BY <1>1, InitKnows, NextKnows, PTL DEF Spec

=============================================================================
