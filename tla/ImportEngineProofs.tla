--------------------------- MODULE ImportEngineProofs ---------------------------
(* Proofs about ImportEngine, for every set of units, ids, bundles and settings and
   any number of crashes, failures and edits: every step of the engine is a step of
   the state store, so what StateStoreProofs shows of the store holds of an import;
   rows name their own objects; a rehearsal leaves the target and its rows alone. *)
EXTENDS ImportEngine, StateStoreProofs

(* --- the inductive invariant ---------------------------------------------- *)

(* While a rehearsal runs, the live rows it holds in memory are those on disk: it
   queues rows of its own table only.                                         *)
LiveRowsAreStored ==
    (pc # "idle" /\ run.mode = "dry") =>
        \A u \in Units : cache[<<"live", u>>] = table[<<"live", u>>]

EngineIInv ==
    /\ TypeOK
    /\ StoreIInv
    /\ up <=> pc # "idle"
    /\ pc \in {"record", "checkpoint"} => current \in Conclusion
    /\ pc = "replay" => todo \subseteq {n \in Names : checkpoint[n] # NoRow}
    /\ pc \in {"defer", "list", "units", "record", "checkpoint"} => todo \subseteq InBundle
    /\ LiveRowsAreStored

(* A later assignment of objects to ids only adds objects and edits them. *)
Grows(old, new) ==
    /\ new \in [TargetIds -> Object \cup {NoRow}]
    /\ \A id \in TargetIds : old[id] # NoRow =>
            new[id] # NoRow /\ new[id].unit = old[id].unit

(* --- keys and types -------------------------------------------------------- *)

LEMMA KeysOfUnits ==
    ASSUME run \in RunSettings, NEW u \in Units
    PROVE  /\ run.mode \in {"live", "dry"}
           /\ StateKey(u) \in Keys
           /\ <<"live", u>> \in Keys
           /\ Name(u) \in Names
           /\ run.mode = "dry" => \A v \in Units : StateKey(u) # <<"live", v>>
<1>1. run.mode \in {"live", "dry"}
    BY SettingsAssumption
<1>2. StateKey(u) \in Keys /\ <<"live", u>> \in Keys
    BY <1>1, KeysAssumption DEF StateKey
<1>3. Name(u) \in Names
    BY DEF Names
<1>4. run.mode = "dry" => \A v \in Units : StateKey(u) # <<"live", v>>
    BY DEF StateKey
<1> QED BY <1>1, <1>2, <1>3, <1>4

(* Editing an object that is there, and making one at an unused id, both grow. *)
LEMMA EditGrows ==
    ASSUME objects \in [TargetIds -> Object \cup {NoRow}],
           NEW id \in TargetIds, objects[id] # NoRow,
           NEW fp \in Fingerprints
    PROVE  Grows(objects, Contents(id, fp))
<1>1. objects[id] \in Object
    OBVIOUS
<1>2. [objects[id] EXCEPT !.content = fp] \in Object
    BY <1>1 DEF Object
<1>3. [objects[id] EXCEPT !.content = fp].unit = objects[id].unit
    BY <1>1 DEF Object
<1>4. Contents(id, fp) = [objects EXCEPT ![id] = [objects[id] EXCEPT !.content = fp]]
    BY DEF Contents
<1> QED BY <1>2, <1>3, <1>4, NothingAssumption DEF Grows

LEMMA MakeGrows ==
    ASSUME objects \in [TargetIds -> Object \cup {NoRow}],
           NEW id \in TargetIds, objects[id] = NoRow, NEW object \in Object
    PROVE  Grows(objects, [objects EXCEPT ![id] = object])
BY NothingAssumption DEF Grows

LEMMA SameGrows ==
    ASSUME objects \in [TargetIds -> Object \cup {NoRow}]
    PROVE  Grows(objects, objects)
BY DEF Grows

(* --- taking one unit --------------------------------------------------------- *)

(* `id` may stand in a row of u: it is blank or an object made for u. *)
Owned(objs, u, id) ==
    id # Blank => id \in TargetIds /\ objs[id] # NoRow /\ objs[id].unit = u

(* The ids an outcome of u may bring: none, one the engine has listed, stored or
   checkpointed for it, or that of an object made for u.                       *)
KnownId(u, id) ==
    \/ id \in {Blank, existing[Name(u)], TargetOf(cache[StateKey(u)])}
    \/ checkpoint[Name(u)] # NoRow /\ id = checkpoint[Name(u)].target
    \/ Owned(objects', u, id)

(* u is concluded with a known id; the target only grows. *)
ConcludedSafely(u) ==
    /\ Grows(objects, objects')
    /\ run.mode = "dry" => objects' = objects
    /\ pc' = "record" /\ current' \in Conclusion
    /\ current'.unit = u /\ KnownId(u, current'.target)

(* u is taken from the work list, and passed over or concluded. *)
Taken(u) ==
    /\ pc = "units" /\ u \in todo /\ todo' = todo \ {u}
    /\ UnitFrame
    /\ \/ UNCHANGED <<objects, pc, current>>
       \/ ConcludedSafely(u)

LEMMA ConcludeIs ==
    ASSUME NEW u \in Units, NEW status \in LastActions,
           NEW id \in TargetIds \cup {Blank}, NEW saved \in BOOLEAN,
           Conclude(u, status, id, saved)
    PROVE  /\ pc' = "record" /\ current' \in Conclusion
           /\ current'.unit = u /\ current'.target = id
BY DEF Conclude, Conclusion

(* What a write to the object `id` leaves behind, whether it succeeds, fails, or
   succeeds and loses its answer.                                              *)
LEMMA ApplyConcludes ==
    ASSUME objects \in [TargetIds -> Object \cup {NoRow}],
           NEW u \in Units, Fp(u) \in Fingerprints,
           NEW id \in TargetIds, NEW status \in {"created", "updated", "adopted"},
           Apply(u, id, status)
    PROVE  /\ Grows(objects, objects')
           /\ pc' = "record" /\ current' \in Conclusion
           /\ current'.unit = u /\ current'.target = id
<1>1. Done(u, status) \in LastActions /\ "failed" \in LastActions
    BY DEF Done, LastActions
<1>2. Live(id) => Grows(objects, Contents(id, Fp(u)))
    BY EditGrows DEF Live
<1>3. Grows(objects, objects)
    BY SameGrows
<1>4. CASE /\ Live(id)
           /\ objects' = Contents(id, Fp(u))
           /\ Concluded(u, Done(u, status), id)
    BY <1>1, <1>2, <1>4, ConcludeIs DEF Concluded
<1>5. CASE /\ Live(id)
           /\ CallFails(Contents(id, Fp(u)))
           /\ Concluded(u, "failed", id)
    BY <1>1, <1>2, <1>3, <1>5, ConcludeIs DEF Concluded, CallFails
<1>6. CASE /\ ~Live(id)
           /\ Concluded(u, "failed", id)
           /\ UNCHANGED target
    BY <1>1, <1>3, <1>6, ConcludeIs DEF Concluded, target
<1> QED BY <1>4, <1>5, <1>6 DEF Apply

LEMMA UpdateInPlaceConcludes ==
    ASSUME objects \in [TargetIds -> Object \cup {NoRow}],
           NEW u \in Units, Fp(u) \in Fingerprints,
           NEW id \in TargetIds \cup {Blank},
           UpdateInPlace(u, id)
    PROVE  /\ Grows(objects, objects')
           /\ pc' = "record" /\ current' \in Conclusion
           /\ current'.unit = u /\ current'.target = id
<1>1. CASE id = Blank
    <2>1. "failed" \in LastActions
        BY DEF LastActions
    <2> QED BY <1>1, <2>1, ConcludeIs, SameGrows DEF UpdateInPlace, Concluded, target
<1>2. CASE id # Blank
    <2>1. Apply(u, id, "updated") /\ id \in TargetIds
        BY <1>2 DEF UpdateInPlace
    <2> QED BY <2>1, ApplyConcludes
<1> QED BY <1>1, <1>2

(* The decision lets a unit be adopted or skipped only when its name is listed. *)
LEMMA DecisionNeedsListing ==
    ASSUME NEW u \in Units, Decision(u) \in {"ADOPT", "SKIP", "UPDATE"}
    PROVE  existing[Name(u)] # Blank
BY DEF Decision, Decide, Exists

(* Each way through _process_one() takes the unit safely. *)
LEMMA ProcessUnitTakes ==
    ASSUME EngineIInv, NEW u \in Units, ProcessUnit(u)
    PROVE  Taken(u)
<1> DEFINE id == existing[Name(u)]
<1> DEFINE stored == TargetOf(cache[StateKey(u)])
<1>1. /\ Name(u) \in Names /\ StateKey(u) \in Keys
      /\ run.mode \in {"live", "dry"}
    BY KeysOfUnits DEF EngineIInv, TypeOK
<1>2. /\ objects \in [TargetIds -> Object \cup {NoRow}]
      /\ checkpoint \in [Names -> Outcome \cup {NoRow}]
      /\ id \in TargetIds \cup {Blank}
      /\ bundle \in [Units -> Fingerprints \cup {Blank}]
      /\ cache \in [Keys -> Row \cup {NoRow}]
    BY <1>1 DEF EngineIInv, TypeOK, StoreTypeOK
<1>3. stored \in TargetIds \cup {Blank}
    <2>1. cache[StateKey(u)] \in Row \cup {NoRow}
        BY <1>1, <1>2
    <2> QED BY <2>1 DEF TargetOf, Row
<1>4. pc = "units" /\ u \in todo => Fp(u) \in Fingerprints
    BY <1>2 DEF EngineIInv, InBundle, Fp
<1>5. {"manual", "skipped", "failed", "adopted", "created", "updated",
       "skipped_no_object"} \subseteq LastActions
    BY DEF LastActions
<1>6. Grows(objects, objects)
    BY <1>2, SameGrows
<1> HIDE DEF id, stored
<1>7. CASE OutOfScope(u)
    BY <1>7 DEF OutOfScope, Taking, UnitFrame, Taken, target
<1>8. CASE NotAttempted(u)
    <2>1. PICK status \in LastActions : Concluded(u, status, Blank)
        BY <1>5, <1>8 DEF NotAttempted
    <2> QED BY <1>6, <1>8, <2>1, ConcludeIs
            DEF NotAttempted, Taking, Taken, ConcludedSafely, Concluded, KnownId, target
<1>9. CASE Resume(u)
    <2>1. checkpoint[Name(u)] \in Outcome /\ checkpoint[Name(u)] # NoRow
        BY <1>1, <1>2, <1>9 DEF Resume, Resumable
    <2>2. /\ checkpoint[Name(u)].status \in LastActions
          /\ checkpoint[Name(u)].target \in TargetIds \cup {Blank}
        BY <2>1 DEF Outcome
    <2>3. Conclude(u, checkpoint[Name(u)].status, checkpoint[Name(u)].target, FALSE)
        BY <1>9 DEF Resume
    <2>4. /\ pc' = "record" /\ current' \in Conclusion
          /\ current'.unit = u /\ current'.target = checkpoint[Name(u)].target
        BY <2>2, <2>3, ConcludeIs
    <2> QED BY <1>6, <1>9, <2>1, <2>4
            DEF Resume, Taking, Taken, ConcludedSafely, KnownId, target
<1>10. CASE CheckpointUnreadable(u)
    BY <1>5, <1>6, <1>10, ConcludeIs
    DEF CheckpointUnreadable, Taking, Taken, ConcludedSafely, Concluded, KnownId, target
<1>11. CASE Unchanged(u)
    BY <1>2, <1>5, <1>6, <1>11, ConcludeIs
    DEF Unchanged, Decided, Taking, Taken, ConcludedSafely, Concluded, KnownId, target, id
<1>12. ASSUME NEW action \in {"CREATE", "UPDATE", "ADOPT"}, Rehearse(u, action)
       PROVE  Taken(u)
    <2>1. DryStatus(action) \in LastActions
        BY <1>5 DEF DryStatus
    <2>2. Conclude(u, DryStatus(action), id, FALSE)
        BY <1>12 DEF Rehearse, id
    <2>3. /\ pc' = "record" /\ current' \in Conclusion
          /\ current'.unit = u /\ current'.target = id
        BY <1>2, <2>1, <2>2, ConcludeIs
    <2> QED BY <1>6, <1>12, <2>3
            DEF Rehearse, Decided, Taking, Taken, ConcludedSafely, KnownId, target, id
<1>13. CASE Update(u)
    <2>1. /\ Decided(u, "UPDATE") /\ run.mode = "live"
          /\ UpdateInPlace(u, OrElse(stored, id))
        BY <1>13 DEF Update, stored, id
    <2>2. OrElse(stored, id) \in {stored, id}
        BY DEF OrElse
    <2>3. Taking(u) /\ UnitFrame
        BY <2>1 DEF Decided
    <2>4. /\ Grows(objects, objects')
          /\ pc' = "record" /\ current' \in Conclusion
          /\ current'.unit = u /\ current'.target \in {stored, id}
        BY <1>2, <1>3, <1>4, <2>1, <2>2, <2>3, UpdateInPlaceConcludes DEF Taking
    <2> QED BY <2>1, <2>3, <2>4 DEF Taking, Taken, ConcludedSafely, KnownId, stored, id
<1>14. CASE Adopt(u)
    <2>1. Decided(u, "ADOPT") /\ run.mode = "live"
        BY <1>14 DEF Adopt
    <2>2. Taking(u) /\ UnitFrame /\ Decision(u) = "ADOPT"
        BY <2>1 DEF Decided
    <2>3. id \in TargetIds
        BY <1>2, <2>2, DecisionNeedsListing DEF id
    <2>4. CASE \E status \in {"created", "updated", "adopted"} : Apply(u, id, status)
        <3>1. /\ Grows(objects, objects')
              /\ pc' = "record" /\ current' \in Conclusion
              /\ current'.unit = u /\ current'.target = id
            BY <1>2, <1>4, <2>2, <2>3, <2>4, ApplyConcludes DEF Taking
        <3> QED BY <2>1, <2>2, <3>1 DEF Taking, Taken, ConcludedSafely, KnownId, id
    <2>5. CASE Concluded(u, "adopted", id) /\ UNCHANGED target
        BY <1>2, <1>5, <1>6, <2>2, <2>5, ConcludeIs
        DEF Taking, Taken, ConcludedSafely, Concluded, KnownId, target, id
    <2> QED BY <1>14, <2>4, <2>5 DEF Adopt, id
<1>15. CASE Create(u)
    <2>1. Decided(u, "CREATE") /\ run.mode = "live"
        BY <1>15 DEF Create
    <2>2. Taking(u) /\ UnitFrame
        BY <2>1 DEF Decided
    <2>3. PICK new \in TargetIds :
             /\ FreshId(new)
             /\ \/ /\ objects' = NewObject(u, new)
                   /\ Concluded(u, Done(u, "created"), new)
                \/ /\ CallFails(NewObject(u, new))
                   /\ Concluded(u, "failed", Blank)
        BY <1>15 DEF Create
    <2> DEFINE object == [unit |-> u, content |-> Fp(u), maker |-> "tool", live |-> TRUE]
    <2>4. object \in Object
        BY <1>4, <2>2 DEF Object, Taking
    <2>5. /\ NewObject(u, new) = [objects EXCEPT ![new] = object]
          /\ object # NoRow /\ object.unit = u
        BY <2>4, NothingAssumption DEF NewObject
    <2> HIDE DEF object
    <2>6. Grows(objects, NewObject(u, new))
        <3>1. objects[new] = NoRow
            BY <2>3 DEF FreshId
        <3>2. Grows(objects, [objects EXCEPT ![new] = object])
            BY <1>2, <2>4, <3>1, MakeGrows
        <3> QED BY <2>5, <3>2
    <2>7. CASE /\ objects' = NewObject(u, new)
               /\ Concluded(u, Done(u, "created"), new)
        <3>1. Done(u, "created") \in LastActions
            BY DEF Done, LastActions
        <3>2. /\ pc' = "record" /\ current' \in Conclusion
              /\ current'.unit = u /\ current'.target = new
            BY <2>7, <3>1, ConcludeIs DEF Concluded
        <3>3. Owned(objects', u, new)
            BY <1>2, <2>5, <2>7 DEF Owned
        <3> QED BY <2>1, <2>2, <2>6, <2>7, <3>2, <3>3
                DEF Taking, Taken, ConcludedSafely, KnownId
    <2>8. CASE /\ CallFails(NewObject(u, new))
               /\ Concluded(u, "failed", Blank)
        <3>1. objects' \in {objects, NewObject(u, new)}
            BY <2>8 DEF CallFails
        <3>2. /\ pc' = "record" /\ current' \in Conclusion
              /\ current'.unit = u /\ current'.target = Blank
            BY <1>5, <2>8, ConcludeIs DEF Concluded
        <3> QED BY <1>6, <2>1, <2>2, <2>6, <3>1, <3>2
                DEF Taking, Taken, ConcludedSafely, KnownId
    <2> QED BY <2>3, <2>7, <2>8
<1>16. CASE AlreadyExists(u)
    <2>1. /\ Decided(u, "CREATE") /\ run.mode = "live"
          /\ \/ UpdateInPlace(u, OrElse(id, stored))
             \/ Concluded(u, "adopted", OrElse(id, stored)) /\ UNCHANGED target
        BY <1>16 DEF AlreadyExists, stored, id
    <2>2. OrElse(id, stored) \in {stored, id}
        BY DEF OrElse
    <2>3. Taking(u) /\ UnitFrame
        BY <2>1 DEF Decided
    <2>4. /\ Grows(objects, objects')
          /\ pc' = "record" /\ current' \in Conclusion
          /\ current'.unit = u /\ current'.target \in {stored, id}
        <3>1. CASE UpdateInPlace(u, OrElse(id, stored))
            BY <1>2, <1>3, <1>4, <2>2, <2>3, <3>1, UpdateInPlaceConcludes DEF Taking
        <3>2. CASE Concluded(u, "adopted", OrElse(id, stored)) /\ UNCHANGED target
            BY <1>2, <1>3, <1>5, <1>6, <2>2, <3>2, ConcludeIs DEF Concluded, target
        <3> QED BY <2>1, <3>1, <3>2
    <2> QED BY <2>1, <2>3, <2>4 DEF Taking, Taken, ConcludedSafely, KnownId, stored, id
<1>17. CASE CreateDeclarative(u)
    <2>1. Decided(u, "CREATE") /\ run.mode = "live"
        BY <1>17 DEF CreateDeclarative
    <2>2. Taking(u) /\ UnitFrame
        BY <2>1 DEF Decided
    <2>3. PICK there \in LiveIds({u}) : Apply(u, there, "created")
        BY <1>17 DEF CreateDeclarative
    <2>4. there \in TargetIds /\ objects[there] # NoRow /\ objects[there].unit = u
        BY <2>3 DEF LiveIds, Live
    <2>5. /\ Grows(objects, objects')
          /\ pc' = "record" /\ current' \in Conclusion
          /\ current'.unit = u /\ current'.target = there
        BY <1>2, <1>4, <2>2, <2>3, <2>4, ApplyConcludes DEF Taking
    <2>6. Owned(objects', u, there)
        BY <2>4, <2>5 DEF Owned, Grows
    <2> QED BY <2>1, <2>2, <2>5, <2>6 DEF Taking, Taken, ConcludedSafely, KnownId
<1>18. CASE CreateNoObject(u)
    BY <1>5, <1>6, <1>18, ConcludeIs
    DEF CreateNoObject, Decided, Taking, Taken, ConcludedSafely, Concluded, KnownId, target
<1> QED BY <1>7, <1>8, <1>9, <1>10, <1>11, <1>12, <1>13, <1>14, <1>15, <1>16, <1>17, <1>18
        DEF ProcessUnit

(* --- what a step does to the store ------------------------------------------ *)

(* A row of u is recorded with the id `id`. *)
Records(u, id) ==
    \E action \in LastActions, fp \in Fingerprints \cup {Blank} :
        Record(StateKey(u), action, fp, id)

(* The ids a step may record for u: none, that of the outcome at hand, or that of
   a checkpoint entry of u.                                                    *)
RecordedId(u, id) ==
    \/ id = Blank
    \/ current \in Conclusion /\ current.unit = u /\ id = current.target
    \/ \E n \in Names : /\ checkpoint[n] \in Outcome
                        /\ checkpoint[n].unit = u /\ id = checkpoint[n].target

RecordsSafely ==
    \E u \in Units, id \in TargetIds \cup {Blank} :
        Records(u, id) /\ RecordedId(u, id)

(* The store sees one of its own operations, or nothing; only Open and Stop start
   and end a process, and the run's settings are chosen at its start.          *)
StoreStep ==
    \/ /\ RecordsSafely \/ Flush \/ FlushSecondsPass \/ UNCHANGED storeVars
       /\ pc' = "idle" <=> pc = "idle"
       /\ UNCHANGED run
    \/ /\ Open(bundleId)
       /\ pc = "idle" /\ pc' # "idle"
    \/ /\ Stop
       /\ pc # "idle" /\ pc' = "idle"

LEMMA ReplayRecords ==
    ASSUME EngineIInv, NEW n \in Names, Replay(n)
    PROVE  RecordsSafely \/ UNCHANGED storeVars
<1>1. /\ n \in todo /\ pc = "replay"
      /\ \/ UNCHANGED storeVars
         \/ Record(StateKey(checkpoint[n].unit), checkpoint[n].status,
                   checkpoint[n].fp, checkpoint[n].target)
    BY DEF Replay
<1>2. checkpoint[n] \in Outcome
    BY <1>1 DEF EngineIInv, TypeOK
<1>3. /\ checkpoint[n].unit \in Units /\ checkpoint[n].status \in LastActions
      /\ checkpoint[n].fp \in Fingerprints \cup {Blank}
      /\ checkpoint[n].target \in TargetIds \cup {Blank}
    BY <1>2 DEF Outcome
<1>4. RecordedId(checkpoint[n].unit, checkpoint[n].target)
    BY <1>2 DEF RecordedId
<1> QED BY <1>1, <1>3, <1>4 DEF RecordsSafely, Records

LEMMA RecordStateRecords ==
    ASSUME EngineIInv, RecordState
    PROVE  RecordsSafely
<1>1. current \in Conclusion
    BY DEF EngineIInv, RecordState
<1>2. /\ current.unit \in Units /\ current.status \in LastActions
      /\ current.target \in TargetIds \cup {Blank}
    BY <1>1 DEF Conclusion
<1>3. Fp(current.unit) \in Fingerprints \cup {Blank}
    BY <1>2 DEF EngineIInv, TypeOK, Fp
<1>4. RecordedId(current.unit, current.target)
    BY <1>1 DEF RecordedId
<1>5. PICK fp \in Fingerprints \cup {Blank} :
          Record(StateKey(current.unit), current.status, fp, current.target)
    BY <1>3 DEF RecordState
<1> QED BY <1>2, <1>4, <1>5 DEF RecordsSafely, Records

(* record() of a unit that is deferred, or that its source has lost. *)
LEMMA BlankRecords ==
    ASSUME EngineIInv, NEW u \in Units,
           NEW action \in LastActions, NEW fp \in Fingerprints \cup {Blank},
           Record(StateKey(u), action, fp, Blank)
    PROVE  RecordsSafely
<1>1. Blank \in TargetIds \cup {Blank} /\ RecordedId(u, Blank)
    BY DEF RecordedId
<1> QED BY <1>1 DEF RecordsSafely, Records

LEMMA RunStepOnStore ==
    ASSUME EngineIInv, RunStep
    PROVE  StoreStep
<1> USE DEF process
<1>1. ASSUME NEW n \in Names, Replay(n) PROVE StoreStep
    BY <1>1, ReplayRecords DEF StoreStep, Replay
<1>2. CASE ReplayDone
    BY <1>2 DEF StoreStep, ReplayDone
<1>3. ASSUME NEW u \in Units, Defer(u) PROVE StoreStep
    <2>1. "not_selected" \in LastActions /\ Fp(u) \in Fingerprints \cup {Blank}
        BY DEF LastActions, Fp, EngineIInv, TypeOK
    <2>2. RecordsSafely \/ UNCHANGED storeVars
        BY <1>3, <2>1, BlankRecords DEF Defer
    <2> QED BY <1>3, <2>2 DEF StoreStep, Defer
<1>4. ASSUME NEW u \in Units, ProcessUnit(u) PROVE StoreStep
    <2>1. Taken(u)
        BY <1>4, ProcessUnitTakes
    <2> QED BY <2>1 DEF Taken, ConcludedSafely, UnitFrame, StoreStep
<1>5. ASSUME NEW u \in Units, MarkMissing(u) PROVE StoreStep
    <2>1. "deleted_in_source" \in LastActions /\ Blank \in Fingerprints \cup {Blank}
        BY DEF LastActions
    <2>2. RecordsSafely \/ UNCHANGED storeVars
        BY <1>5, <2>1, BlankRecords DEF MarkMissing
    <2> QED BY <1>5, <2>2 DEF StoreStep, MarkMissing
<1>6. CASE DeferDone
    BY <1>6 DEF StoreStep, DeferDone
<1>7. CASE List
    BY <1>7 DEF StoreStep, List
<1>8. CASE RecordState
    BY <1>8, RecordStateRecords DEF StoreStep, RecordState
<1>9. CASE RecordCheckpoint
    BY <1>9 DEF StoreStep, RecordCheckpoint
<1>10. CASE FlushCheckpoint
    BY <1>10 DEF StoreStep, FlushCheckpoint, PhaseOver
<1>11. CASE FlushPhase
    BY <1>11 DEF StoreStep, FlushPhase
<1>12. CASE MissingDone
    BY <1>12 DEF StoreStep, MissingDone
<1>13. CASE FinalFlush
    BY <1>13 DEF StoreStep, FinalFlush
<1>14. CASE Exit
    BY <1>14 DEF StoreStep, Exit, ForgetProcess
<1> QED BY <1>1, <1>2, <1>3, <1>4, <1>5, <1>6, <1>7, <1>8, <1>9, <1>10, <1>11, <1>12,
           <1>13, <1>14 DEF RunStep

LEMMA EnvironmentOnStore ==
    ASSUME EngineIInv, Environment
    PROVE  StoreStep
<1> USE DEF process
<1>1. ASSUME NEW settings \in RunSettings, StartRun(settings) PROVE StoreStep
    BY <1>1 DEF StoreStep, StartRun
<1>2. ASSUME NEW u \in Units, HostAppears(u) PROVE StoreStep
    BY <1>2 DEF StoreStep, HostAppears
<1>3. CASE Crash
    BY <1>3 DEF StoreStep, Crash, ForgetProcess
<1>4. CASE Interrupt
    BY <1>4 DEF StoreStep, Interrupt, InPhase
<1>5. CASE NewBundle
    BY <1>5 DEF StoreStep, NewBundle
<1>6. CASE HandEdit
    BY <1>6 DEF StoreStep, HandEdit
<1>7. CASE TimePasses
    BY <1>7 DEF StoreStep, TimePasses
<1> QED BY <1>1, <1>2, <1>3, <1>4, <1>5, <1>6, <1>7 DEF Environment

LEMMA NextOnStore ==
    ASSUME EngineIInv, [Next]_vars
    PROVE  StoreStep
<1>1. CASE Next
    BY <1>1, RunStepOnStore, EnvironmentOnStore DEF Next
<1>2. CASE UNCHANGED vars
    BY <1>2 DEF vars, process, StoreStep
<1> QED BY <1>1, <1>2

(* An operation with these arguments is a step of the store's own specification. *)
LEMMA StoreStepIsAStep ==
    ASSUME EngineIInv, StoreStep
    PROVE  /\ [StoreNext]_storeVars
           /\ StoreIInv'
<1>1. ASSUME RecordsSafely PROVE StoreNext
    <2>1. PICK u \in Units, id \in TargetIds \cup {Blank},
               action \in LastActions, fp \in Fingerprints \cup {Blank} :
                   Record(StateKey(u), action, fp, id)
        BY <1>1 DEF RecordsSafely, Records
    <2>2. StateKey(u) \in Keys
        BY KeysOfUnits DEF EngineIInv, TypeOK
    <2> QED BY <2>1, <2>2 DEF StoreNext
<1>2. bundleId \in RunIds
    BY DEF EngineIInv, TypeOK
<1>3. [StoreNext]_storeVars
    BY <1>1, <1>2 DEF StoreStep, StoreNext
<1> QED BY <1>3, StoreNextIInv DEF EngineIInv

(* --- the invariant is inductive ----------------------------------------------- *)

(* What an operation of the store leaves: a durable table that is the old one or the
   whole view, and a process that is still there, or not.                      *)
LEMMA StoreStepEffect ==
    ASSUME EngineIInv, StoreStep
    PROVE  /\ (up <=> pc # "idle")'
           /\ LiveRowsAreStored'
           /\ run.mode = "dry" =>
                 \A u \in Units : table'[<<"live", u>>] = table[<<"live", u>>]
<1> USE DEF EngineIInv
<1>1. CASE RecordsSafely /\ (pc' = "idle" <=> pc = "idle") /\ UNCHANGED run
    <2>1. PICK u \in Units, id \in TargetIds \cup {Blank},
               action \in LastActions, fp \in Fingerprints \cup {Blank} :
                   Record(StateKey(u), action, fp, id)
        BY <1>1 DEF RecordsSafely, Records
    <2>2. /\ StateKey(u) \in Keys
          /\ run.mode = "dry" => \A v \in Units : StateKey(u) # <<"live", v>>
          /\ \A v \in Units : <<"live", v>> \in Keys
        BY KeysOfUnits DEF TypeOK
    <2>3. table' \in {table, cache'}
        BY <2>1, <2>2, RecordIInv
    <2>4. PICK row : cache' = [cache EXCEPT ![StateKey(u)] = row]
        BY <2>1 DEF Record
    <2>5. up /\ up' = up
        BY <2>1 DEF Record
    <2>6. cache \in [Keys -> Row \cup {NoRow}]
        BY DEF TypeOK, StoreTypeOK
    <2> QED BY <1>1, <2>2, <2>3, <2>4, <2>5, <2>6 DEF LiveRowsAreStored
<1>2. CASE Flush /\ (pc' = "idle" <=> pc = "idle") /\ UNCHANGED run
    <2>1. table' \in {table, cache} /\ cache' = cache /\ up /\ up' = up
        BY <1>2, FlushIInv DEF Flush
    <2> QED BY <1>2, <2>1 DEF LiveRowsAreStored
<1>3. CASE /\ FlushSecondsPass \/ UNCHANGED storeVars
           /\ pc' = "idle" <=> pc = "idle"
           /\ UNCHANGED run
    <2>1. UNCHANGED <<table, cache, up>>
        BY <1>3 DEF FlushSecondsPass, storeVars
    <2> QED BY <1>3, <2>1 DEF LiveRowsAreStored
<1>4. CASE Open(bundleId) /\ pc = "idle" /\ pc' # "idle"
    BY <1>4 DEF Open, LiveRowsAreStored
<1>5. CASE Stop /\ pc # "idle" /\ pc' = "idle"
    BY <1>5 DEF Stop, LiveRowsAreStored
<1> QED BY <1>1, <1>2, <1>3, <1>4, <1>5 DEF StoreStep

(* What StoreStep has established of the next state. *)
StoreDone == StoreIInv /\ LiveRowsAreStored /\ (up <=> pc # "idle")

LEMMA ReplayIInv ==
    ASSUME EngineIInv, StoreDone'
    PROVE  /\ \A settings \in RunSettings : StartRun(settings) => EngineIInv'
           /\ \A n \in Names : Replay(n) => EngineIInv'
           /\ ReplayDone => EngineIInv'
<1> USE DEF EngineIInv, StoreDone, StoreIInv, TypeOK, target, disk, process, world
<1>1. ASSUME NEW settings \in RunSettings, StartRun(settings) PROVE EngineIInv'
    BY <1>1 DEF StartRun
<1>2. ASSUME NEW n \in Names, Replay(n) PROVE EngineIInv'
    BY <1>2 DEF Replay
<1>3. CASE ReplayDone
    BY <1>3 DEF ReplayDone, InBundle
<1> QED BY <1>1, <1>2, <1>3

LEMMA DeferIInv ==
    ASSUME EngineIInv, StoreDone'
    PROVE  /\ \A u \in Units : Defer(u) => EngineIInv'
           /\ DeferDone => EngineIInv'
<1> USE DEF EngineIInv, StoreDone, StoreIInv, TypeOK, target, disk, process, world
<1>1. ASSUME NEW u \in Units, Defer(u) PROVE EngineIInv'
    BY <1>1 DEF Defer, InBundle
<1>2. CASE DeferDone
    BY <1>2 DEF DeferDone
<1> QED BY <1>1, <1>2

LEMMA ListIInv ==
    ASSUME EngineIInv, StoreDone', List
    PROVE  EngineIInv'
<1> USE DEF EngineIInv, StoreDone, StoreIInv, TypeOK, target, disk, process, world
<1>1. existing' \in [Names -> TargetIds \cup {Blank}]
    BY DEF List, Listings, NothingListed
<1>2. retryKeys' \subseteq Keys
    BY DEF List, RetryKeys
<1> QED BY <1>1, <1>2 DEF List, InBundle

LEMMA ProcessUnitIInv ==
    ASSUME EngineIInv, StoreDone', NEW u \in Units, ProcessUnit(u)
    PROVE  EngineIInv'
<1> USE DEF EngineIInv, StoreDone, StoreIInv, TypeOK, disk, process, world, UnitFrame, InBundle
<1>1. Taken(u)
    BY ProcessUnitTakes
<1>2. CASE UNCHANGED <<objects, pc, current>>
    BY <1>1, <1>2 DEF Taken
<1>3. CASE ConcludedSafely(u)
    BY <1>1, <1>3 DEF Taken, ConcludedSafely, Grows
<1> QED BY <1>1, <1>2, <1>3 DEF Taken

LEMMA WriteCheckpointTyped ==
    ASSUME checkpoint \in [Names -> Outcome \cup {NoRow}],
           NEW batch \in [Names -> Outcome \cup {NoRow}], WriteCheckpoint(batch)
    PROVE  /\ checkpoint' \in [Names -> Outcome \cup {NoRow}]
           /\ cpPending' \in [Names -> Outcome \cup {NoRow}]
           /\ garbled' = garbled
<1>1. Overlay(checkpoint, batch) \in [Names -> Outcome \cup {NoRow}]
    BY DEF Overlay
<1>2. NoOutcomes \in [Names -> Outcome \cup {NoRow}]
    BY DEF NoOutcomes
<1> QED BY <1>1, <1>2 DEF WriteCheckpoint

(* The entry _record() hands to the checkpoint. *)
LEMMA EntryIsAnOutcome ==
    ASSUME EngineIInv, current \in Conclusion
    PROVE  /\ [unit |-> current.unit, status |-> current.status,
               target |-> current.target, fp |-> Fp(current.unit)] \in Outcome
           /\ Name(current.unit) \in Names
<1>1. /\ current.unit \in Units /\ current.status \in LastActions
      /\ current.target \in TargetIds \cup {Blank}
    BY DEF Conclusion
<1>2. Fp(current.unit) \in Fingerprints \cup {Blank}
    BY <1>1 DEF EngineIInv, TypeOK, Fp
<1> QED BY <1>1, <1>2 DEF Outcome, Names

LEMMA RecordIInvEngine ==
    ASSUME EngineIInv, StoreDone'
    PROVE  /\ RecordState => EngineIInv'
           /\ RecordCheckpoint => EngineIInv'
           /\ FlushCheckpoint => EngineIInv'
<1> USE DEF EngineIInv, StoreDone, StoreIInv, TypeOK, target, process, world, InBundle
<1>1. CASE RecordState
    BY <1>1 DEF RecordState, disk
<1>2. CASE RecordCheckpoint
    <2>1. PICK entry \in Outcome, n \in Names :
              \/ WriteCheckpoint([cpPending EXCEPT ![n] = entry])
              \/ cpPending' = [cpPending EXCEPT ![n] = entry] /\ UNCHANGED disk
        BY <1>2, EntryIsAnOutcome DEF RecordCheckpoint
    <2>2. [cpPending EXCEPT ![n] = entry] \in [Names -> Outcome \cup {NoRow}]
        OBVIOUS
    <2>3. /\ checkpoint' \in [Names -> Outcome \cup {NoRow}]
          /\ cpPending' \in [Names -> Outcome \cup {NoRow}]
          /\ garbled' = garbled
        BY <2>1, <2>2, WriteCheckpointTyped DEF disk
    <2> QED BY <1>2, <2>3 DEF RecordCheckpoint
<1>3. CASE FlushCheckpoint
    <2>1. /\ checkpoint' \in [Names -> Outcome \cup {NoRow}]
          /\ cpPending' \in [Names -> Outcome \cup {NoRow}]
          /\ garbled' = garbled
        BY <1>3, WriteCheckpointTyped DEF FlushCheckpoint, disk
    <2> QED BY <1>3, <2>1 DEF FlushCheckpoint, PhaseOver
<1> QED BY <1>1, <1>2, <1>3

LEMMA EndOfRunIInv ==
    ASSUME EngineIInv, StoreDone'
    PROVE  /\ FlushPhase => EngineIInv'
           /\ \A u \in Units : MarkMissing(u) => EngineIInv'
           /\ MissingDone => EngineIInv'
           /\ FinalFlush => EngineIInv'
           /\ Exit => EngineIInv'
<1> USE DEF EngineIInv, StoreDone, StoreIInv, TypeOK, target, disk, world
<1>1. CASE FlushPhase
    BY <1>1 DEF FlushPhase, process
<1>2. ASSUME NEW u \in Units, MarkMissing(u) PROVE EngineIInv'
    BY <1>2 DEF MarkMissing, process
<1>3. CASE MissingDone
    BY <1>3 DEF MissingDone, process
<1>4. CASE FinalFlush
    BY <1>4 DEF FinalFlush
<1>5. CASE Exit
    BY <1>5 DEF Exit, ForgetProcess, NothingListed, NoOutcomes, NoOutcome, CutShort
<1> QED BY <1>1, <1>2, <1>3, <1>4, <1>5

LEMMA EnvironmentIInv ==
    ASSUME EngineIInv, StoreDone'
    PROVE  /\ \A u \in Units : HostAppears(u) => EngineIInv'
           /\ Crash => EngineIInv'
           /\ Interrupt => EngineIInv'
           /\ NewBundle => EngineIInv'
           /\ TimePasses => EngineIInv'
<1> USE DEF EngineIInv, StoreDone, StoreIInv, TypeOK, target
<1>1. ASSUME NEW u \in Units, HostAppears(u) PROVE EngineIInv'
    BY <1>1 DEF HostAppears, NoObject, disk, process
<1>2. CASE Crash
    BY <1>2 DEF Crash, ForgetProcess, NothingListed, NoOutcomes, NoOutcome, CutShort
<1>3. CASE Interrupt
    BY <1>3 DEF Interrupt, InPhase, InBundle, NoOutcome, disk
<1>4. CASE NewBundle
    BY <1>4 DEF NewBundle, NoOutcomes, process
<1>5. CASE TimePasses
    BY <1>5 DEF TimePasses, InBundle, disk, process, world
<1> QED BY <1>1, <1>2, <1>3, <1>4, <1>5

(* People only add objects and edit them: ids are not given out twice. *)
LEMMA HandEditGrows ==
    ASSUME objects \in [TargetIds -> Object \cup {NoRow}], HandEdit
    PROVE  Grows(objects, objects')
<1>1. ASSUME NEW id \in TargetIds, Live(id), objects' = [objects EXCEPT ![id].live = FALSE]
      PROVE  Grows(objects, objects')
    <2> DEFINE removed == [objects[id] EXCEPT !.live = FALSE]
    <2>1. objects[id] \in Object
        BY <1>1 DEF Live
    <2>2. removed \in Object /\ removed.unit = objects[id].unit
        BY <2>1 DEF Object
    <2>3. objects' = [objects EXCEPT ![id] = removed]
        BY <1>1
    <2> QED BY <2>2, <2>3, NothingAssumption DEF Grows
<1>2. ASSUME NEW u \in Units, NEW id \in TargetIds, FreshId(id),
             objects' = [objects EXCEPT ![id] = HandMade(u)]
      PROVE  Grows(objects, objects')
    <2>1. HandMade(u) \in Object
        BY DEF HandMade, Object
    <2> QED BY <1>2, <2>1, MakeGrows DEF FreshId
<1> QED BY <1>1, <1>2 DEF HandEdit

LEMMA HandEditIInv ==
    ASSUME EngineIInv, StoreDone', HandEdit
    PROVE  EngineIInv'
<1>1. Grows(objects, objects')
    BY HandEditGrows DEF EngineIInv, TypeOK
<1> QED BY <1>1 DEF EngineIInv, StoreDone, StoreIInv, TypeOK, HandEdit, Grows, InBundle,
                    disk, process

LEMMA NextIInv == EngineIInv /\ [Next]_vars => EngineIInv'
<1> SUFFICES ASSUME EngineIInv, [Next]_vars PROVE EngineIInv'
    OBVIOUS
<1>1. StoreStep
    BY NextOnStore
<1>2. StoreDone'
    BY <1>1, StoreStepIsAStep, StoreStepEffect DEF StoreDone
<1>3. CASE RunStep
    BY <1>2, <1>3, ReplayIInv, DeferIInv, ListIInv, ProcessUnitIInv, RecordIInvEngine,
       EndOfRunIInv DEF RunStep
<1>4. CASE Environment
    BY <1>2, <1>4, ReplayIInv, EnvironmentIInv, HandEditIInv DEF Environment
<1>5. CASE UNCHANGED vars
    BY <1>2, <1>5 DEF vars, target, disk, process, world, EngineIInv, StoreDone, StoreIInv,
                      TypeOK, InBundle
<1> QED BY <1>3, <1>4, <1>5 DEF Next

LEMMA InitIInv == Init => EngineIInv
<1> SUFFICES ASSUME Init PROVE EngineIInv
    OBVIOUS
<1>1. StoreIInv /\ ~up /\ StoreTypeOK
    BY StoreInitIInv DEF Init, StoreInit, StoreIInv
<1>2. objects \in [TargetIds -> Object \cup {NoRow}]
    <2>1. ASSUME NEW id \in TargetIds, id \in DOMAIN PreExisting
          PROVE  HandMade(PreExisting[id]) \in Object
        <3>1. PreExisting[id] \in Units
            BY <2>1, UnitsAssumption
        <3> QED BY <3>1 DEF HandMade, Object
    <2> QED BY <2>1 DEF Init
<1>3. bundleId \in RunIds
    BY DEF Init, StoreInit
<1>4. /\ NoOutcomes \in [Names -> Outcome \cup {NoRow}]
      /\ NothingListed \in [Names -> TargetIds \cup {Blank}]
    BY DEF NoOutcomes, NothingListed
<1> QED BY <1>1, <1>2, <1>3, <1>4 DEF Init, EngineIInv, TypeOK, LiveRowsAreStored, NoOutcome

(* The invariant holds in every state of an import. *)
THEOREM EngineInvariant == Spec => []EngineIInv
<1> QED BY InitIInv, NextIInv, PTL DEF Spec

(* --- the theorems ---------------------------------------------------------------- *)

(* Every variable keeps its type: no id, status or fingerprint reaches a row, a
   checkpoint entry or an object that could not stand there.                   *)
THEOREM EngineIsTyped == Spec => []TypeOK
<1>1. EngineIInv => TypeOK
    BY DEF EngineIInv
<1> QED BY <1>1, EngineInvariant, PTL

(* An import, with its crashes, cancellations and replays, drives the state table
   through the store's own operations only, with arguments they are meant for.  *)
THEOREM EngineIsAStore == Spec => StoreSpec
<1>1. Init => StoreInit
    BY DEF Init
<1>2. EngineIInv /\ [Next]_vars => [StoreNext]_storeVars
    BY NextOnStore, StoreStepIsAStep
<1> QED BY <1>1, <1>2, EngineInvariant, PTL DEF Spec, StoreSpec

(* Hence, during an import as well, the rows waiting for a MERGE are exactly what
   separates the table from the view.                                          *)
THEOREM EnginePendingIsTheGap == Spec => []PendingCoversTheGap
<1> QED BY EngineIsAStore, PendingIsTheGap, PTL

(* And the state table is a write-back map all along. *)
THEOREM EngineKeepsStateMap == Spec => StateMapSpec
<1> QED BY EngineIsAStore, StateMapRefined, PTL

(* A rehearsal calls nothing on the target and writes no live row, whatever fails
   and whatever it replays: its queue holds rows of the `_dryrun` table only.   *)
THEOREM RehearsalIsHarmless == Spec => RehearsalTouchesNothingLive
<1>1. ASSUME EngineIInv, [Next]_vars, run.mode = "dry", RunStep
      PROVE  /\ objects' = objects
             /\ \A u \in Units : table'[<<"live", u>>] = table[<<"live", u>>]
    <2>1. objects' = objects
        <3>1. ASSUME NEW u \in Units, ProcessUnit(u) PROVE objects' = objects
            BY <1>1, <3>1, ProcessUnitTakes DEF Taken, ConcludedSafely
        <3>2. CASE ~\E u \in Units : ProcessUnit(u)
            BY <1>1, <3>2 DEF RunStep, Replay, ReplayDone, Defer, MarkMissing, DeferDone,
               List, RecordState, RecordCheckpoint, FlushCheckpoint, FlushPhase,
               MissingDone, FinalFlush, Exit, target
        <3> QED BY <3>1, <3>2
    <2>2. \A u \in Units : table'[<<"live", u>>] = table[<<"live", u>>]
        BY <1>1, RunStepOnStore, StoreStepEffect
    <2> QED BY <2>1, <2>2
<1> QED BY <1>1, EngineInvariant, PTL DEF Spec, RehearsalTouchesNothingLive

(* --- whose object a row names ------------------------------------------------------ *)

(* No two units of the family share a natural key: the run `shared_name` shows what
   happens when two do.                                                        *)
NamesAreUnique == \A u, v \in Units : Name(u) = Name(v) => u = v

OutcomesOwn(outcomes) ==
    \A n \in Names : outcomes[n] # NoRow =>
        /\ Name(outcomes[n].unit) = n
        /\ Owned(objects, outcomes[n].unit, outcomes[n].target)

CurrentOwns ==
    current # NoOutcome => Owned(objects, current.unit, current.target)

ListingOwns == \A u \in Units : Owned(objects, u, existing[Name(u)])

(* An id travels from the listing or a row into the outcome, from there into the row
   and the checkpoint, and from the checkpoint back into a row: each place must own
   what it names for the rows to do so.                                        *)
OwnIInv ==
    /\ EngineIInv
    /\ RowsNameOwnObjects
    /\ OutcomesOwn(checkpoint)
    /\ OutcomesOwn(cpPending)
    /\ CurrentOwns
    /\ ListingOwns

(* A step that lists nothing and concludes nothing keeps or forgets what it knew. *)
Forgets ==
    /\ existing' \in {existing, NothingListed}
    /\ current' \in {current, NoOutcome}
    /\ checkpoint' \in {checkpoint, NoOutcomes}
    /\ cpPending' \in {cpPending, NoOutcomes}

LEMMA NextKinds ==
    ASSUME EngineIInv, [Next]_vars
    PROVE  /\ Grows(objects, objects')
           /\ \/ Forgets
              \/ \E u \in Units : Taken(u) /\ ConcludedSafely(u)
              \/ List \/ RecordCheckpoint \/ FlushCheckpoint
<1>1. Grows(objects, objects)
    BY SameGrows DEF EngineIInv, TypeOK
<1> USE DEF target, disk, process
<1>2. CASE \E u \in Units : ProcessUnit(u)
    <2>1. PICK u \in Units : Taken(u)
        BY <1>2, ProcessUnitTakes
    <2>2. CASE UNCHANGED <<objects, pc, current>>
        BY <1>1, <2>1, <2>2 DEF Taken, UnitFrame, Forgets
    <2>3. CASE ConcludedSafely(u)
        BY <2>1, <2>3 DEF ConcludedSafely
    <2> QED BY <2>1, <2>2, <2>3 DEF Taken
<1>3. CASE RunStep /\ ~\E u \in Units : ProcessUnit(u)
    BY <1>1, <1>3 DEF RunStep, Forgets, Replay, ReplayDone, Defer, MarkMissing, DeferDone,
       List, RecordState, RecordCheckpoint, FlushCheckpoint, FlushPhase, MissingDone,
       FinalFlush, Exit, ForgetProcess
<1>4. CASE Environment
    <2>1. CASE HandEdit
        <3>1. Grows(objects, objects')
            BY <2>1, HandEditGrows DEF EngineIInv, TypeOK
        <3> QED BY <2>1, <3>1 DEF HandEdit, Forgets
    <2>2. CASE ~HandEdit
        BY <1>1, <1>4, <2>2 DEF Environment, Forgets, StartRun, HostAppears, Crash,
           ForgetProcess, Interrupt, NewBundle, TimePasses
    <2> QED BY <2>1, <2>2
<1>5. CASE UNCHANGED vars
    BY <1>1, <1>5 DEF vars, Forgets
<1> QED BY <1>2, <1>3, <1>4, <1>5 DEF Next

(* What an object was made for does not change. *)
LEMMA OwnedStays ==
    ASSUME Grows(objects, objects'), NEW u, NEW id, Owned(objects, u, id)
    PROVE  Owned(objects', u, id)
BY DEF Grows, Owned

LEMMA ForgettingKeepsOwn ==
    ASSUME OwnIInv, Grows(objects, objects')
    PROVE  /\ current' \in {current, NoOutcome} => CurrentOwns'
           /\ existing' \in {existing, NothingListed} => ListingOwns'
           /\ checkpoint' \in {checkpoint, NoOutcomes} => OutcomesOwn(checkpoint)'
           /\ cpPending' \in {cpPending, NoOutcomes} => OutcomesOwn(cpPending)'
<1>1. current' \in {current, NoOutcome} => CurrentOwns'
    BY OwnedStays DEF OwnIInv, CurrentOwns
<1>2. existing' \in {existing, NothingListed} => ListingOwns'
    BY OwnedStays DEF OwnIInv, ListingOwns, NothingListed, Owned, Names
<1>3. checkpoint' \in {checkpoint, NoOutcomes} => OutcomesOwn(checkpoint)'
    BY OwnedStays DEF OwnIInv, OutcomesOwn, NoOutcomes
<1>4. cpPending' \in {cpPending, NoOutcomes} => OutcomesOwn(cpPending)'
    BY OwnedStays DEF OwnIInv, OutcomesOwn, NoOutcomes
<1> QED BY <1>1, <1>2, <1>3, <1>4

(* A listing maps a name to an object of that name, hence of its only unit. *)
LEMMA ListingIsOwn ==
    ASSUME NamesAreUnique, NEW f \in Listings, NEW u \in Units
    PROVE  Owned(objects, u, f[Name(u)])
<1>1. Name(u) \in Names /\ Named(Name(u)) = {u}
    BY DEF NamesAreUnique, Named, Names
<1>2. f[Name(u)] # Blank => f[Name(u)] \in LiveIds({u})
    BY <1>1 DEF Listings
<1> QED BY <1>2 DEF LiveIds, Live, Owned

(* The ids a unit may be concluded with are its own. *)
LEMMA KnownIsOwn ==
    ASSUME OwnIInv, NamesAreUnique, Grows(objects, objects'),
           NEW u \in Units, NEW id, KnownId(u, id)
    PROVE  Owned(objects', u, id)
<1>1. Name(u) \in Names /\ StateKey(u) \in Keys /\ StateKey(u)[2] = u
    BY KeysOfUnits DEF OwnIInv, EngineIInv, TypeOK, StateKey
<1>2. CASE id = Blank \/ Owned(objects', u, id)
    BY <1>2 DEF Owned
<1>3. CASE id = existing[Name(u)]
    BY <1>3, OwnedStays DEF OwnIInv, ListingOwns
<1>4. CASE id = TargetOf(cache[StateKey(u)])
    <2>1. id # Blank => id = cache[StateKey(u)].target
        BY <1>4 DEF TargetOf
    <2>2. cache[StateKey(u)] # NoRow \/ id = Blank
        BY <1>4 DEF TargetOf
    <2>3. cache[StateKey(u)] \in Row \cup {NoRow}
        BY <1>1 DEF OwnIInv, EngineIInv, TypeOK, StoreTypeOK
    <2>4. id \in TargetIds \cup {Blank}
        BY <2>1, <2>2, <2>3 DEF Row
    <2>5. Owned(objects, u, id)
        BY <1>1, <1>4, <2>1, <2>4 DEF OwnIInv, RowsNameOwnObjects, Owned
    <2> QED BY <2>5, OwnedStays
<1>5. CASE checkpoint[Name(u)] # NoRow /\ id = checkpoint[Name(u)].target
    <2>1. checkpoint[Name(u)] \in Outcome
        BY <1>1, <1>5 DEF OwnIInv, EngineIInv, TypeOK
    <2>2. checkpoint[Name(u)].unit \in Units
        BY <2>1 DEF Outcome
    <2>3. checkpoint[Name(u)].unit = u /\ Owned(objects, u, id)
        BY <1>1, <1>5, <2>2 DEF OwnIInv, OutcomesOwn, NamesAreUnique
    <2> QED BY <2>3, OwnedStays
<1> QED BY <1>2, <1>3, <1>4, <1>5 DEF KnownId

(* The rows: an id that a step records is blank, concluded or checkpointed; a MERGE
   stores rows of the view.                                                    *)
LEMMA RowsStayOwn ==
    ASSUME OwnIInv, NamesAreUnique, Grows(objects, objects'), StoreStep
    PROVE  RowsNameOwnObjects'
<1> DEFINE Own(k, row) == TargetOf(row) # Blank =>
               objects'[row.target] # NoRow /\ objects'[row.target].unit = k[2]
<1>1. /\ cache \in [Keys -> Row \cup {NoRow}]
      /\ table \in [Keys -> Row \cup {NoRow}]
    BY DEF OwnIInv, EngineIInv, TypeOK, StoreTypeOK
<1>2. \A row \in Row \cup {NoRow} : TargetOf(row) # Blank => row.target \in TargetIds
    BY DEF TargetOf, Row
<1>3. \A k \in Keys : Own(k, cache[k]) /\ Own(k, table[k])
    BY <1>1, <1>2 DEF OwnIInv, RowsNameOwnObjects, Grows
<1>4. CASE RecordsSafely
    <2>1. PICK u \in Units, id \in TargetIds \cup {Blank},
               action \in LastActions, fp \in Fingerprints \cup {Blank} :
                   Record(StateKey(u), action, fp, id) /\ RecordedId(u, id)
        BY <1>4 DEF RecordsSafely, Records
    <2>2. StateKey(u) \in Keys /\ StateKey(u)[2] = u
        BY KeysOfUnits DEF OwnIInv, EngineIInv, TypeOK, StateKey
    <2>3. table' \in {table, cache'}
        BY <2>1, <2>2, RecordIInv DEF OwnIInv, EngineIInv
    <2>4. Owned(objects, u, id)
        <3>1. CASE id = Blank
            BY <3>1 DEF Owned
        <3>2. CASE current \in Conclusion /\ current.unit = u /\ id = current.target
            BY <3>2, NothingAssumption DEF OwnIInv, CurrentOwns, NoOutcome
        <3>3. CASE \E n \in Names : /\ checkpoint[n] \in Outcome
                                    /\ checkpoint[n].unit = u /\ id = checkpoint[n].target
            BY <3>3, NothingAssumption DEF OwnIInv, OutcomesOwn
        <3> QED BY <2>1, <3>1, <3>2, <3>3 DEF RecordedId
    <2>5. Owned(objects', u, id)
        BY <2>4, OwnedStays
    <2> DEFINE prior == cache[StateKey(u)]
    <2> DEFINE row == CarryForward(prior, action, fp, id, runId)
    <2>6. cache' = [cache EXCEPT ![StateKey(u)] = row]
        BY <2>1 DEF Record
    <2>7. row \in Row /\ row.target \in {id, TargetOf(prior)}
        <3>1. prior \in Rows /\ runId \in RunIds
            BY <1>1, <2>2 DEF Rows, OwnIInv, EngineIInv, TypeOK, StoreTypeOK
        <3>2. row \in Row
            BY <3>1, CarryForwardKeeps
        <3> QED BY <3>2 DEF CarryForward, OrElse
    <2>8. Own(StateKey(u), row)
        <3>1. row # NoRow /\ TargetOf(row) = row.target
            BY <2>7, NoRowIsNoRow DEF TargetOf
        <3>2. CASE row.target = id
            BY <2>2, <2>5, <3>1, <3>2 DEF Owned
        <3>3. CASE row.target = TargetOf(prior) /\ row.target # Blank
            <4>1. TargetOf(prior) = prior.target
                BY <3>3 DEF TargetOf
            <4> QED BY <1>3, <2>2, <3>1, <3>3, <4>1
        <3> QED BY <2>7, <3>1, <3>2, <3>3
    <2> HIDE DEF row, prior
    <2>9. \A k \in Keys : Own(k, cache'[k])
        BY <1>1, <1>3, <2>2, <2>6, <2>8
    <2> QED BY <1>3, <2>3, <2>9 DEF RowsNameOwnObjects
<1>5. CASE Flush
    <2>1. table' \in {table, cache} /\ cache' = cache
        BY <1>5, FlushIInv DEF Flush, OwnIInv, EngineIInv
    <2> QED BY <1>3, <2>1 DEF RowsNameOwnObjects
<1>6. CASE FlushSecondsPass \/ UNCHANGED storeVars \/ Open(bundleId)
    <2>1. table' = table /\ cache' \in {cache, table}
        BY <1>6 DEF FlushSecondsPass, storeVars, Open
    <2> QED BY <1>3, <2>1 DEF RowsNameOwnObjects
<1>7. CASE Stop
    <2>1. table' = table /\ cache' = NoRows
        BY <1>7 DEF Stop
    <2>2. \A k \in Keys : TargetOf(cache'[k]) = Blank
        BY <2>1 DEF NoRows, TargetOf
    <2> QED BY <1>3, <2>1, <2>2 DEF RowsNameOwnObjects
<1> QED BY <1>4, <1>5, <1>6, <1>7 DEF StoreStep

(* Rewriting the checkpoint stores entries of the old file and of the batch. *)
LEMMA WritingKeepsOwn ==
    ASSUME OwnIInv, Grows(objects, objects'),
           NEW batch, OutcomesOwn(batch), WriteCheckpoint(batch)
    PROVE  OutcomesOwn(checkpoint)' /\ OutcomesOwn(cpPending)'
<1>1. OutcomesOwn(Overlay(checkpoint, batch))
    BY DEF OwnIInv, OutcomesOwn, Overlay
<1>2. checkpoint' \in {checkpoint, Overlay(checkpoint, batch)}
    BY DEF WriteCheckpoint
<1>3. OutcomesOwn(checkpoint)'
    <2>1. OutcomesOwn(checkpoint)
        BY DEF OwnIInv
    <2> QED BY <1>1, <1>2, <2>1, OwnedStays DEF OutcomesOwn
<1>4. OutcomesOwn(cpPending)'
    BY DEF WriteCheckpoint, OutcomesOwn, NoOutcomes
<1> QED BY <1>3, <1>4

LEMMA RecordCheckpointKeepsOwn ==
    ASSUME OwnIInv, Grows(objects, objects'), RecordCheckpoint
    PROVE  /\ OutcomesOwn(checkpoint)' /\ OutcomesOwn(cpPending)'
           /\ CurrentOwns' /\ ListingOwns'
<1> DEFINE u == current.unit
<1> DEFINE entry == [unit |-> u, status |-> current.status,
                     target |-> current.target, fp |-> Fp(u)]
<1> DEFINE batch == [cpPending EXCEPT ![Name(u)] = entry]
<1>1. current \in Conclusion
    BY DEF OwnIInv, EngineIInv, RecordCheckpoint
<1>2. Owned(objects, entry.unit, entry.target)
    BY <1>1, NothingAssumption DEF OwnIInv, CurrentOwns, NoOutcome
<1>3. OutcomesOwn(batch)
    <2>1. cpPending \in [Names -> Outcome \cup {NoRow}]
        BY DEF OwnIInv, EngineIInv, TypeOK
    <2>2. Name(entry.unit) = Name(u)
        OBVIOUS
    <2> HIDE DEF entry, u
    <2> QED BY <1>2, <2>1, <2>2 DEF OwnIInv, OutcomesOwn
<1>4. /\ WriteCheckpoint(batch) \/ (cpPending' = batch /\ UNCHANGED disk)
      /\ existing' = existing /\ current' = NoOutcome
    BY DEF RecordCheckpoint, process
<1> HIDE DEF batch
<1>5. CurrentOwns' /\ ListingOwns'
    BY <1>4, ForgettingKeepsOwn
<1>6. CASE WriteCheckpoint(batch)
    BY <1>3, <1>5, <1>6, WritingKeepsOwn
<1>7. CASE cpPending' = batch /\ UNCHANGED disk
    <2>1. OutcomesOwn(cpPending)'
        BY <1>3, <1>7, OwnedStays DEF OutcomesOwn
    <2> QED BY <1>5, <1>7, <2>1, ForgettingKeepsOwn DEF disk
<1> QED BY <1>4, <1>6, <1>7

LEMMA ListKeepsOwn ==
    ASSUME OwnIInv, NamesAreUnique, Grows(objects, objects'), List
    PROVE  /\ OutcomesOwn(checkpoint)' /\ OutcomesOwn(cpPending)'
           /\ CurrentOwns' /\ ListingOwns'
<1>1. UNCHANGED <<checkpoint, cpPending, current>>
    BY DEF List, disk
<1>2. OutcomesOwn(checkpoint)' /\ OutcomesOwn(cpPending)' /\ CurrentOwns'
    BY <1>1, ForgettingKeepsOwn
<1>3. CASE existing' = NothingListed
    BY <1>2, <1>3, ForgettingKeepsOwn
<1>4. CASE existing' \in Listings
    <2>1. \A u \in Units : Owned(objects, u, existing'[Name(u)])
        BY <1>4, ListingIsOwn
    <2> QED BY <1>2, <2>1, OwnedStays DEF ListingOwns
<1> QED BY <1>3, <1>4 DEF List

LEMMA OwnNext ==
    ASSUME NamesAreUnique, OwnIInv, [Next]_vars
    PROVE  OwnIInv'
<1>1. EngineIInv' /\ StoreStep /\ Grows(objects, objects')
    BY NextIInv, NextOnStore, NextKinds DEF OwnIInv
<1>2. RowsNameOwnObjects'
    BY <1>1, RowsStayOwn
<1>3. CASE Forgets
    BY <1>1, <1>2, <1>3, ForgettingKeepsOwn DEF Forgets, OwnIInv
<1>4. ASSUME NEW u \in Units, Taken(u), ConcludedSafely(u) PROVE OwnIInv'
    <2>1. CurrentOwns'
        <3>1. current'.unit = u /\ KnownId(u, current'.target)
            BY <1>4 DEF ConcludedSafely
        <3>2. Owned(objects', u, current'.target)
            BY <1>1, <3>1, KnownIsOwn
        <3> QED BY <3>1, <3>2 DEF CurrentOwns
    <2>2. UNCHANGED <<checkpoint, cpPending, existing>>
        BY <1>4 DEF Taken, UnitFrame, disk, process
    <2> QED BY <1>1, <1>2, <2>1, <2>2, ForgettingKeepsOwn DEF OwnIInv
<1>5. CASE List
    BY <1>1, <1>2, <1>5, ListKeepsOwn DEF OwnIInv
<1>6. CASE RecordCheckpoint
    BY <1>1, <1>2, <1>6, RecordCheckpointKeepsOwn DEF OwnIInv
<1>7. CASE FlushCheckpoint
    <2>1. UNCHANGED <<current, existing>>
        BY <1>7 DEF FlushCheckpoint, process
    <2>2. OutcomesOwn(checkpoint)' /\ OutcomesOwn(cpPending)'
        <3>1. CASE WriteCheckpoint(cpPending)
            BY <1>1, <3>1, WritingKeepsOwn DEF OwnIInv
        <3>2. CASE UNCHANGED <<cpPending, disk>>
            BY <1>1, <3>2, ForgettingKeepsOwn DEF disk
        <3> QED BY <1>7, <3>1, <3>2 DEF FlushCheckpoint
    <2> QED BY <1>1, <1>2, <2>1, <2>2, ForgettingKeepsOwn DEF OwnIInv
<1> QED BY <1>3, <1>4, <1>5, <1>6, <1>7, NextKinds DEF OwnIInv

LEMMA OwnInit ==
    ASSUME Init
    PROVE  OwnIInv
<1>1. RowsNameOwnObjects
    BY DEF Init, StoreInit, RowsNameOwnObjects, NoRows, TargetOf
<1>2. OutcomesOwn(checkpoint) /\ OutcomesOwn(cpPending)
    BY DEF Init, OutcomesOwn, NoOutcomes
<1>3. CurrentOwns
    BY DEF Init, CurrentOwns
<1>4. ListingOwns
    BY DEF Init, ListingOwns, Owned, NothingListed, Names
<1> QED BY <1>1, <1>2, <1>3, <1>4, InitIInv DEF OwnIInv

(* When no two units of a family share a natural key, no row, pending or durable, ever
   names an object made for another unit, however many crashes, replays, lost
   answers and hand edits there were: an update reaches the object it is meant for. *)
THEOREM RowsAreOwn ==
    ASSUME NamesAreUnique
    PROVE  Spec => []RowsNameOwnObjects
<1>1. Init => OwnIInv
    BY OwnInit
<1>2. OwnIInv /\ [Next]_vars => OwnIInv'
    BY OwnNext
<1>3. OwnIInv => RowsNameOwnObjects
    BY DEF OwnIInv
<1> QED BY <1>1, <1>2, <1>3, PTL DEF Spec
================================================================================
