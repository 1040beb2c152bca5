--------------------------- MODULE ImportWorkProofs ----------------------------
(* Proofs about what an import leaves behind, for every value of ImportEngine's
   constants: one object per unit, and a row that says what became of each unit.  *)
EXTENDS ImportEngineProofs, FiniteSetTheorems

(* --- one object per unit ---------------------------------------------------- *)

(* Where listings may fail, the platform itself refuses a second object. *)
ListedOrRefused == ~ListingMayFail \/ Units \subseteq UniqueUnits

ToolMade(objs, id, u) ==
    /\ objs[id] # NoRow /\ objs[id].live
    /\ objs[id].unit = u /\ objs[id].maker = "tool"

SoleObjects ==
    \A u \in Units, a, b \in TargetIds :
        ToolMade(objects, a, u) /\ ToolMade(objects, b, u) => a = b

(* What the listing of the phase has not found is not there, as long as the unit has
   not been taken: only the tool makes objects of its own, one unit at a time.    *)
UnlistedIsAbsent ==
    pc \in InPhase =>
        \A u \in todo, id \in TargetIds :
            existing[Name(u)] = Blank /\ u \notin UniqueUnits
                => ~ToolMade(objects, id, u)

SoleIInv == EngineIInv /\ SoleObjects /\ UnlistedIsAbsent

(* No object becomes a tool-made one of its unit that was not one before. *)
MakesNone(old, new) ==
    \A u \in Units, id \in TargetIds : ToolMade(new, id, u) => ToolMade(old, id, u)

LEMMA EditMakesNone ==
    ASSUME objects \in [TargetIds -> Object \cup {NoRow}],
           NEW id \in TargetIds, Live(id), NEW fp
    PROVE  MakesNone(objects, Contents(id, fp))
<1>1. objects[id] \in Object
    BY DEF Live
<1>2. Contents(id, fp) = [objects EXCEPT ![id] = [objects[id] EXCEPT !.content = fp]]
    BY DEF Contents
<1> DEFINE edited == [objects[id] EXCEPT !.content = fp]
<1>3. /\ edited.live = objects[id].live /\ edited.unit = objects[id].unit
      /\ edited.maker = objects[id].maker
    BY <1>1 DEF Object
<1> HIDE DEF edited
<1>4. \A i \in TargetIds : Contents(id, fp)[i] = IF i = id THEN edited ELSE objects[i]
    BY <1>2 DEF edited
<1> QED BY <1>3, <1>4 DEF MakesNone, ToolMade, Live

LEMMA ApplyMakesNone ==
    ASSUME objects \in [TargetIds -> Object \cup {NoRow}],
           NEW u, NEW id \in TargetIds, NEW status, Apply(u, id, status)
    PROVE  MakesNone(objects, objects')
<1>1. MakesNone(objects, objects)
    BY DEF MakesNone
<1>2. Live(id) => MakesNone(objects, Contents(id, Fp(u)))
    BY EditMakesNone
<1>3. objects' = objects \/ (Live(id) /\ objects' = Contents(id, Fp(u)))
    BY DEF Apply, CallFails, target
<1> QED BY <1>1, <1>2, <1>3

LEMMA UpdateInPlaceMakesNone ==
    ASSUME objects \in [TargetIds -> Object \cup {NoRow}],
           NEW u, NEW id \in TargetIds \cup {Blank}, UpdateInPlace(u, id)
    PROVE  MakesNone(objects, objects')
<1>1. CASE id = Blank
    BY <1>1 DEF UpdateInPlace, target, MakesNone
<1>2. CASE id # Blank
    BY <1>2, ApplyMakesNone DEF UpdateInPlace
<1> QED BY <1>1, <1>2

(* The decision to create is taken of what is not listed. *)
LEMMA CreatedIsUnlisted ==
    ASSUME NEW u, Decision(u) = "CREATE"
    PROVE  existing[Name(u)] = Blank
BY DEF Decision, Decide, Exists

(* A unit is taken without making an object, or it is made at an unused id. *)
Makes(u) ==
    \E id \in TargetIds :
        /\ objects[id] = NoRow
        /\ objects' = NewObject(u, id)
        /\ existing[Name(u)] = Blank
        /\ u \in UniqueUnits => LiveIds({u}) = {}

LEMMA ProcessUnitMakes ==
    ASSUME EngineIInv, NEW u \in Units, ProcessUnit(u)
    PROVE  MakesNone(objects, objects') \/ Makes(u)
<1>1. /\ objects \in [TargetIds -> Object \cup {NoRow}]
      /\ existing[Name(u)] \in TargetIds \cup {Blank}
      /\ TargetOf(cache[StateKey(u)]) \in TargetIds \cup {Blank}
    <2>1. Name(u) \in Names /\ StateKey(u) \in Keys
        BY KeysOfUnits DEF EngineIInv, TypeOK
    <2>2. cache[StateKey(u)] \in Row \cup {NoRow}
        BY <2>1 DEF EngineIInv, TypeOK, StoreTypeOK
    <2> QED BY <2>1, <2>2 DEF EngineIInv, TypeOK, TargetOf, Row
<1>2. CASE objects' = objects
    BY <1>2 DEF MakesNone
<1>3. CASE OutOfScope(u) \/ NotAttempted(u) \/ Resume(u) \/ CheckpointUnreadable(u)
           \/ Unchanged(u) \/ CreateNoObject(u)
           \/ \E action \in {"CREATE", "UPDATE", "ADOPT"} : Rehearse(u, action)
    BY <1>2, <1>3 DEF OutOfScope, NotAttempted, Resume, CheckpointUnreadable, Unchanged,
       CreateNoObject, Rehearse, target
<1>4. CASE Update(u)
    <2>1. PICK id \in TargetIds \cup {Blank} : UpdateInPlace(u, id)
        BY <1>1, <1>4 DEF Update, OrElse
    <2> QED BY <1>1, <2>1, UpdateInPlaceMakesNone
<1>5. CASE Adopt(u)
    <2>1. Decision(u) = "ADOPT"
        BY <1>5 DEF Adopt, Decided
    <2>2. existing[Name(u)] \in TargetIds
        BY <1>1, <2>1, DecisionNeedsListing
    <2>3. (\E status : Apply(u, existing[Name(u)], status)) \/ UNCHANGED target
        BY <1>5 DEF Adopt
    <2> QED BY <1>1, <1>2, <2>2, <2>3, ApplyMakesNone DEF target
<1>6. CASE Create(u)
    <2>1. PICK id \in TargetIds :
             /\ FreshId(id)
             /\ objects' = NewObject(u, id) \/ CallFails(NewObject(u, id))
        BY <1>6 DEF Create
    <2>2. objects' \in {objects, NewObject(u, id)}
        BY <2>1 DEF CallFails
    <2>3. existing[Name(u)] = Blank
        BY <1>6, CreatedIsUnlisted DEF Create, Decided
    <2>4. u \in UniqueUnits => LiveIds({u}) = {}
        BY <1>6 DEF Create, Refused
    <2> QED BY <1>2, <2>1, <2>2, <2>3, <2>4 DEF Makes, FreshId
<1>7. CASE AlreadyExists(u)
    <2>1. (\E id \in TargetIds \cup {Blank} : UpdateInPlace(u, id)) \/ UNCHANGED target
        BY <1>1, <1>7 DEF AlreadyExists, OrElse
    <2> QED BY <1>1, <1>2, <2>1, UpdateInPlaceMakesNone DEF target
<1>8. CASE CreateDeclarative(u)
    <2>1. PICK id \in TargetIds : Apply(u, id, "created")
        BY <1>8 DEF CreateDeclarative, LiveIds
    <2> QED BY <1>1, <2>1, ApplyMakesNone
<1> QED BY <1>3, <1>4, <1>5, <1>6, <1>7, <1>8 DEF ProcessUnit

LEMMA HandEditMakesNone ==
    ASSUME EngineIInv, HandEdit
    PROVE  MakesNone(objects, objects')
<1>1. objects \in [TargetIds -> Object \cup {NoRow}]
    BY DEF EngineIInv, TypeOK
<1>2. ASSUME NEW id \in TargetIds, Live(id), objects' = [objects EXCEPT ![id].live = FALSE]
      PROVE  MakesNone(objects, objects')
    <2>1. objects[id] \in Object
        BY <1>1, <1>2 DEF Live
    <2>2. [objects[id] EXCEPT !.live = FALSE].live = FALSE
        BY <2>1 DEF Object
    <2>3. \A i \in TargetIds :
              objects'[i] = IF i = id THEN [objects[id] EXCEPT !.live = FALSE] ELSE objects[i]
        BY <1>1, <1>2
    <2> QED BY <2>2, <2>3 DEF MakesNone, ToolMade
<1>3. ASSUME NEW u \in Units, NEW id \in TargetIds, objects' = [objects EXCEPT ![id] = HandMade(u)]
      PROVE  MakesNone(objects, objects')
    <2>1. \A i \in TargetIds : objects'[i] = IF i = id THEN HandMade(u) ELSE objects[i]
        BY <1>1, <1>3
    <2>2. HandMade(u).maker = "hand"
        BY DEF HandMade
    <2> QED BY <2>1, <2>2 DEF MakesNone, ToolMade
<1> QED BY <1>2, <1>3 DEF HandEdit

(* The listing is complete for what the platform would let be made twice. *)
LEMMA ListIsComplete ==
    ASSUME ListedOrRefused, EngineIInv, List,
           NEW u \in Units, NEW id \in TargetIds,
           existing'[Name(u)] = Blank, u \notin UniqueUnits
    PROVE  ~ToolMade(objects, id, u)
<1>1. Name(u) \in Names /\ u \in Named(Name(u))
    BY DEF Names, Named
<1>2. existing' \in Listings
    BY DEF List, ListedOrRefused
<1>3. Blank \notin LiveIds(Named(Name(u)))
    BY BlankAssumption DEF LiveIds
<1>4. LiveIds(Named(Name(u))) = {}
    BY <1>1, <1>2, <1>3 DEF Listings
<1> QED BY <1>1, <1>4 DEF LiveIds, ToolMade, Live

(* A step that makes no object keeps the target's part of the invariant; the rest
   depends on what the phase has still to take.                                *)
LEMMA NoneMadeKeepsSole ==
    ASSUME SoleIInv, MakesNone(objects, objects')
    PROVE  /\ SoleObjects'
           /\ UNCHANGED existing /\ todo' \subseteq todo /\ todo \subseteq Units
              /\ (pc' \in InPhase => pc \in InPhase) => UnlistedIsAbsent'
<1>1. SoleObjects'
    BY DEF SoleIInv, SoleObjects, MakesNone
<1>2. ASSUME UNCHANGED existing, todo' \subseteq todo, todo \subseteq Units,
             pc' \in InPhase => pc \in InPhase
      PROVE  UnlistedIsAbsent'
    BY <1>2 DEF SoleIInv, UnlistedIsAbsent, MakesNone
<1> QED BY <1>1, <1>2

LEMMA MadeKeepsSole ==
    ASSUME SoleIInv, NEW u \in Units, u \in todo, pc = "units", Makes(u),
           todo' = todo \ {u}, UNCHANGED existing, todo \subseteq Units
    PROVE  SoleObjects' /\ UnlistedIsAbsent'
<1>1. PICK id \in TargetIds :
          /\ objects[id] = NoRow /\ objects' = NewObject(u, id)
          /\ existing[Name(u)] = Blank
          /\ u \in UniqueUnits => LiveIds({u}) = {}
    BY DEF Makes
<1>2. objects \in [TargetIds -> Object \cup {NoRow}]
    BY DEF SoleIInv, EngineIInv, TypeOK
<1> DEFINE made == [unit |-> u, content |-> Fp(u), maker |-> "tool", live |-> TRUE]
<1>3. \A i \in TargetIds : objects'[i] = IF i = id THEN made ELSE objects[i]
    BY <1>1, <1>2 DEF NewObject
<1>4. made.unit = u
    OBVIOUS
<1> HIDE DEF made
<1>5. \A i \in TargetIds, v \in Units :
          ToolMade(objects', i, v) => (i = id /\ v = u) \/ ToolMade(objects, i, v)
    BY <1>3, <1>4 DEF ToolMade
<1>6. \A i \in TargetIds : ~ToolMade(objects, i, u)
    <2>1. CASE u \in UniqueUnits
        BY <1>1, <2>1 DEF LiveIds, Live, ToolMade
    <2>2. CASE u \notin UniqueUnits
        BY <1>1, <2>2 DEF SoleIInv, UnlistedIsAbsent, InPhase
    <2> QED BY <2>1, <2>2
<1>7. SoleObjects'
    BY <1>5, <1>6 DEF SoleIInv, SoleObjects
<1>8. UnlistedIsAbsent'
    BY <1>5 DEF SoleIInv, UnlistedIsAbsent, InPhase
<1> QED BY <1>7, <1>8

LEMMA SoleNext ==
    ASSUME ListedOrRefused, SoleIInv, [Next]_vars
    PROVE  SoleIInv'
<1>1. EngineIInv'
    BY NextIInv DEF SoleIInv
<1>2. MakesNone(objects, objects)
    BY DEF MakesNone
<1>3. pc \in InPhase => todo \subseteq Units
    BY DEF InPhase, SoleIInv, EngineIInv, InBundle
<1>4. CASE UNCHANGED objects /\ pc' \notin InPhase
    BY <1>1, <1>2, <1>4, NoneMadeKeepsSole DEF SoleIInv, UnlistedIsAbsent
<1>5. CASE /\ UNCHANGED <<objects, existing>> /\ pc \in InPhase /\ todo' \subseteq todo
    BY <1>1, <1>2, <1>3, <1>5, NoneMadeKeepsSole DEF SoleIInv
<1>6. ASSUME NEW u \in Units, ProcessUnit(u) PROVE SoleIInv'
    <2>1. /\ pc = "units" /\ u \in todo /\ todo' = todo \ {u}
          /\ UNCHANGED existing
        BY <1>6, ProcessUnitTakes DEF SoleIInv, Taken, UnitFrame, process
    <2>2. MakesNone(objects, objects') \/ Makes(u)
        BY <1>6, ProcessUnitMakes DEF SoleIInv
    <2> QED BY <1>1, <1>3, <2>1, <2>2, NoneMadeKeepsSole, MadeKeepsSole DEF SoleIInv, InPhase
<1>7. CASE List
    <2>1. UNCHANGED <<objects, todo>> /\ todo \subseteq Units
        BY <1>7 DEF List, target, SoleIInv, EngineIInv, InBundle
    <2>2. UnlistedIsAbsent'
        BY <1>7, <2>1, ListIsComplete DEF SoleIInv, UnlistedIsAbsent
    <2> QED BY <1>1, <1>2, <2>1, <2>2, NoneMadeKeepsSole DEF SoleIInv
<1>8. CASE HandEdit
    <2>1. MakesNone(objects, objects')
        BY <1>8, HandEditMakesNone DEF SoleIInv
    <2>2. UNCHANGED <<existing, todo, pc>>
        BY <1>8 DEF HandEdit, process
    <2>3. SoleObjects'
        BY <2>1, NoneMadeKeepsSole
    <2>4. UnlistedIsAbsent'
        BY <1>3, <2>1, <2>2, NoneMadeKeepsSole DEF UnlistedIsAbsent
    <2> QED BY <1>1, <2>3, <2>4 DEF SoleIInv
<1>9. CASE RunStep /\ ~List /\ ~\E u \in Units : ProcessUnit(u)
    BY <1>4, <1>5, <1>9 DEF RunStep, InPhase, Replay, ReplayDone, Defer, MarkMissing,
       DeferDone, RecordState, RecordCheckpoint, FlushCheckpoint, PhaseOver, FlushPhase,
       MissingDone, FinalFlush, Exit, ForgetProcess, target, process
<1>10. CASE Environment /\ ~HandEdit
    <2>1. CASE TimePasses
        BY <1>4, <1>5, <2>1 DEF TimePasses, target, process
    <2> QED BY <1>4, <1>5, <1>10, <2>1 DEF Environment, InPhase, StartRun, HostAppears,
            Crash, ForgetProcess, Interrupt, NewBundle, target, process
<1>11. CASE UNCHANGED vars
    BY <1>4, <1>5, <1>11 DEF vars, target, process
<1> QED BY <1>6, <1>7, <1>8, <1>9, <1>10, <1>11 DEF Next

LEMMA SoleInit ==
    ASSUME Init
    PROVE  SoleIInv
<1>1. \A id \in TargetIds, u \in Units : ~ToolMade(objects, id, u)
    BY DEF Init, ToolMade, HandMade
<1> QED BY <1>1, InitIInv DEF Init, SoleIInv, SoleObjects, UnlistedIsAbsent, InPhase

LEMMA AtMostOne ==
    ASSUME NEW S, \A a, b \in S : a = b
    PROVE  Cardinality(S) <= 1
<1>1. CASE S = {}
    BY <1>1, FS_EmptySet
<1>2. CASE S # {}
    <2>1. PICK a \in S : S = {a}
        BY <1>2
    <2> QED BY <2>1, FS_Singleton
<1> QED BY <1>1, <1>2

(* However runs crash, are cancelled, lose their answers, their rows or their
   checkpoint, and whatever people edit meanwhile: no two live objects of one unit
   are the tool's, provided a failed listing is backed by a platform that refuses
   the second object.  No row is needed for this, and no name has to be unique.   *)
THEOREM OneObject ==
    ASSUME ListedOrRefused
    PROVE  Spec => []OneObjectPerUnit
<1>1. SoleIInv => OneObjectPerUnit
    <2> SUFFICES ASSUME SoleIInv, NEW u \in Units
                 PROVE  Cardinality({id \in LiveIds({u}) : objects[id].maker = "tool"}) <= 1
        BY DEF OneObjectPerUnit
    <2>1. \A a, b \in {id \in LiveIds({u}) : objects[id].maker = "tool"} : a = b
        BY DEF SoleIInv, SoleObjects, ToolMade, LiveIds, Live
    <2> QED BY <2>1, AtMostOne
<1>2. Init => SoleIInv
    BY SoleInit
<1>3. SoleIInv /\ [Next]_vars => SoleIInv'
    BY SoleNext
<1> QED BY <1>1, <1>2, <1>3, PTL DEF Spec

(* --- what a run leaves on record --------------------------------------------- *)

LiveRow(u) == cache[<<"live", u>>]

(* u has a row; a full run has written it itself, and has not left u waiting for an
   object that is there.                                                       *)
OnRecord(u) ==
    /\ LiveRow(u) # NoRow
    /\ FullRun => /\ LiveRow(u).run = bundleId
                  /\ LiveRow(u).action = "skipped_no_object" => u \notin hosts

(* The units a run over everything has yet to settle. *)
Unsettled ==
    CASE pc \in {"defer", "list", "units", "checkpoint"} -> todo
      [] pc = "record" -> todo \cup {current.unit}
      [] pc \in {"flush", "missing", "final", "exit"} -> {}
      [] OTHER -> InBundle

OverEverything == run.mode = "live" /\ run.retry = "off" /\ ~interrupted

WorkIInv ==
    /\ EngineIInv
    /\ pc # "idle" => runId = bundleId
    /\ pc = "record" /\ current.status = "skipped_no_object" => current.unit \notin hosts
    /\ pc = "defer" => ~run.selected
    /\ pc = "missing" => todo \cap InBundle = {}
    /\ OverEverything => \A u \in InBundle \ Unsettled : OnRecord(u)
    /\ OverEverything /\ pc = "exit" /\ runStatus = "completed" => table = cache

(* What a step leaves alone between the start of a run and its end. *)
SameRun == UNCHANGED <<bundle, bundleId, hosts, run, interrupted, runId>>

LEMMA SameRunKeeps ==
    ASSUME SameRun
    PROVE  /\ InBundle' = InBundle
           /\ OverEverything' <=> OverEverything
           /\ \A u \in Units :
                 OnRecord(u) /\ cache'[<<"live", u>>] = cache[<<"live", u>>] => OnRecord(u)'
BY DEF SameRun, InBundle, OverEverything, OnRecord, LiveRow, FullRun

(* record() writes the row of its key and no other. *)
LEMMA RecordWrites ==
    ASSUME EngineIInv, NEW k \in Keys, NEW action \in LastActions,
           NEW fp \in Fingerprints \cup {Blank}, NEW id \in TargetIds \cup {Blank},
           Record(k, action, fp, id)
    PROVE  /\ cache'[k] # NoRow /\ cache'[k].action = action /\ cache'[k].run = runId
           /\ \A j \in Keys : j # k => cache'[j] = cache[j]
           /\ runId' = runId
<1>1. /\ cache \in [Keys -> Row \cup {NoRow}] /\ runId \in RunIds
    BY DEF EngineIInv, TypeOK, StoreTypeOK
<1> DEFINE row == CarryForward(cache[k], action, fp, id, runId)
<1>2. row \in Row
    BY <1>1, CarryForwardKeeps DEF Rows
<1>3. row # NoRow /\ row.action = action /\ row.run = runId
    BY <1>2, NoRowIsNoRow DEF CarryForward
<1>4. cache' = [cache EXCEPT ![k] = row] /\ runId' = runId
    BY DEF Record
<1> HIDE DEF row
<1> QED BY <1>1, <1>3, <1>4

(* A live run records u: then u is settled, unless it is said to wait for an object
   that is there.                                                              *)
LEMMA RecordSettles ==
    ASSUME WorkIInv, SameRun, pc # "idle", OverEverything,
           NEW u \in Units, NEW action \in LastActions,
           NEW fp \in Fingerprints \cup {Blank}, NEW id \in TargetIds \cup {Blank},
           Record(StateKey(u), action, fp, id),
           action = "skipped_no_object" => u \notin hosts
    PROVE  /\ OnRecord(u)'
           /\ \A v \in Units : OnRecord(v) => OnRecord(v)'
<1>1. /\ StateKey(u) = <<"live", u>>
      /\ \A v \in Units : <<"live", v>> \in Keys
    BY KeysOfUnits DEF WorkIInv, EngineIInv, TypeOK, StateKey, OverEverything
<1>2. /\ cache'[<<"live", u>>] # NoRow /\ cache'[<<"live", u>>].action = action
      /\ cache'[<<"live", u>>].run = runId
      /\ \A j \in Keys : j # <<"live", u>> => cache'[j] = cache[j]
    BY <1>1, RecordWrites DEF WorkIInv
<1>3. OnRecord(u)'
    BY <1>2 DEF WorkIInv, SameRun, OnRecord, LiveRow
<1>4. ASSUME NEW v \in Units, v # u, OnRecord(v) PROVE OnRecord(v)'
    <2>1. cache'[<<"live", v>>] = cache[<<"live", v>>]
        BY <1>1, <1>2, <1>4
    <2> QED BY <1>4, <2>1, SameRunKeeps
<1> QED BY <1>3, <1>4

(* A unit is only said to wait for an object that is not there. *)
LEMMA ProcessUnitWaits ==
    ASSUME NEW u, ProcessUnit(u)
    PROVE  \/ run.retry # "off" /\ pc' = "units"
           \/ pc' = "record" /\ (current'.status = "skipped_no_object" => u \notin hosts)
<1> USE DEF Conclude, Concluded, Done
<1>1. CASE OutOfScope(u)
    BY <1>1 DEF OutOfScope, InWorkList, Taking
<1>2. CASE NotAttempted(u) \/ CheckpointUnreadable(u) \/ Unchanged(u) \/ CreateNoObject(u)
    BY <1>2 DEF NotAttempted, CheckpointUnreadable, Unchanged, CreateNoObject, NoObject
<1>3. CASE Resume(u)
    BY <1>3 DEF Resume, Resumable
<1>4. CASE \E action \in {"CREATE", "UPDATE", "ADOPT"} : Rehearse(u, action)
    BY <1>4 DEF Rehearse, DryStatus
<1>5. CASE Update(u) \/ AlreadyExists(u)
    BY <1>5 DEF Update, AlreadyExists, UpdateInPlace, Apply
<1>6. CASE Adopt(u)
    BY <1>6 DEF Adopt, Apply
<1>7. CASE Create(u)
    BY <1>7 DEF Create
<1>8. CASE CreateDeclarative(u)
    BY <1>8 DEF CreateDeclarative, Apply
<1> QED BY <1>1, <1>2, <1>3, <1>4, <1>5, <1>6, <1>7, <1>8 DEF ProcessUnit

(* A step that records nothing and leaves no more to settle. *)
LEMMA NothingRecorded ==
    ASSUME WorkIInv, SameRun, EngineIInv', UNCHANGED cache, OverEverything,
           Unsettled \cap InBundle \subseteq Unsettled'
    PROVE  \A u \in (InBundle \ Unsettled)' : OnRecord(u)'
BY SameRunKeeps DEF WorkIInv, InBundle

LEMMA WorkStart ==
    ASSUME WorkIInv, EngineIInv'
    PROVE  /\ \A settings \in RunSettings : StartRun(settings) => WorkIInv'
           /\ \A n \in Names : Replay(n) => WorkIInv'
           /\ ReplayDone => WorkIInv'
<1> USE DEF process, world
<1>1. ASSUME NEW settings \in RunSettings, StartRun(settings) PROVE WorkIInv'
    BY <1>1 DEF StartRun, Open, WorkIInv, Unsettled, InBundle
<1>2. ASSUME NEW n \in Names, Replay(n) PROVE WorkIInv'
    <2>1. pc = "replay" /\ pc' = pc /\ UNCHANGED <<runId, bundleId>>
        BY <1>2 DEF Replay, Record, storeVars
    <2> QED BY <2>1 DEF WorkIInv, Unsettled
<1>3. CASE ReplayDone
    <2>1. /\ UNCHANGED <<runId, bundleId, bundle, run>> /\ pc # "idle"
          /\ pc' \in {"list", "defer"} /\ (pc' = "defer" => ~run.selected)
        BY <1>3 DEF ReplayDone, Flush
    <2>2. todo' = InBundle'
        BY <1>3, <2>1 DEF ReplayDone, InBundle
    <2>3. Unsettled' = InBundle'
        BY <2>1, <2>2 DEF Unsettled
    <2> QED BY <2>1, <2>3 DEF WorkIInv
<1> QED BY <1>1, <1>2, <1>3

(* Steps that touch no row: what is settled stays so. *)
LEMMA UnrecordedKeepsWork ==
    ASSUME WorkIInv, SameRun, EngineIInv', UNCHANGED cache, pc # "idle",
           Unsettled \cap InBundle \subseteq Unsettled' \/ ~OverEverything,
           pc' = "record" /\ current'.status = "skipped_no_object" => current'.unit \notin hosts,
           pc' = "missing" => (todo \cap InBundle)' = {},
           pc' = "defer" => pc = "defer",
           OverEverything /\ pc' = "exit" /\ runStatus' = "completed" => table' = cache
    PROVE  WorkIInv'
<1>1. OverEverything' => \A u \in (InBundle \ Unsettled)' : OnRecord(u)'
    BY SameRunKeeps, NothingRecorded
<1>2. OverEverything' /\ pc' = "exit" /\ runStatus' = "completed" => table' = cache'
    BY SameRunKeeps
<1>3. pc' = "record" /\ current'.status = "skipped_no_object" => current'.unit \notin hosts'
    BY DEF SameRun
<1> QED BY <1>1, <1>2, <1>3 DEF WorkIInv, SameRun

LEMMA DeferKeepsWork ==
    ASSUME WorkIInv, EngineIInv'
    PROVE  /\ \A u \in Units : Defer(u) => WorkIInv'
           /\ DeferDone => WorkIInv'
<1> USE DEF process, world
<1>1. ASSUME NEW u \in Units, Defer(u) PROVE WorkIInv'
    <2>1. /\ pc = "defer" /\ pc' = "defer" /\ todo' = todo \ {u}
          /\ UNCHANGED <<bundle, bundleId, hosts, run, interrupted>>
        BY <1>1 DEF Defer
    <2>2. SameRun
        BY <1>1, <2>1 DEF Defer, Record, storeVars, SameRun
    <2>3. ASSUME OverEverything PROVE \A v \in (InBundle \ todo)' : OnRecord(v)'
        <3>1. \A v \in InBundle \ todo : OnRecord(v)
            BY <2>1, <2>3 DEF WorkIInv, Unsettled
        <3>2. Fp(u) \in Fingerprints \cup {Blank} /\ "not_selected" \in LastActions
            BY DEF Fp, WorkIInv, EngineIInv, TypeOK, LastActions
        <3>3. CASE Record(StateKey(u), "not_selected", Fp(u), Blank)
            <4>1. OnRecord(u)' /\ \A v \in Units : OnRecord(v) => OnRecord(v)'
                BY <2>1, <2>2, <2>3, <3>2, <3>3, RecordSettles
            <4> QED BY <2>1, <3>1, <4>1 DEF InBundle
        <3>4. CASE cache[StateKey(u)] # NoRow /\ UNCHANGED storeVars
            <4>1. StateKey(u) = <<"live", u>> /\ UNCHANGED cache
                BY <2>3, <3>4 DEF StateKey, OverEverything, storeVars
            <4>2. OnRecord(u)
                BY <2>1, <3>4, <4>1 DEF OnRecord, LiveRow, FullRun, WorkIInv
            <4> QED BY <2>1, <2>2, <3>1, <4>1, <4>2, SameRunKeeps DEF InBundle
        <3> QED BY <1>1, <3>3, <3>4 DEF Defer
    <2> QED BY <2>1, <2>2, <2>3, SameRunKeeps DEF WorkIInv, Unsettled, SameRun
<1>2. CASE DeferDone
    <2>1. /\ pc = "defer" /\ pc' = "final" /\ todo = {} /\ UNCHANGED cache /\ SameRun
        BY <1>2 DEF DeferDone, Flush, SameRun
    <2> QED BY <2>1, UnrecordedKeepsWork DEF Unsettled
<1> QED BY <1>1, <1>2

LEMMA PhaseKeepsWork ==
    ASSUME WorkIInv, EngineIInv'
    PROVE  /\ List => WorkIInv'
           /\ \A u \in Units : ProcessUnit(u) => WorkIInv'
           /\ RecordState => WorkIInv'
           /\ RecordCheckpoint => WorkIInv'
           /\ FlushCheckpoint => WorkIInv'
<1> USE DEF process, world
<1>1. CASE List
    <2>1. /\ pc = "list" /\ pc' = "units" /\ todo' = todo /\ UNCHANGED cache /\ SameRun
        BY <1>1 DEF List, SameRun, storeVars
    <2> QED BY <2>1, UnrecordedKeepsWork DEF Unsettled
<1>2. ASSUME NEW u \in Units, ProcessUnit(u) PROVE WorkIInv'
    <2>1. Taken(u)
        BY <1>2, ProcessUnitTakes DEF WorkIInv
    <2>2. /\ pc = "units" /\ todo' = todo \ {u} /\ UNCHANGED cache /\ SameRun
          /\ pc' = "units" \/ (pc' = "record" /\ current'.unit = u)
        BY <2>1 DEF Taken, ConcludedSafely, UnitFrame, SameRun, storeVars
    <2>3. pc' = "record" => (current'.status = "skipped_no_object" => current'.unit \notin hosts)
        BY <1>2, <2>2, ProcessUnitWaits
    <2>4. OverEverything => pc' = "record"
        BY <1>2, ProcessUnitWaits DEF OverEverything
    <2>5. OverEverything => Unsettled \cap InBundle \subseteq Unsettled'
        BY <2>2, <2>4 DEF Unsettled
    <2> QED BY <2>2, <2>3, <2>5, UnrecordedKeepsWork
<1>3. CASE RecordState
    <2>1. /\ pc = "record" /\ pc' \in {"checkpoint", "units"} /\ todo' = todo
          /\ UNCHANGED <<bundle, bundleId, hosts, run, interrupted>>
        BY <1>3 DEF RecordState
    <2>2. current \in Conclusion
        BY <2>1 DEF WorkIInv, EngineIInv
    <2> PICK u \in Units : u = current.unit
        BY <2>2 DEF Conclusion
    <2>3. /\ current.status \in LastActions
          /\ current.target \in TargetIds \cup {Blank}
        BY <2>2 DEF Conclusion
    <2>4. PICK fp \in Fingerprints \cup {Blank} :
              Record(StateKey(u), current.status, fp, current.target)
        BY <1>3, <2>3 DEF RecordState, Fp, WorkIInv, EngineIInv, TypeOK
    <2>5. SameRun
        BY <2>1, <2>4 DEF Record, SameRun
    <2>6. current.status = "skipped_no_object" => u \notin hosts
        BY <2>1 DEF WorkIInv
    <2>7. ASSUME OverEverything PROVE \A v \in (InBundle \ todo)' : OnRecord(v)'
        <3>1. OnRecord(u)' /\ \A v \in Units : OnRecord(v) => OnRecord(v)'
            BY <2>1, <2>3, <2>4, <2>5, <2>6, <2>7, RecordSettles
        <3>2. \A v \in InBundle \ (todo \cup {u}) : OnRecord(v)
            BY <2>1, <2>7 DEF WorkIInv, Unsettled
        <3> QED BY <2>1, <3>1, <3>2 DEF InBundle
    <2> QED BY <2>1, <2>5, <2>7, SameRunKeeps DEF WorkIInv, Unsettled, SameRun
<1>4. CASE RecordCheckpoint
    <2>1. /\ pc = "checkpoint" /\ pc' = "units" /\ todo' = todo /\ UNCHANGED cache /\ SameRun
        BY <1>4 DEF RecordCheckpoint, SameRun, storeVars
    <2> QED BY <2>1, UnrecordedKeepsWork DEF Unsettled
<1>5. CASE FlushCheckpoint
    <2>1. /\ pc = "units" /\ pc' = "flush" /\ UNCHANGED cache /\ SameRun
          /\ OverEverything => todo = {}
        BY <1>5 DEF FlushCheckpoint, PhaseOver, SameRun, storeVars, OverEverything
    <2> QED BY <2>1, UnrecordedKeepsWork DEF Unsettled
<1> QED BY <1>1, <1>2, <1>3, <1>4, <1>5

LEMMA EndKeepsWork ==
    ASSUME WorkIInv, EngineIInv'
    PROVE  /\ FlushPhase => WorkIInv'
           /\ \A u \in Units : MarkMissing(u) => WorkIInv'
           /\ MissingDone => WorkIInv'
           /\ FinalFlush => WorkIInv'
           /\ Exit => WorkIInv'
<1> USE DEF process, world
<1>1. CASE FlushPhase
    <2>1. /\ pc = "flush" /\ pc' \in {"final", "missing"} /\ UNCHANGED cache /\ SameRun
          /\ todo' \cap InBundle = {}
        BY <1>1 DEF FlushPhase, Flush, SameRun
    <2>2. (todo \cap InBundle)' = {}
        BY <2>1, SameRunKeeps
    <2> QED BY <2>1, <2>2, UnrecordedKeepsWork DEF Unsettled
<1>2. ASSUME NEW u \in Units, MarkMissing(u) PROVE WorkIInv'
    <2>1. /\ pc = "missing" /\ pc' = "missing" /\ u \in todo /\ todo' = todo \ {u}
          /\ UNCHANGED <<bundle, bundleId, hosts, run, interrupted>>
        BY <1>2 DEF MarkMissing
    <2>2. SameRun
        BY <1>2, <2>1 DEF MarkMissing, Record, storeVars, SameRun
    <2>3. u \notin InBundle
        BY <2>1 DEF WorkIInv
    <2>4. ASSUME NEW v \in InBundle, OverEverything
          PROVE  cache'[<<"live", v>>] = cache[<<"live", v>>]
        <3>1. v # u /\ v \in Units
            BY <2>3 DEF InBundle
        <3>2. StateKey(u) = <<"live", u>> /\ StateKey(u) # <<"live", v>>
            BY <2>4, <3>1 DEF StateKey, OverEverything
        <3>3. <<"live", u>> \in Keys /\ <<"live", v>> \in Keys
            BY <3>1, KeysOfUnits DEF WorkIInv, EngineIInv, TypeOK
        <3>4. "deleted_in_source" \in LastActions
            BY DEF LastActions
        <3> QED BY <1>2, <3>2, <3>3, <3>4, RecordWrites DEF MarkMissing, storeVars, WorkIInv
    <2>5. OverEverything => \A v \in InBundle : OnRecord(v) /\ v \in Units
        BY <2>1 DEF WorkIInv, Unsettled, InBundle
    <2>6. OverEverything => \A v \in InBundle : OnRecord(v)'
        BY <2>2, <2>4, <2>5, SameRunKeeps
    <2> QED BY <2>1, <2>2, <2>6, SameRunKeeps DEF WorkIInv, Unsettled, SameRun
<1>3. CASE MissingDone
    <2>1. /\ pc = "missing" /\ pc' = "final" /\ UNCHANGED cache /\ SameRun
        BY <1>3 DEF MissingDone, Flush, SameRun, storeVars
    <2> QED BY <2>1, UnrecordedKeepsWork DEF Unsettled
<1>4. CASE FinalFlush
    <2>1. /\ pc = "final" /\ pc' = "exit" /\ UNCHANGED cache /\ SameRun
          /\ Flush /\ (runStatus' = "completed" => ~flushFailed')
        BY <1>4 DEF FinalFlush, Flush, SameRun
    <2>2. runStatus' = "completed" => table' = cache
        BY <2>1, FlushIInv DEF WorkIInv, EngineIInv
    <2> QED BY <2>1, <2>2, UnrecordedKeepsWork DEF Unsettled
<1>5. CASE Exit
    BY <1>5 DEF Exit, ForgetProcess, WorkIInv, Unsettled
<1> QED BY <1>1, <1>2, <1>3, <1>4, <1>5

LEMMA QuietKeepsWork ==
    ASSUME WorkIInv, EngineIInv', SameRun,
           UNCHANGED <<cache, table, pc, todo, current, runStatus>>
    PROVE  WorkIInv'
<1>1. CASE pc = "idle"
    BY <1>1 DEF WorkIInv, Unsettled
<1>2. CASE pc # "idle"
    <2>1. Unsettled' = Unsettled
        BY SameRunKeeps DEF Unsettled
    <2>2. /\ pc = "missing" => (todo \cap InBundle)' = {}
          /\ pc = "record" /\ current.status = "skipped_no_object" => current.unit \notin hosts
          /\ OverEverything /\ pc = "exit" /\ runStatus = "completed" => table = cache
        BY SameRunKeeps DEF WorkIInv
    <2> QED BY <1>2, <2>1, <2>2, UnrecordedKeepsWork
<1> QED BY <1>1, <1>2

LEMMA EnvironmentKeepsWork ==
    ASSUME WorkIInv, EngineIInv', Environment
    PROVE  WorkIInv'
<1> USE DEF process, world
<1>1. ASSUME NEW settings \in RunSettings, StartRun(settings) PROVE WorkIInv'
    BY <1>1, WorkStart
<1>2. CASE pc = "idle" /\ pc' = "idle"
    BY <1>2 DEF WorkIInv, Unsettled
<1>3. ASSUME NEW u \in Units, HostAppears(u) PROVE WorkIInv'
    BY <1>2, <1>3 DEF HostAppears
<1>4. CASE Crash
    BY <1>4 DEF Crash, ForgetProcess, WorkIInv, Unsettled
<1>5. CASE Interrupt
    <2>1. /\ pc' \in {"units", "final"} /\ pc # "idle" /\ interrupted' = TRUE
          /\ UNCHANGED <<runId, bundleId>>
        BY <1>5 DEF Interrupt, InPhase, storeVars
    <2> QED BY <2>1 DEF WorkIInv, OverEverything
<1>6. CASE NewBundle
    BY <1>2, <1>6 DEF NewBundle
<1>7. CASE HandEdit \/ TimePasses
    <2>1. UNCHANGED <<cache, table, pc, todo, current, runStatus>> /\ SameRun
        BY <1>7 DEF HandEdit, TimePasses, FlushSecondsPass, storeVars, SameRun
    <2> QED BY <2>1, QuietKeepsWork
<1> QED BY <1>1, <1>3, <1>4, <1>5, <1>6, <1>7 DEF Environment

LEMMA WorkNext ==
    ASSUME WorkIInv, [Next]_vars
    PROVE  WorkIInv'
<1>1. EngineIInv'
    BY NextIInv DEF WorkIInv
<1>2. CASE RunStep
    BY <1>1, <1>2, WorkStart, DeferKeepsWork, PhaseKeepsWork, EndKeepsWork DEF RunStep
<1>3. CASE Environment
    BY <1>1, <1>3, EnvironmentKeepsWork
<1>4. CASE UNCHANGED vars
    <2>1. UNCHANGED <<cache, table, pc, todo, current, runStatus>> /\ SameRun
        BY <1>4 DEF vars, storeVars, process, world, SameRun
    <2> QED BY <1>1, <2>1, QuietKeepsWork
<1> QED BY <1>2, <1>3, <1>4 DEF Next

LEMMA WorkInit ==
    ASSUME Init
    PROVE  WorkIInv
BY InitIInv DEF Init, WorkIInv, Unsettled

THEOREM WorkInvariant == Spec => []WorkIInv
<1>1. WorkIInv /\ [Next]_vars => WorkIInv'
    BY WorkNext
<1> QED BY <1>1, WorkInit, PTL DEF Spec

(* Whatever was selected and whatever failed: a live run over the whole bundle that
   ends `completed` without having been cancelled has a saved row for every unit, so
   that a retry can see what is left.                                          *)
THEOREM WorkIsVisible == Spec => []DeferredWorkIsVisible
<1>1. WorkIInv => DeferredWorkIsVisible
    BY DEF WorkIInv, DeferredWorkIsVisible, OverEverything, Unsettled, OnRecord, LiveRow
<1> QED BY <1>1, WorkInvariant, PTL

(* And no such run leaves a unit waiting for an object that is there, even when it
   resumes a run that had to.                                                 *)
THEOREM WaitingEnds == Spec => []NoObjectIsNotDone
<1>1. WorkIInv => NoObjectIsNotDone
    BY DEF WorkIInv, NoObjectIsNotDone, OverEverything, Unsettled, OnRecord, LiveRow,
           CompletedFullRun, FullRun
<1> QED BY <1>1, WorkInvariant, PTL
================================================================================
