-------------------------- MODULE ImportHonestyProofs ---------------------------
(* What an import claims is there is there: proofs that the fingerprint of a row is
   the content of its object, and that a completed run has applied what it says, for
   any bundles, units and runs in the circumstances FaithfulWorld names.           *)
EXTENDS ImportWorkProofs

(* --- the circumstances -------------------------------------------------------- *)

(* No process dies and no write fails; nor is a run cancelled. *)
NothingLost == MaxCrashes = 0 /\ ~DiskMayFail
Uninterrupted == NothingLost /\ MaxInterrupts = 0

(* Each line excludes one known way to a row that claims what did not land: a
   rehearsal's checkpoint, an answer that is lost, an edit by hand, a newer bundle
   over an unfinished run, two units of one name, a target that already holds a name
   twice or what a dependent unit waits for, a failed outcome replayed after a crash,
   a failed listing after a crash or for a name the platform gives out twice.       *)
FaithfulWorld ==
    /\ \A settings \in RunSettings : settings.mode = "live"
    /\ ~AnswersMayBeLost
    /\ MaxHandEdits = 0
    /\ ReimportFirst \/ Uninterrupted
    /\ NamesAreUnique
    /\ \A i, j \in DOMAIN PreExisting : PreExisting[i] = PreExisting[j] => i = j
    /\ \A i \in DOMAIN PreExisting : PreExisting[i] \notin DependentUnits
    /\ MaxApiFailures = 0 \/ NothingLost
    /\ ListingMayFail => Uninterrupted /\ Units \subseteq UniqueUnits

(* --- the inductive invariant --------------------------------------------------- *)

ObjectOf(u, id) == objects[id] # NoRow /\ objects[id].unit = u

(* The tool has written the object's content, and it is the bundle's. *)
Written(u, id) == ObjectOf(u, id) /\ objects[id].content # ByHand
Current(u, id) == objects[id].content = Fp(u)

Unattempted == ManualUnits \cup SkippedUnits

(* A unit has at most one object, which nobody removes. *)
TargetInv ==
    /\ \A id \in TargetIds : objects[id] # NoRow => objects[id].live
    /\ \A u \in Units, a, b \in TargetIds : ObjectOf(u, a) /\ ObjectOf(u, b) => a = b
    /\ \A u \in Units, id \in TargetIds :
          /\ ObjectOf(u, id) /\ u \in DependentUnits => u \in hosts
          /\ Written(u, id) => u \notin Unattempted

(* What the circumstances exclude has not happened. *)
CircumstancesInv ==
    /\ crashes \in Nat /\ interrupts \in Nat /\ apiFailures \in Nat /\ handEdits \in Nat
    /\ pc = "exit" /\ runStatus = "completed" => table = cache
    /\ pc = "exit" /\ NothingLost => runStatus = "completed"
    /\ Uninterrupted => ~interrupted /\ ~cutShort

(* A listing that was read names the object of every unit still to be taken. *)
ListingInv ==
    pc \in InPhase => \A u \in todo, id \in TargetIds :
        ObjectOf(u, id) => existing[Name(u)] = id \/ ListingMayFail

(* The row names the object and its content. *)
RowSays(row, id) ==
    /\ row # NoRow /\ row.target = id
    /\ row.fp = objects[id].content /\ row.action # "not_selected"

(* Where a row is wrong, the object has what the bundle holds: a run of the bundle
   that is still to finish will find it so.                                      *)
Truthful(rows) ==
    \A u \in Units, id \in TargetIds :
        Written(u, id) => RowSays(rows[<<"live", u>>], id) \/ Current(u, id)

Exact(rows) ==
    \A u \in Units, id \in TargetIds : Written(u, id) => RowSays(rows[<<"live", u>>], id)

(* The object of u has been written and its row has not. *)
InRecord(u) == pc = "record" /\ current.unit = u /\ current.status # "failed"

TableInv ==
    /\ Truthful(table)
    /\ pc = "idle" /\ ~cutShort => Exact(table)

CacheInv ==
    pc # "idle" =>
        /\ Truthful(cache)
        /\ ~cutShort /\ ~interrupted =>
              \A u \in Units, id \in TargetIds :
                  Written(u, id) => RowSays(LiveRow(u), id) \/ InRecord(u)

(* What an outcome of u says of the target. *)
OutcomeInv(u, status, id) ==
    /\ status # "not_selected"
    /\ u \in ManualUnits => status \notin Succeeded
    /\ status # "failed" => \A i \in TargetIds : Written(u, i) => Current(u, i)
    /\ status \notin {"failed", "skipped_no_object"} /\ u \notin Unattempted =>
          \E i \in TargetIds : ObjectOf(u, i) /\ (id = i \/ ListingMayFail)

(* Recorded, it leaves a row that names the object. *)
WillSay(u, status, id) ==
    status # "failed" =>
        \A i \in TargetIds : Written(u, i) => OrElse(id, TargetOf(LiveRow(u))) = i

CurrentInv ==
    pc \in {"record", "checkpoint"} =>
        /\ current.unit \in InBundle
        /\ OutcomeInv(current.unit, current.status, current.target)
        /\ pc = "record" => WillSay(current.unit, current.status, current.target)
        /\ current.status = "failed" => garbled \/ NothingLost
        /\ pc = "checkpoint" => /\ LiveRow(current.unit) # NoRow
                                /\ LiveRow(current.unit).run = bundleId

(* The rows that the process, or the next one, starts from. *)
KnownRow(u) == IF pc = "idle" THEN table[<<"live", u>>] ELSE LiveRow(u)

EntryInv(entry) ==
    /\ entry.fp = Fp(entry.unit) /\ entry.unit \in InBundle
    /\ OutcomeInv(entry.unit, entry.status, entry.target)
    /\ entry.status = "failed" => NothingLost
    /\ NothingLost => /\ KnownRow(entry.unit) # NoRow
                      /\ KnownRow(entry.unit).run = bundleId

EntriesHold(outcomes) == \A n \in Names : outcomes[n] # NoRow => EntryInv(outcomes[n])

EntriesInv ==
    /\ ~garbled => EntriesHold(checkpoint) /\ EntriesHold(cpPending)
    /\ pc = "idle" => cpPending = NoOutcomes
    /\ pc = "replay" /\ todo # {} => ~garbled

(* What a full run has settled has landed, unless it failed. *)
Landed(u) ==
    /\ LiveRow(u).action # "failed" =>
          \A id \in TargetIds : Written(u, id) => RowSays(LiveRow(u), id) /\ Current(u, id)
    /\ LiveRow(u).action \in Succeeded /\ u \notin SkippedUnits =>
          /\ LiveRow(u).fp = Fp(u) /\ u \notin ManualUnits
          /\ \E id \in TargetIds : ObjectOf(u, id)

LandedInv ==
    OverEverything /\ run.selected => \A u \in InBundle \ Unsettled : Landed(u)

HonestIInv ==
    /\ OwnIInv /\ WorkIInv
    /\ TargetInv /\ CircumstancesInv /\ ListingInv
    /\ TableInv /\ CacheInv /\ CurrentInv /\ EntriesInv /\ LandedInv

(* --- taking one unit ------------------------------------------------------------ *)

LEMMA LiveKeys ==
    ASSUME FaithfulWorld, run \in RunSettings, NEW u \in Units
    PROVE  /\ run.mode = "live" /\ StateKey(u) = <<"live", u>>
           /\ <<"live", u>> \in Keys /\ Name(u) \in Names
BY KeysOfUnits DEF FaithfulWorld, StateKey

(* The tool writes the bundle's content to the one object of u, or makes it. *)
Writes(u, id) ==
    /\ id \in TargetIds /\ u \notin Unattempted
    /\ \/ ObjectOf(u, id) /\ objects' = Contents(id, Fp(u))
       \/ /\ objects[id] = NoRow /\ objects' = NewObject(u, id)
          /\ \A i \in TargetIds : ~ObjectOf(u, i)
          /\ u \in DependentUnits => u \in hosts

(* An outcome that is true of the target: nothing was written, or what it names. *)
ConcludedWell(u) ==
    \E status \in LastActions, id \in TargetIds \cup {Blank}, saved \in BOOLEAN :
        /\ Conclude(u, status, id, saved)
        /\ \/ /\ objects' = objects
              /\ OutcomeInv(u, status, id) /\ WillSay(u, status, id)
              /\ status = "failed" => garbled \/ NothingLost
           \/ /\ Writes(u, id)
              /\ status \in {"created", "created_with_warning", "updated", "adopted"}

(* What is known of a unit when it is taken. *)
UnitFacts(u) ==
    /\ u \in Units /\ u \in InBundle /\ Fp(u) \in Fingerprints
    /\ existing[Name(u)] # Blank =>
          existing[Name(u)] \in TargetIds /\ ObjectOf(u, existing[Name(u)])
    /\ TargetOf(LiveRow(u)) # Blank =>
          TargetOf(LiveRow(u)) \in TargetIds /\ ObjectOf(u, TargetOf(LiveRow(u)))
    /\ \A a, b \in TargetIds : ObjectOf(u, a) /\ ObjectOf(u, b) => a = b
    /\ \A i \in TargetIds : ObjectOf(u, i) =>
          /\ existing[Name(u)] = i \/ ListingMayFail
          /\ Live(i)
    /\ \A i \in TargetIds : Written(u, i) =>
          /\ RowSays(LiveRow(u), i) \/ (Current(u, i) /\ ~Uninterrupted)
          /\ u \notin Unattempted
          /\ objects[i].content \in Fingerprints

LEMMA UnitFactsHold ==
    ASSUME FaithfulWorld, HonestIInv, NEW u \in Units, pc = "units", u \in todo
    PROVE  UnitFacts(u)
<1>1. /\ Name(u) \in Names /\ <<"live", u>> \in Keys
      /\ StateKey(u) = <<"live", u>>
    BY LiveKeys DEF HonestIInv, OwnIInv, EngineIInv, TypeOK
<1>2. u \in InBundle /\ Fp(u) \in Fingerprints
    BY DEF HonestIInv, OwnIInv, EngineIInv, TypeOK, InBundle, Fp
<1>3. existing[Name(u)] # Blank =>
          existing[Name(u)] \in TargetIds /\ ObjectOf(u, existing[Name(u)])
    BY DEF HonestIInv, OwnIInv, ListingOwns, Owned, ObjectOf
<1>4. TargetOf(LiveRow(u)) # Blank =>
          TargetOf(LiveRow(u)) \in TargetIds /\ ObjectOf(u, TargetOf(LiveRow(u)))
    <2>1. LiveRow(u) \in Row \cup {NoRow}
        BY <1>1 DEF LiveRow, HonestIInv, OwnIInv, EngineIInv, TypeOK, StoreTypeOK
    <2> QED BY <1>1, <2>1
            DEF TargetOf, Row, ObjectOf, LiveRow, HonestIInv, OwnIInv, RowsNameOwnObjects
<1>5. \A a, b \in TargetIds : ObjectOf(u, a) /\ ObjectOf(u, b) => a = b
    BY DEF HonestIInv, TargetInv
<1>6. ASSUME NEW i \in TargetIds, ObjectOf(u, i)
      PROVE  (existing[Name(u)] = i \/ ListingMayFail) /\ Live(i)
    BY <1>6 DEF HonestIInv, ListingInv, InPhase, TargetInv, ObjectOf, Live
<1>7. ASSUME NEW i \in TargetIds, Written(u, i)
      PROVE  /\ RowSays(LiveRow(u), i) \/ (Current(u, i) /\ ~Uninterrupted)
             /\ u \notin Unattempted /\ objects[i].content \in Fingerprints
    <2>1. u \notin Unattempted
        BY <1>7 DEF HonestIInv, TargetInv
    <2>2. objects[i] \in Object /\ objects[i].content # ByHand
        BY <1>7 DEF Written, ObjectOf, HonestIInv, OwnIInv, EngineIInv, TypeOK
    <2>3. RowSays(LiveRow(u), i) \/ Current(u, i)
        BY <1>7 DEF HonestIInv, CacheInv, Truthful, LiveRow
    <2>4. Uninterrupted => RowSays(LiveRow(u), i)
        BY <1>7 DEF HonestIInv, CircumstancesInv, CacheInv, InRecord
    <2> QED BY <2>1, <2>2, <2>3, <2>4 DEF Object
<1> QED BY <1>2, <1>3, <1>4, <1>5, <1>6, <1>7 DEF UnitFacts

LEMMA DecisionTable ==
    ASSUME NEW u, StateKey(u) = <<"live", u>>
    PROVE  /\ Decision(u) = "SKIP" => /\ LiveRow(u) # NoRow /\ existing[Name(u)] # Blank
                                      /\ LiveRow(u).fp = Fp(u)
           /\ Decision(u) = "ADOPT" => LiveRow(u) = NoRow /\ existing[Name(u)] # Blank
           /\ Decision(u) = "UPDATE" => existing[Name(u)] # Blank
           /\ Decision(u) = "CREATE" => existing[Name(u)] = Blank
BY DEF Decision, Decide, Exists, LiveRow

(* A call that fails has changed nothing, and then nothing is lost. *)
LEMMA FailsWell ==
    ASSUME FaithfulWorld, CircumstancesInv, NEW effect, CallFails(effect)
    PROVE  objects' = objects /\ NothingLost
<1>1. MaxApiFailures # 0
    BY DEF CallFails, CircumstancesInv
<1> QED BY <1>1 DEF CallFails, FaithfulWorld

LEMMA FailedWell ==
    ASSUME NEW u, NEW id \in TargetIds \cup {Blank}, Concluded(u, "failed", id),
           objects' = objects, garbled \/ NothingLost
    PROVE  ConcludedWell(u)
<1>1. OutcomeInv(u, "failed", id) /\ WillSay(u, "failed", id)
    BY DEF OutcomeInv, WillSay, Succeeded
<1>2. "failed" \in LastActions
    BY DEF LastActions
<1> QED BY <1>1, <1>2 DEF Concluded, ConcludedWell

LEMMA ApplyWell ==
    ASSUME FaithfulWorld, CircumstancesInv, NEW u, UnitFacts(u), u \notin Unattempted,
           NEW id \in TargetIds, ObjectOf(u, id),
           NEW status \in {"created", "updated", "adopted"}, Apply(u, id, status)
    PROVE  ConcludedWell(u)
<1>1. CASE /\ objects' = Contents(id, Fp(u))
           /\ Concluded(u, Done(u, status), id)
    <2>1. /\ Done(u, status) \in {"created", "created_with_warning", "updated", "adopted"}
          /\ Done(u, status) \in LastActions
        BY DEF Done, LastActions
    <2>2. Writes(u, id)
        BY <1>1 DEF Writes
    <2> QED BY <1>1, <2>1, <2>2 DEF Concluded, ConcludedWell
<1>2. CASE CallFails(Contents(id, Fp(u))) /\ Concluded(u, "failed", id)
    BY <1>2, FailsWell, FailedWell
<1>3. Live(id)
    BY DEF UnitFacts
<1> QED BY <1>1, <1>2, <1>3 DEF Apply

(* --- the ways through _process_one() --------------------------------------------- *)

(* A unit taken as it was found: its object is the listed one and has the bundle's
   content, if the tool wrote it.                                              *)
LEMMA FoundWell ==
    ASSUME NEW u, UnitFacts(u), NEW status \in {"skipped", "adopted"},
           NEW id \in TargetIds, ObjectOf(u, id), u \notin ManualUnits,
           \A i \in TargetIds : Written(u, i) => Current(u, i),
           objects' = objects, Concluded(u, status, id)
    PROVE  ConcludedWell(u)
<1>1. OutcomeInv(u, status, id)
    BY DEF OutcomeInv
<1>2. \A i \in TargetIds : ObjectOf(u, i) => i = id
    BY DEF UnitFacts
<1>3. id # Blank
    BY BlankAssumption
<1>4. WillSay(u, status, id)
    BY <1>2, <1>3 DEF WillSay, OrElse, Written
<1>5. status \in LastActions
    BY DEF LastActions
<1> QED BY <1>1, <1>4, <1>5 DEF Concluded, ConcludedWell

(* What a resumed unit was concluded with: an entry of its own, of this bundle. *)
LEMMA ResumesWell ==
    ASSUME FaithfulWorld, HonestIInv, NEW u \in Units, UnitFacts(u), Resume(u)
    PROVE  ConcludedWell(u)
<1> DEFINE entry == checkpoint[Name(u)]
<1>1. /\ Name(u) \in Names /\ entry # NoRow /\ ~garbled
      /\ entry.status # "skipped_no_object" /\ u \notin Unattempted
      /\ Conclude(u, entry.status, entry.target, FALSE) /\ objects' = objects
    BY DEF Resume, Resumable, Attempted, Unattempted, Names, target
<1>2. entry \in Outcome
    BY <1>1 DEF HonestIInv, OwnIInv, EngineIInv, TypeOK
<1>3. /\ entry.unit \in Units /\ entry.status \in LastActions
      /\ entry.target \in TargetIds \cup {Blank}
    BY <1>2 DEF Outcome
<1>4. entry.unit = u /\ Owned(objects, u, entry.target)
    BY <1>1, <1>3 DEF HonestIInv, OwnIInv, OutcomesOwn, FaithfulWorld, NamesAreUnique
<1>5. EntryInv(entry)
    BY <1>1 DEF HonestIInv, EntriesInv, EntriesHold
<1> HIDE DEF entry
<1>6. OutcomeInv(u, entry.status, entry.target) /\ (entry.status = "failed" => NothingLost)
    BY <1>4, <1>5 DEF EntryInv
<1>7. ASSUME entry.status # "failed", NEW i \in TargetIds, Written(u, i)
      PROVE  OrElse(entry.target, TargetOf(LiveRow(u))) = i
    <2>1. entry.target = i \/ ListingMayFail
        BY <1>1, <1>6, <1>7 DEF OutcomeInv, UnitFacts, Written
    <2>2. entry.target \in {Blank, i}
        BY <1>4, <1>7 DEF Owned, ObjectOf, UnitFacts, Written
    <2>3. ListingMayFail => TargetOf(LiveRow(u)) = i
        BY <1>7 DEF FaithfulWorld, UnitFacts, RowSays, TargetOf
    <2> QED BY <2>1, <2>2, <2>3, BlankAssumption DEF OrElse
<1>8. WillSay(u, entry.status, entry.target)
    BY <1>7 DEF WillSay
<1> QED BY <1>1, <1>3, <1>6, <1>8 DEF ConcludedWell

LEMMA CreatesWell ==
    ASSUME FaithfulWorld, HonestIInv, NEW u \in Units, UnitFacts(u), Create(u)
    PROVE  ConcludedWell(u)
<1>1. /\ Decision(u) = "CREATE" /\ u \notin Unattempted
      /\ u \in DependentUnits => u \in hosts
      /\ u \in UniqueUnits => LiveIds({u}) = {}
    BY DEF Create, Decided, Attempted, Unattempted, NoObject, Refused
<1>2. existing[Name(u)] = Blank
    BY <1>1, CreatedIsUnlisted
<1>3. \A i \in TargetIds : ~ObjectOf(u, i)
    BY <1>1, <1>2, BlankAssumption DEF UnitFacts, FaithfulWorld, LiveIds, ObjectOf
<1>4. PICK id \in TargetIds :
          /\ FreshId(id)
          /\ \/ /\ objects' = NewObject(u, id)
                /\ Concluded(u, Done(u, "created"), id)
             \/ /\ CallFails(NewObject(u, id))
                /\ Concluded(u, "failed", Blank)
    BY DEF Create
<1>5. CASE /\ objects' = NewObject(u, id)
           /\ Concluded(u, Done(u, "created"), id)
    <2>1. /\ Done(u, "created") \in {"created", "created_with_warning"}
          /\ Done(u, "created") \in LastActions
        BY DEF Done, LastActions
    <2>2. Writes(u, id)
        BY <1>1, <1>3, <1>4, <1>5 DEF Writes, FreshId
    <2> QED BY <1>5, <2>1, <2>2 DEF Concluded, ConcludedWell
<1>6. CASE CallFails(NewObject(u, id)) /\ Concluded(u, "failed", Blank)
    BY <1>6, FailsWell, FailedWell DEF HonestIInv
<1> QED BY <1>4, <1>5, <1>6

(* The platform refuses what a failed listing has not shown: then the row is exact. *)
LEMMA RefusedWell ==
    ASSUME FaithfulWorld, HonestIInv, NEW u \in Units, UnitFacts(u), AlreadyExists(u),
           StateKey(u) = <<"live", u>>
    PROVE  ConcludedWell(u)
<1> DEFINE row == LiveRow(u)
<1> DEFINE id == TargetOf(row)
<1>1. /\ Decision(u) = "CREATE" /\ u \notin Unattempted /\ LiveIds({u}) # {}
      /\ row = cache[StateKey(u)]
    BY DEF AlreadyExists, Decided, Attempted, Unattempted, Refused, LiveRow
<1>2. existing[Name(u)] = Blank
    BY <1>1, CreatedIsUnlisted
<1>3. PICK i \in TargetIds : ObjectOf(u, i)
    BY <1>1 DEF LiveIds, Live, ObjectOf
<1>4. ListingMayFail /\ Uninterrupted
    BY <1>2, <1>3, BlankAssumption DEF UnitFacts, FaithfulWorld
<1>5. OrElse(existing[Name(u)], id) = id
    BY <1>2 DEF OrElse
<1>6. \/ UpdateInPlace(u, id) /\ id # Blank
      \/ /\ id = Blank \/ FingerprintOf(row) \in {Blank, Fp(u)}
         /\ Concluded(u, "adopted", id) /\ objects' = objects
    BY <1>1, <1>5 DEF AlreadyExists, target
<1>7. CASE UpdateInPlace(u, id) /\ id # Blank
    <2>1. Apply(u, id, "updated")
        BY <1>7 DEF UpdateInPlace
    <2>2. id \in TargetIds /\ ObjectOf(u, id)
        BY <1>7 DEF UnitFacts
    <2> QED BY <1>1, <2>1, <2>2, ApplyWell DEF HonestIInv
<1>8. CASE /\ id = Blank \/ FingerprintOf(row) \in {Blank, Fp(u)}
           /\ Concluded(u, "adopted", id) /\ objects' = objects
    <2>1. ASSUME NEW w \in TargetIds, Written(u, w) PROVE id = w /\ Current(u, w)
        <3>1. RowSays(row, w) /\ objects[w].content \in Fingerprints
            BY <1>4, <2>1 DEF UnitFacts
        <3>2. id = w /\ FingerprintOf(row) = objects[w].content
            BY <3>1 DEF RowSays, TargetOf, FingerprintOf
        <3> QED BY <1>8, <2>1, <3>1, <3>2, BlankAssumption DEF Current
    <2>2. id \in TargetIds \cup {Blank} /\ "adopted" \in LastActions
        BY DEF UnitFacts, LastActions
    <2> HIDE DEF id
    <2>3. OutcomeInv(u, "adopted", id)
        BY <1>1, <1>3, <1>4, <2>1 DEF OutcomeInv, Unattempted
    <2>4. WillSay(u, "adopted", id)
        BY <2>1, BlankAssumption DEF WillSay, OrElse
    <2> QED BY <1>8, <2>2, <2>3, <2>4 DEF Concluded, ConcludedWell
<1> QED BY <1>6, <1>7, <1>8

LEMMA AdoptsWell ==
    ASSUME FaithfulWorld, HonestIInv, NEW u \in Units, UnitFacts(u), Adopt(u),
           StateKey(u) = <<"live", u>>
    PROVE  ConcludedWell(u)
<1> DEFINE id == existing[Name(u)]
<1>1. /\ Decision(u) = "ADOPT" /\ u \notin Unattempted
    BY DEF Adopt, Decided, Attempted, Unattempted
<1>2. LiveRow(u) = NoRow /\ id \in TargetIds /\ ObjectOf(u, id)
    BY <1>1, DecisionTable DEF UnitFacts
<1>3. \/ \E status \in {"created", "updated", "adopted"} : Apply(u, id, status)
      \/ Concluded(u, "adopted", id) /\ objects' = objects
    BY DEF Adopt, target
<1>4. \A i \in TargetIds : Written(u, i) => Current(u, i)
    BY <1>2 DEF UnitFacts, RowSays
<1> HIDE DEF id
<1>5. CASE \E status \in {"created", "updated", "adopted"} : Apply(u, id, status)
    BY <1>1, <1>2, <1>5, ApplyWell DEF HonestIInv
<1>6. CASE Concluded(u, "adopted", id) /\ objects' = objects
    BY <1>1, <1>2, <1>4, <1>6, FoundWell DEF Unattempted
<1> QED BY <1>3, <1>5, <1>6

(* Whatever becomes of a unit, it becomes of it well. *)
LEMMA ProcessUnitConcludes ==
    ASSUME FaithfulWorld, HonestIInv, NEW u \in Units, ProcessUnit(u)
    PROVE  OutOfScope(u) \/ ConcludedWell(u)
<1>1. pc = "units" /\ u \in todo
    BY ProcessUnitTakes DEF HonestIInv, OwnIInv, Taken
<1>2. UnitFacts(u)
    BY <1>1, UnitFactsHold
<1>3. run.mode = "live" /\ StateKey(u) = <<"live", u>>
    BY LiveKeys DEF HonestIInv, OwnIInv, EngineIInv, TypeOK
<1>4. CASE NotAttempted(u)
    <2> DEFINE status == IF u \in ManualUnits THEN "manual" ELSE "skipped"
    <2>1. /\ u \in Unattempted /\ objects' = objects
          /\ Conclude(u, status, Blank, TRUE)
        BY <1>4 DEF NotAttempted, Concluded, Unattempted, target
    <2>2. \A i \in TargetIds : ~Written(u, i)
        BY <1>2, <2>1 DEF UnitFacts
    <2>3. /\ status \in LastActions /\ status \notin {"failed", "not_selected"}
          /\ u \in ManualUnits => status \notin Succeeded
        BY DEF LastActions, Succeeded
    <2> HIDE DEF status
    <2>4. OutcomeInv(u, status, Blank) /\ WillSay(u, status, Blank)
        BY <2>1, <2>2, <2>3 DEF OutcomeInv, WillSay
    <2> QED BY <2>1, <2>3, <2>4 DEF ConcludedWell
<1>5. CASE Resume(u)
    BY <1>2, <1>5, ResumesWell
<1>6. CASE CheckpointUnreadable(u)
    BY <1>6, FailedWell DEF CheckpointUnreadable, target
<1>7. CASE Unchanged(u)
    <2> DEFINE id == existing[Name(u)]
    <2>1. /\ Decision(u) = "SKIP" /\ u \notin ManualUnits
          /\ Concluded(u, "skipped", id) /\ objects' = objects
        BY <1>7 DEF Unchanged, Decided, Attempted, target
    <2>2. LiveRow(u).fp = Fp(u) /\ id \in TargetIds /\ ObjectOf(u, id)
        BY <1>2, <1>3, <2>1, DecisionTable DEF UnitFacts
    <2>3. \A i \in TargetIds : Written(u, i) => Current(u, i)
        BY <1>2, <2>2 DEF UnitFacts, RowSays, Current
    <2> QED BY <1>2, <2>1, <2>2, <2>3, FoundWell
<1>8. ASSUME NEW action, Rehearse(u, action) PROVE ConcludedWell(u)
    BY <1>3, <1>8 DEF Rehearse
<1>9. CASE Update(u)
    <2> DEFINE id == OrElse(TargetOf(LiveRow(u)), existing[Name(u)])
    <2>1. /\ Decision(u) = "UPDATE" /\ u \notin Unattempted
          /\ UpdateInPlace(u, id)
        BY <1>3, <1>9 DEF Update, Decided, Attempted, Unattempted, LiveRow
    <2>2. existing[Name(u)] # Blank
        BY <1>3, <2>1, DecisionTable
    <2>3. id \in TargetIds /\ ObjectOf(u, id)
        BY <1>2, <2>2 DEF UnitFacts, OrElse
    <2>4. Apply(u, id, "updated")
        BY <2>1, <2>3, BlankAssumption DEF UpdateInPlace
    <2> QED BY <1>2, <2>1, <2>3, <2>4, ApplyWell DEF HonestIInv
<1>10. CASE Adopt(u)
    BY <1>2, <1>3, <1>10, AdoptsWell
<1>11. CASE Create(u)
    BY <1>2, <1>11, CreatesWell
<1>12. CASE AlreadyExists(u)
    BY <1>2, <1>3, <1>12, RefusedWell
<1>13. CASE CreateDeclarative(u)
    <2>1. u \notin Unattempted
        BY <1>13 DEF CreateDeclarative, Decided, Attempted, Unattempted
    <2>2. PICK id \in LiveIds({u}) : Apply(u, id, "created")
        BY <1>13 DEF CreateDeclarative
    <2>3. id \in TargetIds /\ ObjectOf(u, id)
        BY <2>2 DEF LiveIds, Live, ObjectOf
    <2> QED BY <1>2, <2>1, <2>2, <2>3, ApplyWell DEF HonestIInv
<1>14. CASE CreateNoObject(u)
    <2>1. /\ u \in DependentUnits /\ u \notin hosts
          /\ Conclude(u, "skipped_no_object", Blank, TRUE) /\ objects' = objects
        BY <1>14 DEF CreateNoObject, NoObject, Concluded, target
    <2>2. \A i \in TargetIds : ~ObjectOf(u, i)
        BY <2>1 DEF HonestIInv, TargetInv
    <2>3. /\ OutcomeInv(u, "skipped_no_object", Blank)
          /\ WillSay(u, "skipped_no_object", Blank)
        BY <2>2 DEF OutcomeInv, WillSay, Written, Succeeded
    <2>4. "skipped_no_object" \in LastActions
        BY DEF LastActions
    <2> QED BY <2>1, <2>3, <2>4 DEF ConcludedWell
<1> QED BY <1>4, <1>5, <1>6, <1>7, <1>8, <1>9, <1>10, <1>11, <1>12, <1>13, <1>14
        DEF ProcessUnit

(* --- what a unit leaves when it is taken ------------------------------------------ *)

(* The target as it was, or with the bundle's content in the one object of u. *)
Moves(u) == objects' = objects \/ \E id \in TargetIds : Writes(u, id)

LEMMA WritesEffect ==
    ASSUME objects \in [TargetIds -> Object \cup {NoRow}], TargetInv,
           NEW u \in Units, Fp(u) \in Fingerprints, NEW id \in TargetIds, Writes(u, id)
    PROVE  /\ objects'[id] \in Object /\ objects'[id].unit = u /\ objects'[id].live
           /\ objects'[id].content = Fp(u)
           /\ \A i \in TargetIds : i # id => objects'[i] = objects[i]
           /\ \A i \in TargetIds : ObjectOf(u, i) => i = id
           /\ objects[id] # NoRow => objects[id].unit = u
           /\ u \in DependentUnits => u \in hosts
           /\ u \notin Unattempted
<1>1. CASE ObjectOf(u, id) /\ objects' = Contents(id, Fp(u))
    <2> DEFINE edited == [objects[id] EXCEPT !.content = Fp(u)]
    <2>1. objects[id] \in Object /\ objects[id].live /\ objects[id].unit = u
        BY <1>1 DEF ObjectOf, TargetInv
    <2>2. /\ edited \in Object /\ edited.unit = u /\ edited.live
          /\ edited.content = Fp(u)
        BY <2>1 DEF Object
    <2>3. objects' = [objects EXCEPT ![id] = edited]
        BY <1>1 DEF Contents
    <2> HIDE DEF edited
    <2>4. /\ objects'[id] = edited
          /\ \A i \in TargetIds : i # id => objects'[i] = objects[i]
        BY <2>3
    <2> QED BY <1>1, <2>1, <2>2, <2>4 DEF TargetInv, Writes
<1>2. CASE /\ objects[id] = NoRow /\ objects' = NewObject(u, id)
           /\ \A i \in TargetIds : ~ObjectOf(u, i)
           /\ u \in DependentUnits => u \in hosts
    <2> DEFINE made == [unit |-> u, content |-> Fp(u), maker |-> "tool", live |-> TRUE]
    <2>1. made \in Object /\ made.unit = u /\ made.live /\ made.content = Fp(u)
        BY DEF Object
    <2>2. objects' = [objects EXCEPT ![id] = made]
        BY <1>2 DEF NewObject
    <2> HIDE DEF made
    <2>3. /\ objects'[id] = made
          /\ \A i \in TargetIds : i # id => objects'[i] = objects[i]
        BY <2>2
    <2> QED BY <1>2, <2>1, <2>3 DEF Writes
<1> QED BY <1>1, <1>2 DEF Writes

(* Other units find their objects as they were; u finds its object written. *)
LEMMA MovesKeep ==
    ASSUME objects \in [TargetIds -> Object \cup {NoRow}], TargetInv,
           NEW u \in Units, Fp(u) \in Fingerprints, Moves(u), UNCHANGED <<bundle, hosts>>
    PROVE  /\ TargetInv'
           /\ \A v \in Units, i \in TargetIds : ObjectOf(v, i) => ObjectOf(v, i)'
           /\ \A v \in Units, i \in TargetIds : v # u =>
                 /\ ObjectOf(v, i)' => ObjectOf(v, i)
                 /\ ObjectOf(v, i) => objects'[i] = objects[i]
           /\ objects' = objects \/ \A i \in TargetIds : Written(u, i)' => Current(u, i)'
<1>1. CASE objects' = objects
    BY <1>1 DEF TargetInv, ObjectOf, Written
<1>2. ASSUME NEW id \in TargetIds, Writes(u, id)
      PROVE  /\ TargetInv'
             /\ \A v \in Units, i \in TargetIds : ObjectOf(v, i) => ObjectOf(v, i)'
             /\ \A v \in Units, i \in TargetIds : v # u =>
                   /\ ObjectOf(v, i)' => ObjectOf(v, i)
                   /\ ObjectOf(v, i) => objects'[i] = objects[i]
             /\ \A i \in TargetIds : Written(u, i)' => Current(u, i)'
    <2>1. /\ objects'[id] \in Object /\ objects'[id].unit = u /\ objects'[id].live
          /\ objects'[id].content = Fp(u)
          /\ \A i \in TargetIds : i # id => objects'[i] = objects[i]
          /\ \A i \in TargetIds : ObjectOf(u, i) => i = id
          /\ objects[id] # NoRow => objects[id].unit = u
          /\ u \in DependentUnits => u \in hosts
          /\ u \notin Unattempted
        BY <1>2, WritesEffect
    <2>2. objects'[id] # NoRow
        BY <2>1, NothingAssumption
    <2>3. /\ \A v \in Units, i \in TargetIds : ObjectOf(v, i) => ObjectOf(v, i)'
          /\ \A v \in Units, i \in TargetIds : v # u =>
                /\ ObjectOf(v, i)' => ObjectOf(v, i)
                /\ ObjectOf(v, i) => objects'[i] = objects[i]
          /\ \A i \in TargetIds : ObjectOf(u, i)' => i = id
        BY <2>1, <2>2 DEF ObjectOf
    <2>4. \A v \in Units, i \in TargetIds : v # u /\ Written(v, i)' => Written(v, i)
        BY <2>3 DEF Written
    <2>5. TargetInv'
        BY <2>1, <2>3, <2>4 DEF TargetInv, Written
    <2>6. \A i \in TargetIds : Written(u, i)' => Current(u, i)'
        BY <2>1, <2>3 DEF Written, Current, Fp
    <2> QED BY <2>3, <2>5, <2>6
<1> QED BY <1>1, <1>2 DEF Moves

(* A failed call is counted. *)
LEMMA CallsAreCounted ==
    ASSUME apiFailures \in Nat, NEW u, ProcessUnit(u)
    PROVE  apiFailures' \in Nat
<1>1. /\ \A effect : CallFails(effect) => apiFailures' \in Nat
      /\ UNCHANGED target => apiFailures' \in Nat
    BY DEF CallFails, target
<1>2. \A id, status : Apply(u, id, status) => apiFailures' \in Nat
    BY <1>1 DEF Apply
<1> QED BY <1>1, <1>2 DEF ProcessUnit, OutOfScope, NotAttempted, Resume,
        CheckpointUnreadable, Unchanged, Rehearse, Update, Adopt, Create, AlreadyExists,
        CreateDeclarative, CreateNoObject, UpdateInPlace

(* What a unit is concluded with is true of the target. *)
LEMMA ConcludedIsTrue ==
    ASSUME objects \in [TargetIds -> Object \cup {NoRow}], TargetInv, UNCHANGED garbled,
           NEW u \in Units, Fp(u) \in Fingerprints, ConcludedWell(u),
           UNCHANGED <<bundle, hosts, cache>>
    PROVE  /\ Moves(u) /\ pc' = "record" /\ current'.unit = u
           /\ OutcomeInv(u, current.status, current.target)'
           /\ WillSay(u, current.status, current.target)'
           /\ current'.status = "failed" => /\ garbled' \/ NothingLost
                                            /\ objects' = objects
<1>1. PICK status \in LastActions, id \in TargetIds \cup {Blank}, saved \in BOOLEAN :
          /\ Conclude(u, status, id, saved)
          /\ \/ /\ objects' = objects
                /\ OutcomeInv(u, status, id) /\ WillSay(u, status, id)
                /\ status = "failed" => garbled \/ NothingLost
             \/ /\ Writes(u, id)
                /\ status \in {"created", "created_with_warning", "updated", "adopted"}
    BY DEF ConcludedWell
<1>2. /\ pc' = "record" /\ current'.unit = u
      /\ current'.status = status /\ current'.target = id
    BY <1>1 DEF Conclude
<1>3. CASE /\ objects' = objects
           /\ OutcomeInv(u, status, id) /\ WillSay(u, status, id)
           /\ status = "failed" => garbled \/ NothingLost
    <2>1. OutcomeInv(u, status, id)'
        BY <1>3 DEF OutcomeInv, Written, ObjectOf, Current, Fp
    <2>2. WillSay(u, status, id)'
        BY <1>3 DEF WillSay, Written, ObjectOf, LiveRow
    <2> QED BY <1>2, <1>3, <2>1, <2>2 DEF Moves
<1>4. CASE /\ Writes(u, id)
           /\ status \in {"created", "created_with_warning", "updated", "adopted"}
    <2>1. id \in TargetIds
        BY <1>4 DEF Writes
    <2>2. /\ objects'[id] \in Object /\ objects'[id].unit = u
          /\ objects'[id].content = Fp(u) /\ u \notin Unattempted
          /\ \A i \in TargetIds : i # id => objects'[i] = objects[i]
          /\ \A i \in TargetIds : ObjectOf(u, i) => i = id
        BY <1>4, <2>1, WritesEffect
    <2>3. ObjectOf(u, id)' /\ \A i \in TargetIds : ObjectOf(u, i)' => i = id
        BY <2>2, NothingAssumption DEF ObjectOf
    <2>4. Current(u, id)' /\ id # Blank
        BY <2>1, <2>2, BlankAssumption DEF Current, Fp
    <2>5. OutcomeInv(u, status, id)'
        BY <1>4, <2>1, <2>2, <2>3, <2>4 DEF OutcomeInv, Written, Unattempted
    <2>6. WillSay(u, status, id)'
        BY <2>3, <2>4 DEF WillSay, OrElse, Written
    <2> QED BY <1>2, <1>4, <2>1, <2>5, <2>6 DEF Moves
<1> QED BY <1>1, <1>3, <1>4

(* What was known of the rows and the outcomes stays true when u is written. *)
LEMMA MovesKeepOutcomes ==
    ASSUME objects \in [TargetIds -> Object \cup {NoRow}], TargetInv,
           NEW u \in Units, Fp(u) \in Fingerprints, Moves(u), UNCHANGED <<bundle, hosts>>,
           NEW v \in Units, NEW status, NEW id, OutcomeInv(v, status, id)
    PROVE  OutcomeInv(v, status, id)'
<1>1. /\ \A i \in TargetIds : ObjectOf(v, i) => ObjectOf(v, i)'
      /\ v # u => \A i \in TargetIds : /\ ObjectOf(v, i)' => ObjectOf(v, i)
                                       /\ ObjectOf(v, i) => objects'[i] = objects[i]
      /\ objects' = objects \/ \A i \in TargetIds : Written(u, i)' => Current(u, i)'
    BY MovesKeep
<1>2. ASSUME \A i \in TargetIds : Written(v, i) => Current(v, i), NEW i \in TargetIds,
             Written(v, i)'
      PROVE  Current(v, i)'
    BY <1>1, <1>2 DEF Written, ObjectOf, Current, Fp
<1> QED BY <1>1, <1>2 DEF OutcomeInv

LEMMA MovesKeepRows ==
    ASSUME objects \in [TargetIds -> Object \cup {NoRow}], TargetInv,
           NEW u \in Units, Fp(u) \in Fingerprints, Moves(u), UNCHANGED <<bundle, hosts>>
    PROVE  /\ \A v \in Units, i \in TargetIds, row \in Rows :
                 v # u /\ Written(v, i)' => /\ Written(v, i)
                                            /\ RowSays(row, i) => RowSays(row, i)'
                                            /\ Current(v, i) => Current(v, i)'
           /\ objects' = objects \/ \A i \in TargetIds : Written(u, i)' => Current(u, i)'
<1>1. /\ \A v \in Units, i \in TargetIds : v # u =>
            /\ ObjectOf(v, i)' => ObjectOf(v, i)
            /\ ObjectOf(v, i) => objects'[i] = objects[i]
      /\ objects' = objects \/ \A i \in TargetIds : Written(u, i)' => Current(u, i)'
    BY MovesKeep
<1> QED BY <1>1 DEF Written, RowSays, Current, Fp

LEMMA MovesKeepTruth ==
    ASSUME objects \in [TargetIds -> Object \cup {NoRow}], TargetInv,
           NEW u \in Units, Fp(u) \in Fingerprints, Moves(u), UNCHANGED <<bundle, hosts>>,
           NEW rows \in [Keys -> Rows], Truthful(rows)
    PROVE  \A v \in Units, i \in TargetIds :
               Written(v, i)' => RowSays(rows[<<"live", v>>], i)' \/ Current(v, i)'
<1>1. \A v \in Units : rows[<<"live", v>>] \in Rows
    BY KeysAssumption
<1>2. CASE objects' = objects
    BY <1>2 DEF Truthful, Written, ObjectOf, RowSays, Current, Fp
<1>3. CASE objects' # objects
    <2>1. ASSUME NEW v \in Units, NEW i \in TargetIds, Written(v, i)', v # u
          PROVE  RowSays(rows[<<"live", v>>], i)' \/ Current(v, i)'
        <3>1. PICK row \in Rows : row = rows[<<"live", v>>]
            BY <1>1
        <3>2. Written(v, i) /\ (RowSays(row, i) => RowSays(row, i)')
              /\ (Current(v, i) => Current(v, i)')
            BY <2>1, MovesKeepRows
        <3> QED BY <3>1, <3>2 DEF Truthful, RowSays
    <2>2. \A i \in TargetIds : Written(u, i)' => Current(u, i)'
        BY <1>3, MovesKeepRows
    <2> QED BY <2>1, <2>2
<1> QED BY <1>2, <1>3

LEMMA ConcludedKeepsHonest ==
    ASSUME FaithfulWorld, HonestIInv, OwnIInv', WorkIInv',
           NEW u \in Units, ProcessUnit(u), ConcludedWell(u)
    PROVE  HonestIInv'
<1>1. /\ pc = "units" /\ u \in todo /\ todo' = todo \ {u} /\ pc' = "record"
      /\ UNCHANGED <<table, cache, runId, checkpoint, garbled, run, existing, interrupted,
                     runStatus, bundle, bundleId, hosts, crashes, interrupts, handEdits,
                     cutShort, cpPending>>
    <2>1. Taking(u) /\ UnitFrame
        BY ProcessUnitTakes DEF HonestIInv, OwnIInv, Taken, Taking
    <2> QED BY <2>1 DEF ConcludedWell, Conclude, Taking, UnitFrame, storeVars, disk, process,
               world
<1>2. /\ TargetInv /\ Fp(u) \in Fingerprints
      /\ objects \in [TargetIds -> Object \cup {NoRow}]
      /\ table \in [Keys -> Rows] /\ cache \in [Keys -> Rows]
      /\ todo \subseteq Units /\ u \in InBundle
    <2>1. u \in InBundle /\ todo \subseteq Units
        BY <1>1 DEF HonestIInv, OwnIInv, EngineIInv, InBundle
    <2> QED BY <2>1 DEF HonestIInv, OwnIInv, EngineIInv, TypeOK, StoreTypeOK, Rows, InBundle, Fp
<1>3. /\ Moves(u) /\ current'.unit = u
      /\ OutcomeInv(u, current.status, current.target)'
      /\ WillSay(u, current.status, current.target)'
      /\ current'.status = "failed" => /\ garbled \/ NothingLost
                                       /\ objects' = objects
    BY <1>1, <1>2, ConcludedIsTrue
<1>4. TargetInv'
    BY <1>1, <1>2, <1>3, MovesKeep
<1>5. CircumstancesInv'
    BY <1>1, CallsAreCounted DEF HonestIInv, CircumstancesInv
<1>6. ListingInv'
    <2>1. \A v \in Units, i \in TargetIds : v # u /\ ObjectOf(v, i)' => ObjectOf(v, i)
        BY <1>1, <1>2, <1>3, MovesKeep
    <2> QED BY <1>1, <1>2, <2>1 DEF HonestIInv, ListingInv, InPhase
<1>7. Truthful(table)' /\ Truthful(cache)'
    BY <1>1, <1>2, <1>3, MovesKeepTruth DEF Truthful, HonestIInv, TableInv, CacheInv
<1>8. TableInv'
    BY <1>1, <1>7 DEF TableInv
<1>9. CacheInv'
    <2>1. ASSUME ~cutShort, ~interrupted, NEW v \in Units, NEW i \in TargetIds, Written(v, i)'
          PROVE  (RowSays(LiveRow(v), i) \/ InRecord(v))'
        <3>1. \A w \in TargetIds : Written(v, w) => RowSays(LiveRow(v), w)
            BY <1>1, <2>1 DEF HonestIInv, CacheInv, InRecord
        <3>2. LiveRow(v) \in Rows
            BY <1>2, KeysAssumption DEF LiveRow
        <3>3. PICK row \in Rows : row = LiveRow(v)
            BY <3>2
        <3>4. CASE v # u
            <4>1. Written(v, i) /\ (RowSays(row, i) => RowSays(row, i)')
                BY <1>1, <1>2, <1>3, <2>1, <3>4, MovesKeepRows
            <4> QED BY <1>1, <3>1, <3>3, <4>1 DEF LiveRow, RowSays
        <3>5. CASE v = u /\ current'.status # "failed"
            BY <1>1, <1>3, <3>5 DEF InRecord
        <3>6. CASE v = u /\ current'.status = "failed"
            BY <1>1, <1>3, <2>1, <3>1, <3>6 DEF Written, ObjectOf, RowSays, LiveRow
        <3> QED BY <3>4, <3>5, <3>6
    <2> QED BY <1>1, <1>7, <2>1 DEF CacheInv
<1>10. CurrentInv'
    BY <1>1, <1>2, <1>3 DEF CurrentInv, InBundle
<1>11. EntriesInv'
    <2>1. ASSUME NEW entry \in Outcome, EntryInv(entry) PROVE EntryInv(entry)'
        <3>1. entry.unit \in Units
            BY <2>1 DEF Outcome
        <3>2. OutcomeInv(entry.unit, entry.status, entry.target)'
            BY <1>1, <1>2, <1>3, <2>1, <3>1, MovesKeepOutcomes DEF EntryInv
        <3> QED BY <1>1, <2>1, <3>2 DEF EntryInv, KnownRow, LiveRow, InBundle, Fp
    <2>2. /\ checkpoint \in [Names -> Outcome \cup {NoRow}]
          /\ cpPending \in [Names -> Outcome \cup {NoRow}]
        BY DEF HonestIInv, OwnIInv, EngineIInv, TypeOK
    <2> QED BY <1>1, <2>1, <2>2 DEF HonestIInv, EntriesInv, EntriesHold
<1>12. LandedInv'
    <2>1. ASSUME OverEverything, run.selected, NEW v \in InBundle, v \notin todo
          PROVE  Landed(v)'
        <3>1. v \in Units /\ v # u /\ Landed(v)
            BY <1>1, <2>1 DEF HonestIInv, LandedInv, Unsettled, InBundle
        <3>2. /\ \A i \in TargetIds : ObjectOf(v, i) => ObjectOf(v, i)'
              /\ \A i \in TargetIds : /\ ObjectOf(v, i)' => ObjectOf(v, i)
                                      /\ ObjectOf(v, i) => objects'[i] = objects[i]
            BY <1>1, <1>2, <1>3, <3>1, MovesKeep
        <3> QED BY <1>1, <3>1, <3>2 DEF Landed, Written, ObjectOf, RowSays, Current, LiveRow, Fp
    <2> QED BY <1>1, <1>2, <1>3, <2>1 DEF LandedInv, OverEverything, Unsettled, InBundle
<1> QED BY <1>4, <1>5, <1>6, <1>8, <1>9, <1>10, <1>11, <1>12 DEF HonestIInv

(* --- steps that write neither the target nor the view -------------------------- *)

LEMMA UnwrittenKeeps ==
    ASSUME HonestIInv, UNCHANGED <<objects, bundle, hosts, cache, run, cutShort, interrupted>>,
           pc \notin {"idle", "record"}, pc' # "idle", table' \in {table, cache},
           OverEverything /\ run.selected => Unsettled \cap InBundle \subseteq Unsettled'
    PROVE  TargetInv' /\ TableInv' /\ CacheInv' /\ LandedInv'
<1>1. TargetInv'
    BY DEF HonestIInv, TargetInv, ObjectOf, Written
<1>2. /\ \A v \in Units, i \in TargetIds :
            /\ Written(v, i)' <=> Written(v, i)
            /\ Current(v, i)' <=> Current(v, i)
            /\ ObjectOf(v, i)' <=> ObjectOf(v, i)
      /\ InBundle' = InBundle
    BY DEF Written, ObjectOf, Current, Fp, InBundle
<1>3. TableInv'
    BY <1>2 DEF HonestIInv, TableInv, CacheInv, Truthful, RowSays
<1>4. CacheInv'
    BY <1>2 DEF HonestIInv, CacheInv, Truthful, RowSays, InRecord, LiveRow
<1>5. ASSUME OverEverything, run.selected, NEW v \in InBundle, v \notin Unsettled
      PROVE  Landed(v)'
    <2>1. Landed(v) /\ v \in Units
        BY <1>5 DEF HonestIInv, LandedInv, InBundle
    <2> QED BY <1>2, <2>1 DEF Landed, RowSays, LiveRow, Fp
<1>6. LandedInv'
    BY <1>2, <1>5 DEF LandedInv, OverEverything
<1> QED BY <1>1, <1>3, <1>4, <1>6

LEMMA EntryStays ==
    ASSUME UNCHANGED <<objects, bundle, bundleId>>,
           NEW entry \in Outcome, EntryInv(entry),
           NothingLost => \/ KnownRow(entry.unit)' = KnownRow(entry.unit)
                          \/ /\ KnownRow(entry.unit)' # NoRow
                             /\ KnownRow(entry.unit)'.run = bundleId
    PROVE  EntryInv(entry)'
<1>1. entry.unit \in Units
    BY DEF Outcome
<1>2. OutcomeInv(entry.unit, entry.status, entry.target)'
    BY DEF EntryInv, OutcomeInv, Written, ObjectOf, Current, Fp
<1> QED BY <1>1, <1>2 DEF EntryInv, InBundle, Fp

LEMMA EntriesStay ==
    ASSUME HonestIInv, UNCHANGED <<objects, bundle, bundleId, cache, garbled>>,
           pc # "idle", pc' # "idle"
    PROVE  /\ \A entry \in Outcome : EntryInv(entry) => EntryInv(entry)'
           /\ UNCHANGED <<checkpoint, cpPending>>
              /\ (pc' = "replay" => pc = "replay" /\ todo' \subseteq todo) => EntriesInv'
<1>1. \A entry \in Outcome : EntryInv(entry) => EntryInv(entry)'
    BY EntryStays DEF KnownRow, LiveRow
<1>2. /\ checkpoint \in [Names -> Outcome \cup {NoRow}]
      /\ cpPending \in [Names -> Outcome \cup {NoRow}]
    BY DEF HonestIInv, OwnIInv, EngineIInv, TypeOK
<1> QED BY <1>1, <1>2 DEF HonestIInv, EntriesInv, EntriesHold

LEMMA CircumstancesStay ==
    ASSUME HonestIInv, pc' # "exit",
           UNCHANGED <<crashes, interrupts, apiFailures, handEdits, interrupted, cutShort>>
    PROVE  CircumstancesInv'
BY DEF HonestIInv, CircumstancesInv

LEMMA ListHonest ==
    ASSUME FaithfulWorld, HonestIInv, OwnIInv', WorkIInv', List
    PROVE  HonestIInv'
<1>1. /\ pc = "list" /\ pc' = "units"
      /\ UNCHANGED <<table, cache, runId, checkpoint, garbled, run, interrupted, objects,
                     runStatus, bundle, bundleId, hosts, crashes, interrupts, handEdits,
                     cutShort, cpPending, todo, apiFailures>>
    BY DEF List, storeVars, target, disk, world
<1>2. todo \subseteq Units
    BY <1>1 DEF HonestIInv, OwnIInv, EngineIInv, InBundle
<1>3. ListingInv'
    <2>1. ASSUME NEW u \in todo, NEW id \in TargetIds, ObjectOf(u, id), ~ListingMayFail
          PROVE  existing'[Name(u)] = id
        <3>1. existing' \in Listings /\ u \in Units /\ Name(u) \in Names
            BY <1>2, <2>1 DEF List, Names
        <3>2. Named(Name(u)) = {u}
            BY <3>1 DEF FaithfulWorld, NamesAreUnique, Named
        <3>3. id \in LiveIds({u})
            BY <2>1 DEF HonestIInv, TargetInv, ObjectOf, LiveIds, Live
        <3>4. existing'[Name(u)] \in LiveIds({u})
            BY <3>1, <3>2, <3>3 DEF Listings
        <3> QED BY <2>1, <3>1, <3>4 DEF HonestIInv, TargetInv, LiveIds, Live, ObjectOf
    <2> QED BY <1>1, <2>1 DEF ListingInv, ObjectOf
<1>4. EntriesInv'
    BY <1>1, EntriesStay
<1>5. TargetInv' /\ TableInv' /\ CacheInv' /\ LandedInv'
    BY <1>1, UnwrittenKeeps DEF Unsettled
<1>6. CircumstancesInv'
    BY <1>1, CircumstancesStay
<1>7. CurrentInv'
    BY <1>1 DEF CurrentInv
<1> QED BY <1>3, <1>4, <1>5, <1>6, <1>7 DEF HonestIInv

LEMMA OutOfScopeHonest ==
    ASSUME FaithfulWorld, HonestIInv, OwnIInv', WorkIInv', NEW u, OutOfScope(u)
    PROVE  HonestIInv'
<1>1. /\ pc = "units" /\ pc' = "units" /\ todo' \subseteq todo /\ ~OverEverything
      /\ UNCHANGED <<table, cache, runId, checkpoint, garbled, run, interrupted, objects,
                     runStatus, bundle, bundleId, hosts, crashes, interrupts, handEdits,
                     cutShort, cpPending, apiFailures, existing, current>>
    BY DEF OutOfScope, Taking, InWorkList, OverEverything, UnitFrame, storeVars, target, disk,
           process, world
<1>2. ListingInv'
    BY <1>1 DEF HonestIInv, ListingInv, ObjectOf, InPhase
<1>3. EntriesInv'
    BY <1>1, EntriesStay
<1>4. TargetInv' /\ TableInv' /\ CacheInv' /\ LandedInv'
    BY <1>1, UnwrittenKeeps
<1>5. CircumstancesInv'
    BY <1>1, CircumstancesStay
<1>6. CurrentInv'
    BY <1>1 DEF CurrentInv
<1> QED BY <1>2, <1>3, <1>4, <1>5, <1>6 DEF HonestIInv

(* The ends of the replay, of the deferral and of the phase. *)
LEMMA FlushHonest ==
    ASSUME FaithfulWorld, HonestIInv, OwnIInv', WorkIInv',
           ReplayDone \/ DeferDone \/ FlushPhase \/ MissingDone
    PROVE  HonestIInv'
<1>1. /\ Flush \/ UNCHANGED storeVars
      /\ pc \in {"replay", "defer", "flush", "missing"}
      /\ pc' \in {"list", "defer", "missing", "final"}
      /\ UNCHANGED <<checkpoint, garbled, run, interrupted, objects, runStatus, bundle,
                     bundleId, hosts, crashes, interrupts, handEdits, cutShort, cpPending,
                     apiFailures>>
    BY DEF ReplayDone, DeferDone, FlushPhase, MissingDone, target, disk, process, world
<1>2. UNCHANGED cache /\ table' \in {table, cache}
    BY <1>1, FlushIInv DEF Flush, storeVars, HonestIInv, OwnIInv, EngineIInv
<1>3. OverEverything /\ run.selected => Unsettled \cap InBundle \subseteq Unsettled'
    <2>1. CASE ReplayDone
        <3>1. todo' = InBundle /\ pc' \in {"list", "defer"}
            BY <2>1 DEF ReplayDone
        <3> QED BY <3>1 DEF Unsettled
    <2>2. CASE DeferDone
        BY <2>2 DEF DeferDone, HonestIInv, WorkIInv
    <2>3. CASE FlushPhase \/ MissingDone
        BY <2>3 DEF FlushPhase, MissingDone, Unsettled
    <2> QED BY <2>1, <2>2, <2>3
<1>4. TargetInv' /\ TableInv' /\ CacheInv' /\ LandedInv'
    BY <1>1, <1>2, <1>3, UnwrittenKeeps
<1>5. EntriesInv'
    BY <1>1, <1>2, EntriesStay
<1>6. CircumstancesInv'
    BY <1>1, CircumstancesStay
<1>7. ListingInv' /\ CurrentInv'
    BY <1>1 DEF ListingInv, CurrentInv, InPhase
<1> QED BY <1>4, <1>5, <1>6, <1>7 DEF HonestIInv

LEMMA FinalFlushHonest ==
    ASSUME FaithfulWorld, HonestIInv, OwnIInv', WorkIInv', FinalFlush,
           DiskMayFail \/ ~flushFailed'
    PROVE  HonestIInv'
<1>1. /\ Flush /\ pc = "final" /\ pc' = "exit"
      /\ runStatus' = IF flushFailed' THEN "completed_state_not_saved" ELSE "completed"
      /\ UNCHANGED <<checkpoint, garbled, run, interrupted, objects, bundle,
                     bundleId, hosts, crashes, interrupts, handEdits, cutShort, cpPending,
                     apiFailures, cache>>
    BY DEF FinalFlush, Flush, target, disk, world
<1>2. table' \in {table, cache} /\ (~flushFailed' => table' = cache)
    BY <1>1, FlushIInv DEF HonestIInv, OwnIInv, EngineIInv
<1>3. TargetInv' /\ TableInv' /\ CacheInv' /\ LandedInv'
    BY <1>1, <1>2, UnwrittenKeeps DEF Unsettled
<1>4. EntriesInv'
    BY <1>1, EntriesStay
<1>5. CircumstancesInv'
    BY <1>1, <1>2 DEF HonestIInv, CircumstancesInv, NothingLost
<1>6. ListingInv' /\ CurrentInv'
    BY <1>1 DEF ListingInv, CurrentInv, InPhase
<1> QED BY <1>3, <1>4, <1>5, <1>6 DEF HonestIInv

LEMMA WritingKeepsEntries ==
    ASSUME checkpoint \in [Names -> Outcome \cup {NoRow}],
           NEW batch \in [Names -> Outcome \cup {NoRow}],
           \A entry \in Outcome : EntryInv(entry) => EntryInv(entry)',
           EntriesHold(checkpoint), EntriesHold(batch), WriteCheckpoint(batch)
    PROVE  EntriesHold(checkpoint)' /\ EntriesHold(cpPending)'
<1>1. checkpoint' \in {checkpoint, Overlay(checkpoint, batch)} /\ cpPending' = NoOutcomes
    BY DEF WriteCheckpoint
<1>2. \A n \in Names : checkpoint'[n] \in {checkpoint[n], batch[n]}
    BY <1>1 DEF Overlay
<1> QED BY <1>1, <1>2 DEF EntriesHold, NoOutcomes

LEMMA RecordCheckpointHonest ==
    ASSUME FaithfulWorld, HonestIInv, OwnIInv', WorkIInv', RecordCheckpoint
    PROVE  HonestIInv'
<1>1. /\ pc = "checkpoint" /\ pc' = "units"
      /\ UNCHANGED <<table, cache, runId, garbled, run, interrupted, objects,
                     runStatus, bundle, bundleId, hosts, crashes, interrupts, handEdits,
                     cutShort, apiFailures, existing, todo>>
    BY DEF RecordCheckpoint, WriteCheckpoint, storeVars, target, disk, process, world
<1>2. /\ checkpoint \in [Names -> Outcome \cup {NoRow}]
      /\ cpPending \in [Names -> Outcome \cup {NoRow}]
      /\ current \in Conclusion
    BY <1>1 DEF HonestIInv, OwnIInv, EngineIInv, TypeOK
<1> PICK u \in Units : u = current.unit
    BY <1>2 DEF Conclusion
<1> DEFINE entry == [unit |-> current.unit, status |-> current.status,
                     target |-> current.target, fp |-> Fp(current.unit)]
<1> DEFINE batch == [cpPending EXCEPT ![Name(current.unit)] = entry]
<1>3. entry \in Outcome /\ Name(current.unit) \in Names
    BY <1>2, EntryIsAnOutcome DEF HonestIInv, OwnIInv
<1>4. ~garbled => EntryInv(entry)
    <2>1. /\ entry.unit = current.unit /\ entry.status = current.status
          /\ entry.target = current.target /\ entry.fp = Fp(current.unit)
        OBVIOUS
    <2> HIDE DEF entry
    <2> QED BY <1>1, <2>1 DEF HonestIInv, CurrentInv, EntryInv, KnownRow
<1>5. WriteCheckpoint(batch) \/ (cpPending' = batch /\ UNCHANGED checkpoint)
    BY DEF RecordCheckpoint, disk
<1> HIDE DEF entry
<1>6. batch \in [Names -> Outcome \cup {NoRow}]
    BY <1>2, <1>3
<1>7. ~garbled => EntriesHold(checkpoint) /\ EntriesHold(cpPending) /\ EntriesHold(batch)
    BY <1>2, <1>3, <1>4 DEF HonestIInv, EntriesInv, EntriesHold
<1>8. \A e \in Outcome : EntryInv(e) => EntryInv(e)'
    BY <1>1, EntriesStay
<1> HIDE DEF batch
<1>9. EntriesInv'
    <2>1. ~garbled => (EntriesHold(checkpoint) /\ EntriesHold(cpPending))'
        <3>1. CASE WriteCheckpoint(batch)
            BY <1>2, <1>6, <1>7, <1>8, <3>1, WritingKeepsEntries
        <3>2. CASE cpPending' = batch /\ UNCHANGED checkpoint
            BY <1>2, <1>6, <1>7, <1>8, <3>2 DEF EntriesHold
        <3> QED BY <1>5, <3>1, <3>2
    <2> QED BY <1>1, <2>1 DEF EntriesInv
<1>10. TargetInv' /\ TableInv' /\ CacheInv' /\ LandedInv'
    BY <1>1, UnwrittenKeeps DEF Unsettled
<1>11. CircumstancesInv'
    BY <1>1, CircumstancesStay
<1>12. ListingInv' /\ CurrentInv'
    BY <1>1 DEF HonestIInv, ListingInv, CurrentInv, InPhase, ObjectOf
<1> QED BY <1>9, <1>10, <1>11, <1>12 DEF HonestIInv

LEMMA FlushCheckpointHonest ==
    ASSUME FaithfulWorld, HonestIInv, OwnIInv', WorkIInv', FlushCheckpoint
    PROVE  HonestIInv'
<1>1. /\ pc = "units" /\ pc' = "flush" /\ (OverEverything => todo = {})
      /\ WriteCheckpoint(cpPending) \/ UNCHANGED <<cpPending, checkpoint>>
      /\ UNCHANGED <<table, cache, runId, garbled, run, interrupted, objects,
                     runStatus, bundle, bundleId, hosts, crashes, interrupts, handEdits,
                     cutShort, apiFailures>>
    BY DEF FlushCheckpoint, PhaseOver, WriteCheckpoint, OverEverything, storeVars, target,
           disk, process, world
<1>2. /\ checkpoint \in [Names -> Outcome \cup {NoRow}]
      /\ cpPending \in [Names -> Outcome \cup {NoRow}]
    BY DEF HonestIInv, OwnIInv, EngineIInv, TypeOK
<1>3. \A e \in Outcome : EntryInv(e) => EntryInv(e)'
    BY <1>1, EntriesStay
<1>4. EntriesInv'
    <2>1. CASE WriteCheckpoint(cpPending)
        BY <1>1, <1>2, <1>3, <2>1, WritingKeepsEntries DEF HonestIInv, EntriesInv
    <2>2. CASE UNCHANGED <<cpPending, checkpoint>>
        BY <1>1, <2>2, EntriesStay
    <2> QED BY <1>1, <2>1, <2>2
<1>5. TargetInv' /\ TableInv' /\ CacheInv' /\ LandedInv'
    BY <1>1, UnwrittenKeeps DEF Unsettled
<1>6. CircumstancesInv'
    BY <1>1, CircumstancesStay
<1>7. ListingInv' /\ CurrentInv'
    BY <1>1 DEF ListingInv, CurrentInv, InPhase
<1> QED BY <1>4, <1>5, <1>6, <1>7 DEF HonestIInv

(* --- steps that record ------------------------------------------------------------ *)

(* record() in a live run: one row is written, and the table takes the new view or
   stays behind.                                                               *)
LEMMA RecordedRow ==
    ASSUME FaithfulWorld, HonestIInv, pc # "idle", NEW u \in Units,
           NEW action \in LastActions, NEW fp \in Fingerprints \cup {Blank},
           NEW id \in TargetIds \cup {Blank}, Record(StateKey(u), action, fp, id)
    PROVE  /\ LiveRow(u)' # NoRow
           /\ LiveRow(u)'.target = OrElse(id, TargetOf(LiveRow(u)))
           /\ LiveRow(u)'.fp = OrElse(fp, FingerprintOf(LiveRow(u)))
           /\ LiveRow(u)'.action = action /\ LiveRow(u)'.run = bundleId
           /\ \A v \in Units : v # u => LiveRow(v)' = LiveRow(v)
           /\ table' \in {table, cache'} /\ runId' = runId
<1>1. run.mode = "live" /\ StateKey(u) = <<"live", u>> /\ <<"live", u>> \in Keys
    BY LiveKeys DEF HonestIInv, OwnIInv, EngineIInv, TypeOK
<1>2. cache \in [Keys -> Rows] /\ runId \in RunIds /\ runId = bundleId
    BY DEF HonestIInv, OwnIInv, WorkIInv, EngineIInv, TypeOK, StoreTypeOK, Rows
<1> DEFINE row == CarryForward(LiveRow(u), action, fp, id, runId)
<1>3. LiveRow(u) \in Rows
    BY <1>1, <1>2 DEF LiveRow
<1>4. row \in Row
    BY <1>2, <1>3, CarryForwardKeeps
<1>5. /\ row # NoRow /\ row.action = action /\ row.run = bundleId
      /\ row.target = OrElse(id, TargetOf(LiveRow(u)))
      /\ row.fp = OrElse(fp, FingerprintOf(LiveRow(u)))
    BY <1>2, <1>4, NoRowIsNoRow DEF CarryForward
<1>6. cache' = [cache EXCEPT ![<<"live", u>>] = row] /\ runId' = runId
    BY <1>1 DEF Record, LiveRow
<1> HIDE DEF row
<1>7. LiveRow(u)' = row /\ \A v \in Units : v # u => LiveRow(v)' = LiveRow(v)
    BY <1>1, <1>2, <1>6, KeysAssumption DEF LiveRow
<1>8. table' \in {table, cache'}
    BY <1>1, RecordIInv DEF HonestIInv, OwnIInv, EngineIInv
<1> QED BY <1>5, <1>6, <1>7, <1>8

(* A row that said what is there says it still. *)
StillSays(u) ==
    \A i \in TargetIds : Written(u, i) /\ RowSays(LiveRow(u), i) => RowSays(LiveRow(u), i)'

LEMMA RecordingKeeps ==
    ASSUME FaithfulWorld, HonestIInv, NEW u \in Units, StillSays(u),
           UNCHANGED <<objects, bundle, bundleId, hosts, run, garbled, checkpoint, cpPending,
                       crashes, interrupts, apiFailures, handEdits, interrupted, cutShort>>,
           pc # "idle", pc' \notin {"idle", "exit", "record"},
           pc' = "replay" => pc = "replay" /\ todo' \subseteq todo,
           \A v \in Units : v # u => LiveRow(v)' = LiveRow(v),
           table' \in {table, cache'},
           LiveRow(u)' # NoRow /\ LiveRow(u)'.run = bundleId,
           \A i \in TargetIds : ~InRecord(u) \/ ~Written(u, i) \/ RowSays(LiveRow(u), i)',
           \A v \in Units : InRecord(v) => v = u
    PROVE  /\ TargetInv' /\ CircumstancesInv' /\ TableInv' /\ CacheInv' /\ EntriesInv'
           /\ \A v \in Units : v # u /\ Landed(v) => Landed(v)'
<1>1. TargetInv'
    BY DEF HonestIInv, TargetInv, ObjectOf, Written
<1>2. CircumstancesInv'
    BY CircumstancesStay
<1>3. \A v \in Units, i \in TargetIds :
          /\ Written(v, i)' <=> Written(v, i)
          /\ Current(v, i)' <=> Current(v, i)
          /\ ObjectOf(v, i)' <=> ObjectOf(v, i)
    BY DEF Written, ObjectOf, Current, Fp
<1>4. \A v \in Units, i \in TargetIds :
          Written(v, i) /\ RowSays(LiveRow(v), i) => RowSays(LiveRow(v), i)'
    BY DEF StillSays, RowSays
<1>5. Truthful(cache)'
    BY <1>3, <1>4 DEF HonestIInv, CacheInv, Truthful, LiveRow
<1>6. TableInv'
    <2>1. Truthful(table)'
        BY <1>3, <1>5 DEF HonestIInv, TableInv, Truthful, RowSays
    <2> QED BY <2>1 DEF TableInv
<1>7. CacheInv'
    BY <1>3, <1>4, <1>5 DEF HonestIInv, CacheInv
<1>8. EntriesInv'
    <2>1. ASSUME NEW entry \in Outcome, EntryInv(entry) PROVE EntryInv(entry)'
        <3>1. entry.unit \in Units
            BY <2>1 DEF Outcome
        <3> QED BY <2>1, <3>1, EntryStays DEF KnownRow
    <2>2. /\ checkpoint \in [Names -> Outcome \cup {NoRow}]
          /\ cpPending \in [Names -> Outcome \cup {NoRow}]
        BY DEF HonestIInv, OwnIInv, EngineIInv, TypeOK
    <2> QED BY <2>1, <2>2 DEF HonestIInv, EntriesInv, EntriesHold
<1>9. \A v \in Units : v # u /\ Landed(v) => Landed(v)'
    BY <1>3 DEF Landed, RowSays, Fp
<1> QED BY <1>1, <1>2, <1>6, <1>7, <1>8, <1>9

(* The ids a unit is concluded with are its own: they name its only object. *)
LEMMA OwnIdIsTheOne ==
    ASSUME TargetInv, NEW u \in Units, NEW id, Owned(objects, u, id),
           NEW i \in TargetIds, Written(u, i)
    PROVE  id \in {Blank, i}
BY DEF TargetInv, Owned, ObjectOf, Written

LEMMA RecordStateHonest ==
    ASSUME FaithfulWorld, HonestIInv, OwnIInv', WorkIInv', RecordState
    PROVE  HonestIInv'
<1>1. /\ pc = "record" /\ pc' \in {"checkpoint", "units"}
      /\ pc' = "checkpoint" => current' = current
      /\ UNCHANGED <<checkpoint, garbled, run, interrupted, objects, runStatus, bundle,
                     bundleId, hosts, crashes, interrupts, handEdits, cutShort, cpPending,
                     apiFailures, existing, todo>>
    BY DEF RecordState, target, disk, process, world
<1>2. current \in Conclusion
    BY <1>1 DEF HonestIInv, OwnIInv, EngineIInv
<1> PICK u \in Units : u = current.unit
    BY <1>2 DEF Conclusion
<1> DEFINE status == current.status
<1> DEFINE id == current.target
<1>3. status \in LastActions /\ id \in TargetIds \cup {Blank}
    BY <1>2 DEF Conclusion
<1>4. /\ u \in InBundle /\ OutcomeInv(u, status, id) /\ WillSay(u, status, id)
      /\ status = "failed" => garbled \/ NothingLost
    BY <1>1 DEF HonestIInv, CurrentInv
<1>5. Fp(u) \in Fingerprints
    BY <1>4 DEF InBundle, Fp, HonestIInv, OwnIInv, EngineIInv, TypeOK
<1>6. Owned(objects, u, id)
    BY <1>2, NothingAssumption DEF HonestIInv, OwnIInv, CurrentOwns, NoOutcome
<1> DEFINE fp == IF status = "failed" THEN Blank ELSE Fp(u)
<1>7. /\ LiveRow(u)' # NoRow
      /\ LiveRow(u)'.target = OrElse(id, TargetOf(LiveRow(u)))
      /\ LiveRow(u)'.fp = OrElse(fp, FingerprintOf(LiveRow(u)))
      /\ LiveRow(u)'.action = status /\ LiveRow(u)'.run = bundleId
      /\ \A v \in Units : v # u => LiveRow(v)' = LiveRow(v)
      /\ table' \in {table, cache'}
    BY <1>1, <1>3, <1>5, RecordedRow DEF RecordState
<1>8. ASSUME status # "failed", NEW i \in TargetIds, Written(u, i)
      PROVE  RowSays(LiveRow(u), i)' /\ Current(u, i)
    <2>1. Current(u, i) /\ OrElse(id, TargetOf(LiveRow(u))) = i /\ status # "not_selected"
        BY <1>4, <1>8 DEF OutcomeInv, WillSay
    <2>2. LiveRow(u)'.fp = Fp(u)
        BY <1>5, <1>7, <1>8, BlankAssumption DEF OrElse
    <2> QED BY <1>1, <1>7, <2>1, <2>2 DEF RowSays, Current
<1>9. ASSUME status = "failed", NEW i \in TargetIds, Written(u, i), RowSays(LiveRow(u), i)
      PROVE  RowSays(LiveRow(u), i)'
    <2>1. id \in {Blank, i}
        BY <1>6, <1>9, OwnIdIsTheOne DEF HonestIInv
    <2>2. LiveRow(u)'.target = i
        BY <1>7, <1>9, <2>1 DEF OrElse, TargetOf, RowSays
    <2>3. LiveRow(u)'.fp = objects[i].content
        BY <1>7, <1>9 DEF OrElse, FingerprintOf, RowSays
    <2> QED BY <1>1, <1>7, <1>9, <2>2, <2>3 DEF RowSays
<1>10. StillSays(u)
    BY <1>8, <1>9 DEF StillSays
<1>11. /\ TargetInv' /\ CircumstancesInv' /\ TableInv' /\ CacheInv' /\ EntriesInv'
       /\ \A v \in Units : v # u /\ Landed(v) => Landed(v)'
    BY <1>1, <1>7, <1>8, <1>10, RecordingKeeps DEF InRecord
<1>12. LandedInv'
    <2>1. ASSUME OverEverything, run.selected, NEW v \in InBundle, v \notin todo, v # u
          PROVE  Landed(v)'
        BY <1>1, <1>11, <2>1 DEF HonestIInv, LandedInv, Unsettled, InBundle
    <2>2. Landed(u)'
        <3>1. ASSUME status # "failed", NEW i \in TargetIds, Written(u, i)'
              PROVE  RowSays(LiveRow(u), i)' /\ Current(u, i)'
            BY <1>1, <1>8, <3>1 DEF Written, ObjectOf, Current, Fp
        <3>2. ASSUME status \in Succeeded, u \notin SkippedUnits
              PROVE  /\ LiveRow(u)'.fp = Fp(u)' /\ u \notin ManualUnits
                     /\ \E i \in TargetIds : ObjectOf(u, i)'
            <4>1. status \notin {"failed", "skipped_no_object"} /\ u \notin Unattempted
                BY <1>4, <3>2 DEF OutcomeInv, Succeeded, Unattempted
            <4>2. LiveRow(u)'.fp = Fp(u)
                BY <1>5, <1>7, <4>1, BlankAssumption DEF OrElse
            <4> QED BY <1>1, <1>4, <4>1, <4>2 DEF OutcomeInv, ObjectOf, Fp, Unattempted
        <3> QED BY <1>7, <3>1, <3>2 DEF Landed
    <2> QED BY <1>1, <2>1, <2>2 DEF LandedInv, OverEverything, Unsettled, InBundle
<1>13. CurrentInv'
    <2>1. ASSUME pc' = "checkpoint" PROVE OutcomeInv(u, current.status, current.target)'
        BY <1>1, <1>4, <2>1 DEF OutcomeInv, Written, ObjectOf, Current, Fp
    <2> QED BY <1>1, <1>4, <1>7, <2>1 DEF CurrentInv, InBundle
<1>14. ListingInv'
    BY <1>1 DEF HonestIInv, ListingInv, InPhase, ObjectOf
<1> QED BY <1>11, <1>12, <1>13, <1>14 DEF HonestIInv

(* A replayed outcome is no failure: those are replayed after a crash only. *)
LEMMA ReplayHonest ==
    ASSUME FaithfulWorld, HonestIInv, OwnIInv', WorkIInv', NEW n \in Names, Replay(n)
    PROVE  HonestIInv'
<1> DEFINE entry == checkpoint[n]
<1>1. /\ pc = "replay" /\ pc' = "replay" /\ todo' \subseteq todo /\ n \in todo
      /\ UNCHANGED <<checkpoint, garbled, run, interrupted, objects, runStatus, bundle,
                     bundleId, hosts, crashes, interrupts, handEdits, cutShort, cpPending,
                     apiFailures>>
    BY DEF Replay, target, disk, process, world
<1>2. entry # NoRow /\ ~garbled /\ entry \in Outcome
    BY <1>1 DEF HonestIInv, EntriesInv, OwnIInv, EngineIInv, TypeOK
<1>3. EntryInv(entry) /\ Owned(objects, entry.unit, entry.target)
    BY <1>2 DEF HonestIInv, EntriesInv, EntriesHold, OwnIInv, OutcomesOwn
<1>4. /\ entry.unit \in Units /\ entry.status \in LastActions
      /\ entry.target \in TargetIds \cup {Blank} /\ entry.fp \in Fingerprints \cup {Blank}
    BY <1>2 DEF Outcome
<1>5. /\ \/ UNCHANGED storeVars
         \/ /\ cache[StateKey(entry.unit)] = NoRow \/ cache[StateKey(entry.unit)].run # runId
            /\ Record(StateKey(entry.unit), entry.status, entry.fp, entry.target)
    BY DEF Replay
<1> HIDE DEF entry
<1> PICK u \in Units : u = entry.unit
    BY <1>4
<1>6. StateKey(u) = <<"live", u>> /\ runId = bundleId
    BY <1>1, LiveKeys DEF HonestIInv, WorkIInv, OwnIInv, EngineIInv, TypeOK
<1>7. ListingInv' /\ CurrentInv' /\ LandedInv'
    BY <1>1 DEF ListingInv, CurrentInv, InPhase, LandedInv, Unsettled
<1>8. CASE UNCHANGED storeVars
    <2>1. UNCHANGED <<cache, table>>
        BY <1>8 DEF storeVars
    <2>2. TargetInv' /\ TableInv' /\ CacheInv'
        BY <1>1, <2>1, UnwrittenKeeps DEF Unsettled, InBundle
    <2>3. EntriesInv' /\ CircumstancesInv'
        BY <1>1, <2>1, EntriesStay, CircumstancesStay
    <2> QED BY <1>7, <2>2, <2>3 DEF HonestIInv
<1>9. CASE /\ LiveRow(u) = NoRow \/ LiveRow(u).run # bundleId
           /\ Record(StateKey(u), entry.status, entry.fp, entry.target)
    <2>1. /\ LiveRow(u)' # NoRow
          /\ LiveRow(u)'.target = OrElse(entry.target, TargetOf(LiveRow(u)))
          /\ LiveRow(u)'.fp = OrElse(entry.fp, FingerprintOf(LiveRow(u)))
          /\ LiveRow(u)'.action = entry.status /\ LiveRow(u)'.run = bundleId
          /\ \A v \in Units : v # u => LiveRow(v)' = LiveRow(v)
          /\ table' \in {table, cache'}
        BY <1>1, <1>4, <1>9, RecordedRow
    <2>2. entry.status # "failed"
        BY <1>1, <1>3, <1>9 DEF EntryInv, KnownRow
    <2>3. /\ OutcomeInv(u, entry.status, entry.target)
          /\ entry.fp = Fp(u) /\ u \in InBundle
        BY <1>3 DEF EntryInv
    <2>4. ASSUME NEW i \in TargetIds, Written(u, i), RowSays(LiveRow(u), i)
          PROVE  RowSays(LiveRow(u), i)'
        <3>1. Current(u, i) /\ entry.status # "not_selected"
            BY <2>2, <2>3, <2>4 DEF OutcomeInv
        <3>2. entry.target \in {Blank, i}
            BY <1>3, <2>4, OwnIdIsTheOne DEF HonestIInv
        <3>3. LiveRow(u)'.target = i
            BY <2>1, <2>4, <3>2 DEF OrElse, TargetOf, RowSays
        <3>4. LiveRow(u)'.fp = objects[i].content
            BY <2>1, <2>3, <3>1 DEF OrElse, InBundle, Current, Fp
        <3> QED BY <1>1, <2>1, <3>1, <3>3, <3>4 DEF RowSays
    <2>5. TargetInv' /\ CircumstancesInv' /\ TableInv' /\ CacheInv' /\ EntriesInv'
        BY <1>1, <2>1, <2>4, RecordingKeeps DEF InRecord, StillSays
    <2> QED BY <1>7, <2>5 DEF HonestIInv
<1> QED BY <1>5, <1>6, <1>8, <1>9 DEF LiveRow

(* A deferral is recorded only where there is nothing to forget. *)
LEMMA DeferHonest ==
    ASSUME FaithfulWorld, HonestIInv, OwnIInv', WorkIInv', NEW u \in Units, Defer(u)
    PROVE  HonestIInv'
<1>1. /\ pc = "defer" /\ pc' = "defer" /\ ~run.selected
      /\ UNCHANGED <<checkpoint, garbled, run, interrupted, objects, runStatus, bundle,
                     bundleId, hosts, crashes, interrupts, handEdits, cutShort, cpPending,
                     apiFailures>>
    BY DEF Defer, target, disk, process, world, HonestIInv, WorkIInv
<1>2. StateKey(u) = <<"live", u>> /\ Fp(u) \in Fingerprints \cup {Blank}
    BY LiveKeys DEF HonestIInv, OwnIInv, EngineIInv, TypeOK, Fp
<1>3. ListingInv' /\ CurrentInv' /\ LandedInv'
    BY <1>1 DEF ListingInv, CurrentInv, InPhase, LandedInv
<1>4. CASE UNCHANGED storeVars
    <2>1. UNCHANGED <<cache, table>>
        BY <1>4 DEF storeVars
    <2>2. TargetInv' /\ TableInv' /\ CacheInv'
        BY <1>1, <2>1, UnwrittenKeeps
    <2>3. EntriesInv' /\ CircumstancesInv'
        BY <1>1, <2>1, EntriesStay, CircumstancesStay
    <2> QED BY <1>3, <2>2, <2>3 DEF HonestIInv
<1>5. CASE /\ LiveRow(u) = NoRow \/ LiveRow(u).action = "not_selected"
           /\ Record(StateKey(u), "not_selected", Fp(u), Blank)
    <2>1. /\ LiveRow(u)' # NoRow /\ LiveRow(u)'.run = bundleId
          /\ \A v \in Units : v # u => LiveRow(v)' = LiveRow(v)
          /\ table' \in {table, cache'}
        <3>1. "not_selected" \in LastActions
            BY DEF LastActions
        <3> QED BY <1>1, <1>2, <1>5, <3>1, RecordedRow
    <2>2. StillSays(u)
        BY <1>5 DEF StillSays, RowSays
    <2>3. TargetInv' /\ CircumstancesInv' /\ TableInv' /\ CacheInv' /\ EntriesInv'
        BY <1>1, <2>1, <2>2, RecordingKeeps DEF InRecord
    <2> QED BY <1>3, <2>3 DEF HonestIInv
<1> QED BY <1>2, <1>4, <1>5 DEF Defer, LiveRow

LEMMA MarkMissingHonest ==
    ASSUME FaithfulWorld, HonestIInv, OwnIInv', WorkIInv', NEW u \in Units, MarkMissing(u)
    PROVE  HonestIInv'
<1>1. /\ pc = "missing" /\ pc' = "missing" /\ u \notin InBundle
      /\ UNCHANGED <<checkpoint, garbled, run, interrupted, objects, runStatus, bundle,
                     bundleId, hosts, crashes, interrupts, handEdits, cutShort, cpPending,
                     apiFailures>>
    BY DEF MarkMissing, target, disk, process, world, HonestIInv, WorkIInv
<1>2. ListingInv' /\ CurrentInv'
    BY <1>1 DEF ListingInv, CurrentInv, InPhase
<1>3. CASE UNCHANGED storeVars
    <2>1. UNCHANGED <<cache, table>>
        BY <1>3 DEF storeVars
    <2>2. TargetInv' /\ TableInv' /\ CacheInv' /\ LandedInv'
        BY <1>1, <2>1, UnwrittenKeeps DEF Unsettled
    <2>3. EntriesInv' /\ CircumstancesInv'
        BY <1>1, <2>1, EntriesStay, CircumstancesStay
    <2> QED BY <1>2, <2>2, <2>3 DEF HonestIInv
<1>4. CASE Record(StateKey(u), "deleted_in_source", Blank, Blank)
    <2>1. /\ LiveRow(u)' # NoRow /\ LiveRow(u)'.run = bundleId
          /\ LiveRow(u)'.target = TargetOf(LiveRow(u))
          /\ LiveRow(u)'.fp = FingerprintOf(LiveRow(u))
          /\ LiveRow(u)'.action = "deleted_in_source"
          /\ \A v \in Units : v # u => LiveRow(v)' = LiveRow(v)
          /\ table' \in {table, cache'}
        <3>1. "deleted_in_source" \in LastActions
            BY DEF LastActions
        <3> QED BY <1>1, <1>4, <3>1, RecordedRow DEF OrElse
    <2>2. StillSays(u)
        BY <1>1, <2>1 DEF StillSays, RowSays, TargetOf, FingerprintOf
    <2>3. /\ TargetInv' /\ CircumstancesInv' /\ TableInv' /\ CacheInv' /\ EntriesInv'
          /\ \A v \in Units : v # u /\ Landed(v) => Landed(v)'
        BY <1>1, <2>1, <2>2, RecordingKeeps DEF InRecord
    <2>4. LandedInv'
        BY <1>1, <2>3 DEF HonestIInv, LandedInv, OverEverything, Unsettled, InBundle
    <2> QED BY <1>2, <2>3, <2>4 DEF HonestIInv
<1> QED BY <1>3, <1>4 DEF MarkMissing

(* --- the ends of a run, and what happens between runs -------------------------- *)

(* No process runs: the rows of the table are all that is known. *)
LEMMA IdleHonest ==
    ASSUME HonestIInv, OwnIInv', WorkIInv', UNCHANGED objects, hosts \subseteq hosts',
           pc' = "idle", CircumstancesInv', TableInv', EntriesInv'
    PROVE  HonestIInv'
<1>1. TargetInv'
    BY DEF HonestIInv, TargetInv, ObjectOf, Written
<1>2. ListingInv' /\ CacheInv' /\ CurrentInv' /\ (Unsettled = InBundle)'
    BY DEF ListingInv, CacheInv, CurrentInv, InPhase, Unsettled
<1>3. LandedInv'
    BY <1>2 DEF LandedInv
<1> QED BY <1>1, <1>2, <1>3 DEF HonestIInv

(* A run whose end leaves nothing cut short has brought every row up to date. *)
LEMMA ExitHonest ==
    ASSUME FaithfulWorld, HonestIInv, OwnIInv', WorkIInv', Exit
    PROVE  HonestIInv'
<1>1. /\ pc = "exit" /\ pc' = "idle" /\ cpPending' = NoOutcomes /\ interrupted' = FALSE
      /\ cutShort' = IF interrupted \/ runStatus # "completed" THEN CutShort
                     ELSE cutShort /\ ~(FullRun /\ NothingFailed)
      /\ UNCHANGED <<table, checkpoint, garbled, objects, bundle, bundleId, hosts, crashes,
                     interrupts, handEdits, apiFailures>>
    BY DEF Exit, ForgetProcess, Stop, target, disk
<1>2. run.mode = "live" /\ \A v \in Units : StateKey(v) = <<"live", v>>
    BY DEF FaithfulWorld, StateKey, HonestIInv, OwnIInv, EngineIInv, TypeOK
<1>3. runStatus = "completed" => table = cache
    BY <1>1 DEF HonestIInv, CircumstancesInv
<1>4. CircumstancesInv'
    BY <1>1 DEF HonestIInv, CircumstancesInv, Uninterrupted
<1>5. ASSUME ~cutShort', NEW u \in Units, NEW i \in TargetIds, Written(u, i)
      PROVE  RowSays(table[<<"live", u>>], i)
    <2>1. ~interrupted /\ runStatus = "completed" /\ table = cache
        BY <1>1, <1>2, <1>3, <1>5 DEF CutShort
    <2>2. ~cutShort \/ (FullRun /\ NothingFailed)
        BY <1>1, <1>5, <2>1 DEF HonestIInv, OwnIInv, EngineIInv, TypeOK
    <2>3. CASE ~cutShort
        BY <1>1, <1>5, <2>1, <2>3 DEF HonestIInv, CacheInv, InRecord, LiveRow
    <2>4. CASE FullRun /\ NothingFailed /\ u \in InBundle
        <3>1. Landed(u)
            BY <1>1, <2>1, <2>4
            DEF HonestIInv, LandedInv, OverEverything, FullRun, Unsettled
        <3>2. LiveRow(u).action # "failed"
            BY <1>2, <2>4 DEF NothingFailed, LiveRow
        <3> QED BY <1>5, <2>1, <3>1, <3>2 DEF Landed, LiveRow
    <2>5. CASE u \notin InBundle
        <3>1. objects[i] \in Object /\ objects[i].content # ByHand
            BY <1>5 DEF Written, ObjectOf, HonestIInv, OwnIInv, EngineIInv, TypeOK
        <3>2. objects[i].content # Blank
            BY <3>1, BlankAssumption DEF Object
        <3>3. ~Current(u, i)
            BY <2>5, <3>2 DEF Current, InBundle, Fp
        <3> QED BY <1>5, <3>3 DEF HonestIInv, TableInv, Truthful
    <2> QED BY <2>2, <2>3, <2>4, <2>5
<1>6. TableInv'
    <2>1. Truthful(table)'
        BY <1>1 DEF HonestIInv, TableInv, Truthful, Written, ObjectOf, RowSays, Current, Fp
    <2>2. ~cutShort' => Exact(table)'
        BY <1>1, <1>5 DEF Exact, Written, ObjectOf, RowSays
    <2> QED BY <2>1, <2>2 DEF TableInv
<1>7. EntriesInv'
    <2>1. ASSUME NEW entry \in Outcome, EntryInv(entry) PROVE EntryInv(entry)'
        <3>1. NothingLost => KnownRow(entry.unit)' = KnownRow(entry.unit)
            BY <1>1, <1>3 DEF HonestIInv, CircumstancesInv, KnownRow, LiveRow
        <3> QED BY <1>1, <2>1, <3>1, EntryStays
    <2>2. checkpoint \in [Names -> Outcome \cup {NoRow}]
        BY DEF HonestIInv, OwnIInv, EngineIInv, TypeOK
    <2> QED BY <1>1, <2>1, <2>2 DEF HonestIInv, EntriesInv, EntriesHold, NoOutcomes
<1> QED BY <1>1, <1>4, <1>6, <1>7, IdleHonest

LEMMA CrashHonest ==
    ASSUME FaithfulWorld, HonestIInv, OwnIInv', WorkIInv', Crash
    PROVE  HonestIInv'
<1>1. /\ pc' = "idle" /\ cpPending' = NoOutcomes /\ interrupted' = FALSE
      /\ crashes < MaxCrashes /\ crashes' = crashes + 1 /\ garbled' \in {garbled, TRUE}
      /\ cutShort' = CutShort
      /\ UNCHANGED <<table, checkpoint, objects, bundle, bundleId, hosts, interrupts,
                     handEdits, apiFailures>>
    BY DEF Crash, ForgetProcess, Stop, target
<1>2. run.mode = "live"
    BY DEF FaithfulWorld, HonestIInv, OwnIInv, EngineIInv, TypeOK
<1>3. crashes \in Nat /\ ~NothingLost
    BY <1>1 DEF HonestIInv, CircumstancesInv, NothingLost
<1>4. CircumstancesInv'
    BY <1>1, <1>3 DEF HonestIInv, CircumstancesInv, Uninterrupted
<1>5. TableInv'
    BY <1>1, <1>2
    DEF HonestIInv, TableInv, Truthful, Written, ObjectOf, RowSays, Current, Fp, CutShort
<1>6. EntriesInv'
    <2>1. \A entry \in Outcome : EntryInv(entry) => EntryInv(entry)'
        BY <1>1, <1>3, EntryStays
    <2>2. checkpoint \in [Names -> Outcome \cup {NoRow}] /\ garbled \in BOOLEAN
        BY DEF HonestIInv, OwnIInv, EngineIInv, TypeOK
    <2>3. ~garbled' => ~garbled
        BY <1>1, <2>2
    <2> QED BY <1>1, <2>1, <2>2, <2>3 DEF HonestIInv, EntriesInv, EntriesHold, NoOutcomes
<1> QED BY <1>1, <1>4, <1>5, <1>6, IdleHonest

LEMMA InterruptHonest ==
    ASSUME FaithfulWorld, HonestIInv, OwnIInv', WorkIInv', Interrupt
    PROVE  HonestIInv'
<1>1. /\ pc \notin {"idle", "exit"} /\ pc' \in {"units", "final"}
      /\ pc' \in InPhase => pc \in InPhase
      /\ interrupts < MaxInterrupts /\ interrupts' = interrupts + 1 /\ interrupted' = TRUE
      /\ UNCHANGED <<table, cache, runId, checkpoint, garbled, run, objects, runStatus, bundle,
                     bundleId, hosts, crashes, handEdits, cutShort, cpPending,
                     apiFailures, existing, todo>>
    BY DEF Interrupt, InPhase, storeVars, target, disk
<1>2. TargetInv'
    BY <1>1 DEF HonestIInv, TargetInv, ObjectOf, Written
<1>3. CircumstancesInv'
    BY <1>1 DEF HonestIInv, CircumstancesInv, Uninterrupted
<1>4. ListingInv'
    BY <1>1 DEF HonestIInv, ListingInv, ObjectOf
<1>5. TableInv' /\ CacheInv'
    BY <1>1
    DEF HonestIInv, TableInv, CacheInv, Truthful, Written, ObjectOf, RowSays, Current, Fp
<1>6. EntriesInv'
    BY <1>1, EntriesStay
<1>7. CurrentInv' /\ LandedInv'
    BY <1>1 DEF CurrentInv, LandedInv, OverEverything
<1> QED BY <1>2, <1>3, <1>4, <1>5, <1>6, <1>7 DEF HonestIInv

LEMMA StartRunHonest ==
    ASSUME FaithfulWorld, HonestIInv, OwnIInv', WorkIInv',
           NEW settings \in RunSettings, StartRun(settings)
    PROVE  HonestIInv'
<1>1. /\ pc = "idle" /\ pc' = "replay" /\ cache' = table
      /\ todo' # {} => ~garbled
      /\ UNCHANGED <<table, checkpoint, garbled, objects, interrupted, bundle,
                     bundleId, hosts, crashes, interrupts, handEdits, cutShort, cpPending,
                     apiFailures>>
    BY DEF StartRun, Open, target, disk, world
<1>2. TargetInv'
    BY <1>1 DEF HonestIInv, TargetInv, ObjectOf, Written
<1>3. CircumstancesInv'
    BY <1>1, CircumstancesStay
<1>4. TableInv' /\ CacheInv'
    BY <1>1 DEF HonestIInv, TableInv, CacheInv, Truthful, Exact, Written, ObjectOf, RowSays,
                Current, Fp, LiveRow
<1>5. EntriesInv'
    <2>1. \A entry \in Outcome : EntryInv(entry) => EntryInv(entry)'
        BY <1>1, EntryStays DEF KnownRow, LiveRow
    <2>2. /\ checkpoint \in [Names -> Outcome \cup {NoRow}]
          /\ cpPending \in [Names -> Outcome \cup {NoRow}]
        BY DEF HonestIInv, OwnIInv, EngineIInv, TypeOK
    <2> QED BY <1>1, <2>1, <2>2 DEF HonestIInv, EntriesInv, EntriesHold
<1>6. ListingInv' /\ CurrentInv' /\ LandedInv'
    BY <1>1 DEF ListingInv, CurrentInv, InPhase, LandedInv, Unsettled, InBundle
<1> QED BY <1>2, <1>3, <1>4, <1>5, <1>6 DEF HonestIInv

(* A new bundle comes when the rows are exact: they need no bundle to be true. *)
LEMMA BetweenRunsHonest ==
    ASSUME FaithfulWorld, HonestIInv, OwnIInv', WorkIInv'
    PROVE  /\ NewBundle => HonestIInv'
           /\ \A u \in Units : HostAppears(u) => HonestIInv'
<1>1. CASE NewBundle
    <2>1. /\ pc = "idle" /\ pc' = "idle" /\ (ReimportFirst => ~cutShort)
          /\ checkpoint' = NoOutcomes
          /\ UNCHANGED <<table, objects, hosts, interrupted, crashes, interrupts, handEdits,
                         cutShort, cpPending, apiFailures>>
        BY <1>1 DEF NewBundle, storeVars, target, process
    <2>2. ~cutShort /\ Exact(table)
        BY <2>1 DEF FaithfulWorld, HonestIInv, CircumstancesInv, TableInv
    <2>3. TableInv'
        BY <2>1, <2>2 DEF TableInv, Exact, Truthful, Written, ObjectOf, RowSays
    <2>4. EntriesInv'
        BY <2>1 DEF HonestIInv, EntriesInv, EntriesHold, NoOutcomes
    <2>5. CircumstancesInv'
        BY <2>1, CircumstancesStay
    <2> QED BY <2>1, <2>3, <2>4, <2>5, IdleHonest
<1>2. ASSUME NEW u \in Units, HostAppears(u) PROVE HonestIInv'
    <2>1. /\ pc = "idle" /\ pc' = "idle" /\ hosts \subseteq hosts'
          /\ UNCHANGED <<table, objects, bundle, bundleId, checkpoint, garbled, interrupted,
                         crashes, interrupts, handEdits, cutShort, cpPending, apiFailures>>
        BY <1>2 DEF HostAppears, storeVars, target, disk, process
    <2>2. TableInv'
        BY <2>1 DEF HonestIInv, TableInv, Exact, Truthful, Written, ObjectOf, RowSays, Current, Fp
    <2>3. \A entry \in Outcome : EntryInv(entry) => EntryInv(entry)'
        BY <2>1, EntryStays DEF KnownRow
    <2>4. /\ checkpoint \in [Names -> Outcome \cup {NoRow}]
          /\ cpPending \in [Names -> Outcome \cup {NoRow}]
        BY DEF HonestIInv, OwnIInv, EngineIInv, TypeOK
    <2>5. EntriesInv'
        BY <2>1, <2>3, <2>4 DEF HonestIInv, EntriesInv, EntriesHold
    <2>6. CircumstancesInv'
        BY <2>1, CircumstancesStay
    <2> QED BY <2>1, <2>2, <2>5, <2>6, IdleHonest
<1> QED BY <1>1, <1>2

LEMMA QuietHonest ==
    ASSUME HonestIInv, OwnIInv', WorkIInv',
           UNCHANGED <<table, cache, target, disk, process, world, pc, todo, current, cpPending>>
    PROVE  HonestIInv'
<1> USE DEF target, disk, process, world
<1>1. TargetInv' /\ CircumstancesInv' /\ ListingInv'
    BY DEF HonestIInv, TargetInv, CircumstancesInv, ListingInv, ObjectOf, Written
<1>2. TableInv' /\ CacheInv'
    BY DEF HonestIInv, TableInv, CacheInv, Truthful, Exact, Written, ObjectOf, RowSays,
           Current, Fp, LiveRow, InRecord
<1>3. Unsettled' = Unsettled /\ InBundle' = InBundle
    BY DEF Unsettled, InBundle
<1>4. CurrentInv'
    BY DEF HonestIInv, CurrentInv, InBundle, OutcomeInv, WillSay, Written, ObjectOf, Current,
           Fp, LiveRow
<1>5. EntriesInv'
    <2>1. \A entry \in Outcome : EntryInv(entry) => EntryInv(entry)'
        BY EntryStays DEF KnownRow, LiveRow
    <2>2. /\ checkpoint \in [Names -> Outcome \cup {NoRow}]
          /\ cpPending \in [Names -> Outcome \cup {NoRow}]
        BY DEF HonestIInv, OwnIInv, EngineIInv, TypeOK
    <2> QED BY <2>1, <2>2 DEF HonestIInv, EntriesInv, EntriesHold
<1>6. LandedInv'
    <2>1. \A u \in Units : Landed(u) => Landed(u)'
        BY DEF Landed, Written, ObjectOf, RowSays, Current, Fp, LiveRow
    <2> QED BY <1>3, <2>1 DEF HonestIInv, LandedInv, OverEverything, InBundle
<1> QED BY <1>1, <1>2, <1>4, <1>5, <1>6 DEF HonestIInv

LEMMA HonestNext ==
    ASSUME FaithfulWorld, HonestIInv, [Next]_vars
    PROVE  HonestIInv'
<1>1. OwnIInv' /\ WorkIInv'
    BY OwnNext, WorkNext DEF FaithfulWorld, HonestIInv
<1>2. ASSUME NEW u \in Units, ProcessUnit(u) PROVE HonestIInv'
    BY <1>1, <1>2, ProcessUnitConcludes, OutOfScopeHonest, ConcludedKeepsHonest
<1>3. CASE RunStep
    BY <1>1, <1>2, <1>3, ReplayHonest, FlushHonest, DeferHonest, MarkMissingHonest, ListHonest,
       RecordStateHonest, RecordCheckpointHonest, FlushCheckpointHonest, FinalFlushHonest,
       ExitHonest DEF RunStep
<1>4. CASE HandEdit
    BY <1>4 DEF HandEdit, FaithfulWorld, HonestIInv, CircumstancesInv
<1>5. CASE TimePasses \/ UNCHANGED vars
    <2>1. UNCHANGED <<table, cache, target, disk, process, world, pc, todo, current, cpPending>>
        BY <1>5 DEF TimePasses, FlushSecondsPass, vars, storeVars
    <2> QED BY <1>1, <2>1, QuietHonest
<1>6. CASE Environment
    BY <1>1, <1>4, <1>5, <1>6, StartRunHonest, BetweenRunsHonest, CrashHonest, InterruptHonest
    DEF Environment
<1> QED BY <1>3, <1>5, <1>6 DEF Next

LEMMA HonestInit ==
    ASSUME FaithfulWorld, Init
    PROVE  HonestIInv
<1>1. OwnIInv /\ WorkIInv
    BY OwnInit, WorkInit
<1>2. \A i \in TargetIds : objects[i] = IF i \in DOMAIN PreExisting
                                        THEN HandMade(PreExisting[i]) ELSE NoRow
    BY DEF Init
<1>3. \A u : /\ HandMade(u).unit = u /\ HandMade(u).content = ByHand
             /\ HandMade(u).live
    BY DEF HandMade
<1>4. \A u \in Units, i \in TargetIds :
          /\ ~Written(u, i)
          /\ ObjectOf(u, i) => i \in DOMAIN PreExisting /\ PreExisting[i] = u
    BY <1>2, <1>3 DEF Written, ObjectOf
<1>5. TargetInv
    BY <1>2, <1>3, <1>4 DEF TargetInv, FaithfulWorld
<1>6. CircumstancesInv /\ ListingInv /\ CacheInv /\ CurrentInv
    BY DEF Init, CircumstancesInv, ListingInv, CacheInv, CurrentInv, InPhase
<1>7. TableInv
    BY <1>4 DEF TableInv, Truthful, Exact
<1>8. EntriesInv
    BY DEF Init, EntriesInv, EntriesHold, NoOutcomes
<1>9. LandedInv
    BY DEF Init, LandedInv, Unsettled
<1> QED BY <1>1, <1>5, <1>6, <1>7, <1>8, <1>9 DEF HonestIInv

(* --- the theorems ---------------------------------------------------------------- *)

THEOREM HonestInvariant ==
    ASSUME FaithfulWorld
    PROVE  Spec => []HonestIInv
<1>1. HonestIInv /\ [Next]_vars => HonestIInv'
    BY HonestNext
<1> QED BY <1>1, HonestInit, PTL DEF Spec

(* Between runs that are not left unfinished, the fingerprint of a row that claims
   success is what its object holds: a unit that is skipped as unchanged is so, for
   any number of bundles, units and runs -- cancelled, dead, partial, repeated or
   with failing calls -- as far as FaithfulWorld lets these come together.     *)
THEOREM FingerprintsHold ==
    ASSUME FaithfulWorld
    PROVE  Spec => []FingerprintsAreHonest
<1>1. HonestIInv => FingerprintsAreHonest
    <2> SUFFICES ASSUME HonestIInv, pc = "idle", ~cutShort, NEW u \in Units,
                        TargetOf(table[<<"live", u>>]) # Blank,
                        Live(table[<<"live", u>>].target),
                        objects[table[<<"live", u>>].target].content # ByHand
                 PROVE  table[<<"live", u>>].fp = objects[table[<<"live", u>>].target].content
        BY DEF FingerprintsAreHonest
    <2> DEFINE row == table[<<"live", u>>]
    <2>1. <<"live", u>> \in Keys
        BY KeysAssumption
    <2>2. row \in Row
        BY <2>1 DEF HonestIInv, OwnIInv, EngineIInv, TypeOK, StoreTypeOK, TargetOf
    <2>3. row.target \in TargetIds
        BY <2>2, NoRowIsNoRow DEF Row, TargetOf
    <2>4. objects[row.target].unit = u
        BY <2>1 DEF HonestIInv, OwnIInv, RowsNameOwnObjects
    <2>5. Written(u, row.target)
        BY <2>4 DEF Written, ObjectOf, Live
    <2> QED BY <2>3, <2>5 DEF HonestIInv, TableInv, Exact, RowSays
<1> QED BY <1>1, HonestInvariant, PTL

(* A full run that ends `completed` has its own row for each unit of the bundle, and
   what the row claims to be done is on the target with the bundle's content.  *)
THEOREM CompletedRunsMigrate ==
    ASSUME FaithfulWorld
    PROVE  Spec => []CompletedRunMigrates
<1>1. HonestIInv => CompletedRunMigrates
    <2> SUFFICES ASSUME HonestIInv, CompletedFullRun, NEW u \in InBundle
                 PROVE  /\ table[<<"live", u>>] # NoRow
                        /\ table[<<"live", u>>].run = bundleId
                        /\ table[<<"live", u>>].action \in Succeeded /\ u \notin SkippedUnits =>
                              /\ table[<<"live", u>>].fp = Fp(u)
                              /\ \E id \in LiveIds({u}) : objects[id].content \in {Fp(u), ByHand}
        BY DEF CompletedRunMigrates
    <2>1. /\ pc = "exit" /\ OverEverything /\ FullRun /\ Unsettled = {}
          /\ table[<<"live", u>>] = LiveRow(u) /\ u \in Units
        BY DEF CompletedFullRun, FullRun, OverEverything, Unsettled, HonestIInv,
               CircumstancesInv, LiveRow, InBundle
    <2>2. OnRecord(u) /\ Landed(u)
        BY <2>1 DEF HonestIInv, WorkIInv, LandedInv, FullRun
    <2>3. ASSUME LiveRow(u).action \in Succeeded, u \notin SkippedUnits
          PROVE  /\ LiveRow(u).fp = Fp(u)
                 /\ \E id \in LiveIds({u}) : objects[id].content \in {Fp(u), ByHand}
        <3>1. PICK id \in TargetIds : ObjectOf(u, id)
            BY <2>2, <2>3 DEF Landed
        <3>2. id \in LiveIds({u})
            BY <3>1 DEF HonestIInv, TargetInv, ObjectOf, LiveIds, Live
        <3>3. LiveRow(u).action # "failed"
            BY <2>3 DEF Succeeded
        <3>4. objects[id].content \in {Fp(u), ByHand}
            BY <2>2, <3>1, <3>3 DEF Landed, Written, Current
        <3> QED BY <2>2, <2>3, <3>2, <3>4 DEF Landed
    <2> QED BY <2>1, <2>2, <2>3 DEF OnRecord
<1> QED BY <1>1, HonestInvariant, PTL
(* --- declarative work ------------------------------------------------------------- *)

(* No run leaves the family for later: a deferral stores the bundle's fingerprint in
   the row of a unit that was never applied (base_importer.py:981).            *)
NothingDeferred == \A settings \in RunSettings : settings.selected

Declared == DeclarativeUnits \ Unattempted

(* Whatever object the unit has, the tool has written to it. *)
Applied(u) == \A id \in TargetIds : ObjectOf(u, id) => Written(u, id)

(* A book that says, of the unit, something that a later run takes for work done. *)
Claims(row) == FingerprintOf(row) # Blank
Reports(outcome, u) == outcome # NoRow /\ outcome.unit = u /\ outcome.status # "failed"
InHand == IF pc \in {"record", "checkpoint"} THEN current ELSE NoOutcome

Claimed(u) ==
    \/ Claims(table[<<"live", u>>]) \/ Claims(LiveRow(u))
    \/ Reports(InHand, u)
    \/ \E n \in Names : Reports(checkpoint[n], u) \/ Reports(cpPending[n], u)

(* A declarative unit's object is there before the work is: what is claimed of it
   must have been written.                                                     *)
AppliedInv == \A u \in Units \cap Declared : Claimed(u) => Applied(u)

AppliedIInv == HonestIInv /\ AppliedInv

(* What has been applied stays so: content is written, never taken back. *)
LEMMA AppliedStays ==
    ASSUME FaithfulWorld, HonestIInv, [Next]_vars, NEW v \in Units, Applied(v)
    PROVE  Applied(v)'
<1>1. CASE objects' = objects
    BY <1>1 DEF Applied, Written, ObjectOf
<1>2. ASSUME NEW u \in Units, ProcessUnit(u), objects' # objects
      PROVE  Applied(v)'
    <2>1. pc = "units" /\ u \in todo /\ UnitFrame
        BY <1>2, ProcessUnitTakes DEF HonestIInv, OwnIInv, Taken
    <2>2. Fp(u) \in Fingerprints
        BY <2>1, UnitFactsHold DEF UnitFacts
    <2>3. ConcludedWell(u)
        BY <1>2, ProcessUnitConcludes DEF OutOfScope, target
    <2>4. /\ TargetInv /\ objects \in [TargetIds -> Object \cup {NoRow}]
          /\ UNCHANGED <<bundle, hosts>>
        BY <2>1 DEF HonestIInv, OwnIInv, EngineIInv, TypeOK, UnitFrame, world
    <2>5. PICK id \in TargetIds : Writes(u, id)
        BY <1>2, <2>3 DEF ConcludedWell, Writes
    <2>6. /\ objects'[id] \in Object /\ objects'[id].unit = u
          /\ objects'[id].content = Fp(u)
          /\ \A i \in TargetIds : i # id => objects'[i] = objects[i]
        BY <2>2, <2>4, <2>5, WritesEffect
    <2>7. Fp(u) # ByHand
        BY <2>2, ByHandAssumption
    <2> QED BY <2>6, <2>7 DEF Applied, Written, ObjectOf
<1>3. CASE RunStep /\ objects' # objects
    BY <1>2, <1>3
    DEF RunStep, Replay, ReplayDone, Defer, MarkMissing, DeferDone, List, RecordState,
        RecordCheckpoint, FlushCheckpoint, FlushPhase, MissingDone, FinalFlush, Exit, target
<1>4. CASE Environment
    <2>1. ~HandEdit
        BY DEF HandEdit, FaithfulWorld, HonestIInv, CircumstancesInv
    <2> QED BY <1>1, <1>4, <2>1
            DEF Environment, StartRun, HostAppears, Crash, Interrupt, NewBundle, TimePasses,
                target
<1>5. CASE UNCHANGED vars
    BY <1>1, <1>5 DEF vars, target
<1> QED BY <1>1, <1>3, <1>4, <1>5 DEF Next

(* A declarative unit concludes with a success if it was applied, now or before, or if
   it has no object to be applied to.                                          *)
LEMMA DeclaredConcludes ==
    ASSUME FaithfulWorld, HonestIInv, NEW u \in Units \cap Declared, ProcessUnit(u)
    PROVE  \/ UNCHANGED <<pc, current>>
           \/ /\ pc' = "record" /\ current' \in Conclusion /\ current'.unit = u
              /\ current'.status = "failed" \/ Claimed(u) \/ Applied(u)'
<1>1. /\ pc = "units" /\ u \in todo /\ UnitFrame
      /\ u \in DeclarativeUnits /\ u \notin Unattempted
    BY ProcessUnitTakes DEF HonestIInv, OwnIInv, Taken, Declared
<1>2. UnitFacts(u)
    BY <1>1, UnitFactsHold
<1>3. run.mode = "live" /\ StateKey(u) = <<"live", u>> /\ Name(u) \in Names
    BY LiveKeys DEF HonestIInv, OwnIInv, EngineIInv, TypeOK
<1>4. /\ TargetInv /\ objects \in [TargetIds -> Object \cup {NoRow}]
      /\ Fp(u) \in Fingerprints /\ Fp(u) # Blank /\ Fp(u) # ByHand
    BY <1>2, BlankAssumption, ByHandAssumption DEF UnitFacts, HonestIInv, OwnIInv, EngineIInv, TypeOK
<1> DEFINE Ends == \/ UNCHANGED <<pc, current>>
                   \/ /\ pc' = "record" /\ current' \in Conclusion /\ current'.unit = u
                      /\ current'.status = "failed" \/ Claimed(u) \/ Applied(u)'
<1>5. ASSUME NEW status \in LastActions, NEW id \in TargetIds \cup {Blank},
             NEW saved \in BOOLEAN, Conclude(u, status, id, saved)
      PROVE  /\ pc' = "record" /\ current' \in Conclusion /\ current'.unit = u
             /\ current'.status = status
    BY <1>5 DEF Conclude, Conclusion
<1>6. ASSUME NEW id \in TargetIds, NEW status \in {"created", "updated", "adopted"},
             ObjectOf(u, id), Apply(u, id, status)
      PROVE  Ends
    <2>1. Done(u, status) \in LastActions /\ "failed" \in LastActions
        BY DEF Done, LastActions
    <2>2. CASE Concluded(u, "failed", id)
        BY <1>5, <2>1, <2>2 DEF Concluded
    <2>3. CASE objects' = Contents(id, Fp(u)) /\ Concluded(u, Done(u, status), id)
        <3>1. Writes(u, id)
            BY <1>1, <1>6, <2>3 DEF Writes
        <3>2. /\ objects'[id].content = Fp(u)
              /\ \A i \in TargetIds : i # id => objects'[i] = objects[i]
              /\ \A i \in TargetIds : ObjectOf(u, i) => i = id
            BY <1>4, <3>1, WritesEffect
        <3>3. Applied(u)'
            BY <1>4, <3>2 DEF Applied, Written, ObjectOf
        <3> QED BY <1>5, <2>1, <2>3, <3>3 DEF Concluded
    <2> QED BY <1>6, <2>2, <2>3 DEF Apply
<1>7. CASE OutOfScope(u)
    BY <1>7 DEF OutOfScope
<1>8. CASE Resume(u)
    <2> DEFINE entry == checkpoint[Name(u)]
    <2>1. entry # NoRow /\ Conclude(u, entry.status, entry.target, FALSE)
        BY <1>8 DEF Resume, Resumable
    <2>2. entry \in Outcome
        BY <1>3, <2>1 DEF HonestIInv, OwnIInv, EngineIInv, TypeOK
    <2>3. /\ entry.unit \in Units /\ entry.status \in LastActions
          /\ entry.target \in TargetIds \cup {Blank}
        BY <2>2 DEF Outcome
    <2>4. entry.unit = u
        BY <1>3, <2>1, <2>3 DEF HonestIInv, OwnIInv, OutcomesOwn, FaithfulWorld, NamesAreUnique
    <2>5. entry.status = "failed" \/ Claimed(u)
        BY <1>3, <2>1, <2>4 DEF Claimed, Reports
    <2> QED BY <1>5, <2>1, <2>3, <2>5
<1>9. CASE CheckpointUnreadable(u)
    <2>1. "failed" \in LastActions
        BY DEF LastActions
    <2> QED BY <1>5, <1>9, <2>1 DEF CheckpointUnreadable, Concluded
<1>10. CASE Unchanged(u)
    <2>1. Decision(u) = "SKIP" /\ Concluded(u, "skipped", existing[Name(u)])
        BY <1>10 DEF Unchanged, Decided
    <2>2. /\ LiveRow(u) # NoRow /\ LiveRow(u).fp = Fp(u)
          /\ existing[Name(u)] \in TargetIds
        BY <1>2, <1>3, <2>1, DecisionTable DEF UnitFacts
    <2>3. Claimed(u) /\ "skipped" \in LastActions
        BY <1>4, <2>2 DEF Claimed, Claims, FingerprintOf, LastActions
    <2> QED BY <1>5, <2>1, <2>2, <2>3 DEF Concluded
<1>11. CASE Update(u)
    <2> DEFINE id == OrElse(TargetOf(LiveRow(u)), existing[Name(u)])
    <2>1. Decision(u) = "UPDATE" /\ UpdateInPlace(u, id)
        BY <1>3, <1>11 DEF Update, Decided, LiveRow
    <2>2. existing[Name(u)] # Blank
        BY <1>3, <2>1, DecisionTable
    <2>3. id \in TargetIds /\ ObjectOf(u, id)
        BY <1>2, <2>2 DEF UnitFacts, OrElse
    <2>4. Apply(u, id, "updated")
        BY <2>1, <2>3, BlankAssumption DEF UpdateInPlace
    <2> QED BY <1>6, <2>3, <2>4
<1>12. CASE Adopt(u)
    <2> DEFINE id == existing[Name(u)]
    <2>1. /\ Decision(u) = "ADOPT"
          /\ \E status \in {"created", "updated", "adopted"} : Apply(u, id, status)
        BY <1>1, <1>12 DEF Adopt, Decided
    <2>2. id \in TargetIds /\ ObjectOf(u, id)
        BY <1>2, <1>3, <2>1, DecisionTable DEF UnitFacts
    <2> QED BY <1>6, <2>1, <2>2
<1>13. CASE CreateDeclarative(u)
    <2>1. PICK id \in LiveIds({u}) : Apply(u, id, "created")
        BY <1>13 DEF CreateDeclarative
    <2>2. id \in TargetIds /\ ObjectOf(u, id)
        BY <2>1 DEF LiveIds, Live, ObjectOf
    <2> QED BY <1>6, <2>1, <2>2
<1>14. CASE CreateNoObject(u)
    <2>1. /\ u \in DependentUnits /\ u \notin hosts
          /\ Concluded(u, "skipped_no_object", Blank) /\ objects' = objects
        BY <1>14 DEF CreateNoObject, NoObject, target
    <2>2. \A i \in TargetIds : ~ObjectOf(u, i)
        BY <2>1 DEF HonestIInv, TargetInv
    <2>3. Applied(u)' /\ "skipped_no_object" \in LastActions
        BY <2>1, <2>2 DEF Applied, ObjectOf, LastActions
    <2> QED BY <1>5, <2>1, <2>3 DEF Concluded
<1> QED BY <1>1, <1>3, <1>7, <1>8, <1>9, <1>10, <1>11, <1>12, <1>13, <1>14
        DEF ProcessUnit, NotAttempted, Unattempted, Rehearse, Create, AlreadyExists

(* A step that copies a book, or forgets one, claims nothing new. *)
LEMMA CopyingClaimsNothing ==
    ASSUME NEW v \in Units, ~Claimed(v),
           LiveRow(v)' \in {LiveRow(v), table[<<"live", v>>], NoRow},
           table'[<<"live", v>>] \in {table[<<"live", v>>], LiveRow(v)},
           InHand' \in {InHand, NoOutcome},
           \A n \in Names : checkpoint'[n] \in {checkpoint[n], cpPending[n], NoRow},
           \A n \in Names : cpPending'[n] \in {cpPending[n], NoRow}
    PROVE  ~Claimed(v)'
<1>1. ~Claims(LiveRow(v))' /\ ~Claims(table[<<"live", v>>])'
    BY DEF Claimed, Claims, FingerprintOf, LiveRow
<1>2. ~Reports(InHand, v)'
    BY DEF Claimed, Reports, NoOutcome
<1>3. \A n \in Names : ~Reports(checkpoint[n], v)' /\ ~Reports(cpPending[n], v)'
    BY DEF Claimed, Reports
<1> QED BY <1>1, <1>2, <1>3 DEF Claimed

LEMMA RunsCopyBooks ==
    ASSUME FaithfulWorld, HonestIInv, NEW v \in Units, ~Claimed(v),
           \/ ReplayDone \/ DeferDone \/ FlushPhase \/ MissingDone \/ FinalFlush
           \/ List \/ FlushCheckpoint \/ \E u \in Units : OutOfScope(u)
    PROVE  ~Claimed(v)'
<1>1. /\ Flush \/ UNCHANGED storeVars
      /\ pc' \notin {"record", "checkpoint"}
      /\ \/ UNCHANGED <<checkpoint, cpPending>>
         \/ WriteCheckpoint(cpPending)
    BY DEF ReplayDone, DeferDone, FlushPhase, MissingDone, FinalFlush, List, FlushCheckpoint,
           OutOfScope, Taking, UnitFrame, disk
<1>2. UNCHANGED cache /\ table' \in {table, cache}
    BY <1>1, FlushIInv DEF Flush, storeVars, HonestIInv, OwnIInv, EngineIInv
<1>3. \A n \in Names : /\ checkpoint'[n] \in {checkpoint[n], cpPending[n]}
                       /\ cpPending'[n] \in {cpPending[n], NoRow}
    <2>1. CASE WriteCheckpoint(cpPending)
        <3>1. /\ checkpoint' \in {checkpoint, Overlay(checkpoint, cpPending)}
              /\ cpPending' = NoOutcomes
            BY <2>1 DEF WriteCheckpoint
        <3> QED BY <3>1 DEF Overlay, NoOutcomes
    <2> QED BY <1>1, <2>1
<1> QED BY <1>1, <1>2, <1>3, CopyingClaimsNothing DEF InHand, LiveRow

LEMMA OthersCopyBooks ==
    ASSUME NEW v \in Units, ~Claimed(v),
           Environment \/ Exit \/ UNCHANGED vars, HonestIInv
    PROVE  ~Claimed(v)'
<1> USE DEF InHand, LiveRow, NoOutcomes
<1>0. <<"live", v>> \in Keys
    BY KeysAssumption
<1>1. CASE Exit \/ Crash
    <2>1. /\ table' = table /\ cache' = NoRows /\ pc' = "idle" /\ checkpoint' = checkpoint
          /\ cpPending' = NoOutcomes
        BY <1>1 DEF Exit, Crash, Stop, ForgetProcess, disk
    <2> QED BY <1>0, <2>1, CopyingClaimsNothing DEF NoRows
<1>2. ASSUME NEW settings \in RunSettings, StartRun(settings) PROVE ~Claimed(v)'
    BY <1>2, CopyingClaimsNothing DEF StartRun, Open, disk
<1>3. CASE Interrupt
    <2>1. pc' \notin {"record", "checkpoint"} /\ UNCHANGED <<table, cache, checkpoint, cpPending>>
        BY <1>3 DEF Interrupt, InPhase, storeVars, disk
    <2> QED BY <2>1, CopyingClaimsNothing
<1>4. CASE NewBundle
    BY <1>4, CopyingClaimsNothing DEF NewBundle, storeVars
<1>5. CASE \/ \E u \in Units : HostAppears(u)
           \/ HandEdit \/ TimePasses \/ UNCHANGED vars
    <2>1. UNCHANGED <<table, cache, pc, current, checkpoint, cpPending>>
        BY <1>5 DEF HostAppears, HandEdit, TimePasses, FlushSecondsPass, vars, storeVars, disk
    <2> QED BY <2>1, CopyingClaimsNothing
<1> QED BY <1>1, <1>2, <1>3, <1>4, <1>5 DEF Environment

(* record() claims for its unit what it is told, or what the row said before. *)
LEMMA RecordingClaims ==
    ASSUME NEW u \in Units, NEW v \in Units, ~Claimed(v),
           LiveRow(u)' # NoRow, NEW fp,
           LiveRow(u)'.fp = OrElse(fp, FingerprintOf(LiveRow(u))),
           u = v => fp = Blank,
           u # v => LiveRow(v)' = LiveRow(v),
           table' \in {table, cache'}, InHand' \in {InHand, NoOutcome},
           UNCHANGED <<checkpoint, cpPending>>
    PROVE  ~Claimed(v)'
<1>1. ~Claims(LiveRow(v))'
    BY DEF Claimed, Claims, FingerprintOf, OrElse
<1>2. ~Claims(table[<<"live", v>>])'
    BY <1>1 DEF Claimed, Claims, FingerprintOf, LiveRow
<1> QED BY <1>1, <1>2 DEF Claimed, Reports, NoOutcome

LEMMA RecordersClaim ==
    ASSUME FaithfulWorld, HonestIInv, NEW v \in Units, ~Claimed(v),
           \/ RecordState
           \/ \E n \in Names : Replay(n)
           \/ \E u \in Units : MarkMissing(u)
    PROVE  ~Claimed(v)'
<1>1. CASE RecordState
    <2>1. /\ pc = "record" /\ pc' \in {"checkpoint", "units"}
          /\ pc' = "checkpoint" => current' = current
          /\ UNCHANGED <<checkpoint, cpPending>>
        BY <1>1 DEF RecordState, disk
    <2>2. current \in Conclusion
        BY <2>1 DEF HonestIInv, OwnIInv, EngineIInv
    <2> PICK u \in Units : u = current.unit
        BY <2>2 DEF Conclusion
    <2> DEFINE fp == IF current.status = "failed" THEN Blank ELSE Fp(u)
    <2>3. /\ current.status \in LastActions /\ current.target \in TargetIds \cup {Blank}
          /\ Fp(u) \in Fingerprints \cup {Blank}
        BY <2>2 DEF Conclusion, Fp, HonestIInv, OwnIInv, EngineIInv, TypeOK
    <2>4. /\ LiveRow(u)' # NoRow
          /\ LiveRow(u)'.fp = OrElse(fp, FingerprintOf(LiveRow(u)))
          /\ \A w \in Units : w # u => LiveRow(w)' = LiveRow(w)
          /\ table' \in {table, cache'}
        BY <1>1, <2>1, <2>3, RecordedRow DEF RecordState
    <2>5. u = v => current.status = "failed"
        BY <2>1, <2>2, NothingAssumption DEF Claimed, Reports, InHand
    <2>6. InHand' \in {InHand, NoOutcome}
        BY <2>1 DEF InHand
    <2> QED BY <2>1, <2>4, <2>5, <2>6, RecordingClaims
<1>2. ASSUME NEW n \in Names, Replay(n) PROVE ~Claimed(v)'
    <2> DEFINE entry == checkpoint[n]
    <2>1. /\ pc = "replay" /\ pc' = "replay" /\ n \in todo
          /\ UNCHANGED <<checkpoint, cpPending>>
        BY <1>2 DEF Replay, disk
    <2>2. entry # NoRow /\ ~garbled /\ entry \in Outcome
        BY <2>1 DEF HonestIInv, EntriesInv, OwnIInv, EngineIInv, TypeOK
    <2>3. EntryInv(entry)
        BY <2>2 DEF HonestIInv, EntriesInv, EntriesHold
    <2>4. /\ entry.unit \in Units /\ entry.status \in LastActions
          /\ entry.target \in TargetIds \cup {Blank} /\ entry.fp \in Fingerprints \cup {Blank}
        BY <2>2 DEF Outcome
    <2> PICK u \in Units : u = entry.unit
        BY <2>4
    <2>5. StateKey(u) = <<"live", u>> /\ runId = bundleId
        BY <2>1, LiveKeys DEF HonestIInv, WorkIInv, OwnIInv, EngineIInv, TypeOK
    <2>6. \/ UNCHANGED storeVars
          \/ /\ LiveRow(u) = NoRow \/ LiveRow(u).run # bundleId
             /\ Record(StateKey(u), entry.status, entry.fp, entry.target)
        BY <1>2, <2>5 DEF Replay, LiveRow
    <2>7. CASE UNCHANGED storeVars
        BY <2>1, <2>7, CopyingClaimsNothing DEF storeVars, LiveRow, InHand
    <2>8. CASE /\ LiveRow(u) = NoRow \/ LiveRow(u).run # bundleId
               /\ Record(StateKey(u), entry.status, entry.fp, entry.target)
        <3>1. entry.status # "failed"
            BY <2>1, <2>3, <2>8 DEF EntryInv, KnownRow
        <3>2. u # v
            BY <2>2, <3>1 DEF Claimed, Reports
        <3> HIDE DEF entry
        <3>3. /\ LiveRow(u)' # NoRow
              /\ LiveRow(u)'.fp = OrElse(entry.fp, FingerprintOf(LiveRow(u)))
              /\ \A w \in Units : w # u => LiveRow(w)' = LiveRow(w)
              /\ table' \in {table, cache'}
            BY <2>1, <2>4, <2>8, RecordedRow
        <3> QED BY <2>1, <3>2, <3>3, RecordingClaims DEF InHand
    <2> QED BY <2>6, <2>7, <2>8
<1>3. ASSUME NEW u \in Units, MarkMissing(u) PROVE ~Claimed(v)'
    <2>1. pc = "missing" /\ pc' = "missing" /\ UNCHANGED <<checkpoint, cpPending>>
        BY <1>3 DEF MarkMissing, disk
    <2>2. CASE UNCHANGED storeVars
        BY <2>1, <2>2, CopyingClaimsNothing DEF storeVars, LiveRow, InHand
    <2>3. CASE Record(StateKey(u), "deleted_in_source", Blank, Blank)
        <3>1. "deleted_in_source" \in LastActions
            BY DEF LastActions
        <3>2. /\ LiveRow(u)' # NoRow
              /\ LiveRow(u)'.fp = OrElse(Blank, FingerprintOf(LiveRow(u)))
              /\ \A w \in Units : w # u => LiveRow(w)' = LiveRow(w)
              /\ table' \in {table, cache'}
            BY <2>1, <2>3, <3>1, RecordedRow
        <3> QED BY <2>1, <3>2, RecordingClaims DEF InHand
    <2> QED BY <1>3, <2>2, <2>3 DEF MarkMissing
<1> QED BY <1>1, <1>2, <1>3

LEMMA RecordCheckpointClaims ==
    ASSUME HonestIInv, NEW v \in Units, ~Claimed(v), RecordCheckpoint
    PROVE  ~Claimed(v)'
<1>1. pc = "checkpoint" /\ pc' = "units" /\ UNCHANGED <<table, cache>>
    BY DEF RecordCheckpoint, storeVars
<1>2. /\ current \in Conclusion
      /\ checkpoint \in [Names -> Outcome \cup {NoRow}]
      /\ cpPending \in [Names -> Outcome \cup {NoRow}]
    BY <1>1 DEF HonestIInv, OwnIInv, EngineIInv, TypeOK
<1> DEFINE entry == [unit |-> current.unit, status |-> current.status,
                     target |-> current.target, fp |-> Fp(current.unit)]
<1> DEFINE batch == [cpPending EXCEPT ![Name(current.unit)] = entry]
<1>3. ~Reports(entry, v)
    <2>1. ~Reports(current, v) /\ current # NoRow
        BY <1>1, <1>2, NothingAssumption DEF Claimed, InHand
    <2> QED BY <2>1 DEF Reports
<1>4. WriteCheckpoint(batch) \/ (cpPending' = batch /\ UNCHANGED checkpoint)
    BY DEF RecordCheckpoint, disk
<1>5. \A n \in Names : ~Reports(batch[n], v)
    <2> HIDE DEF entry
    <2>1. \A n \in Names : batch[n] \in {cpPending[n], entry}
        BY <1>2
    <2> QED BY <1>3, <2>1 DEF Claimed
<1> HIDE DEF batch
<1>6. \A n \in Names : ~Reports(checkpoint[n], v)' /\ ~Reports(cpPending[n], v)'
    <2>1. CASE WriteCheckpoint(batch)
        <3>1. /\ checkpoint' \in {checkpoint, Overlay(checkpoint, batch)}
              /\ cpPending' = NoOutcomes
            BY <2>1 DEF WriteCheckpoint
        <3>2. \A n \in Names : checkpoint'[n] \in {checkpoint[n], batch[n]}
            BY <3>1 DEF Overlay
        <3>3. \A n \in Names : cpPending'[n] = NoRow
            BY <3>1 DEF NoOutcomes
        <3> QED BY <1>5, <3>2, <3>3 DEF Claimed, Reports
    <2>2. CASE cpPending' = batch /\ UNCHANGED checkpoint
        BY <1>5, <2>2 DEF Claimed, Reports
    <2> QED BY <1>4, <2>1, <2>2
<1>7. ~Reports(InHand, v)'
    BY <1>1 DEF InHand, Reports, NoOutcome
<1> QED BY <1>1, <1>6, <1>7 DEF Claimed, Claims, LiveRow

LEMMA UnitsClaimWhatIsApplied ==
    ASSUME FaithfulWorld, HonestIInv, NEW v \in Units \cap Declared, ~Claimed(v),
           NEW u \in Units, ProcessUnit(u)
    PROVE  Claimed(v)' => Applied(v)'
<1>1. /\ pc = "units"
      /\ UNCHANGED <<table, cache, checkpoint, cpPending>>
      /\ OutOfScope(u) \/ (pc' = "record" /\ current' \in Conclusion /\ current'.unit = u)
    <2>1. pc = "units" /\ UnitFrame
        BY ProcessUnitTakes DEF HonestIInv, OwnIInv, Taken
    <2>2. OutOfScope(u) \/ (pc' = "record" /\ current'.unit = u)
        BY ProcessUnitConcludes DEF ConcludedWell, Conclude
    <2>3. pc' = "record" => current' \in Conclusion
        BY ProcessUnitTakes, <2>1 DEF HonestIInv, OwnIInv, Taken, ConcludedSafely
    <2> QED BY <2>1, <2>2, <2>3 DEF UnitFrame, storeVars, disk
<1>2. Claimed(v)' => Reports(InHand, v)'
    BY <1>1 DEF Claimed, Claims, LiveRow, Reports
<1>3. CASE OutOfScope(u)
    BY <1>2, <1>3 DEF OutOfScope, InHand, Claimed, Reports
<1>4. CASE u # v /\ pc' = "record" /\ current'.unit = u
    BY <1>2, <1>4 DEF InHand, Reports
<1>5. CASE u = v /\ pc' = "record"
    BY <1>1, <1>2, <1>5, DeclaredConcludes DEF InHand, Reports
<1> QED BY <1>1, <1>3, <1>4, <1>5

LEMMA AppliedNext ==
    ASSUME FaithfulWorld, NothingDeferred, AppliedIInv, [Next]_vars
    PROVE  AppliedIInv'
<1>1. HonestIInv'
    BY HonestNext DEF AppliedIInv
<1> SUFFICES ASSUME NEW v \in Units \cap Declared, Claimed(v)'
             PROVE  Applied(v)'
    BY <1>1 DEF AppliedIInv, AppliedInv
<1>2. CASE Claimed(v)
    BY <1>2, AppliedStays DEF AppliedIInv, AppliedInv
<1>3. CASE ~Claimed(v)
    <2>1. \A u \in Units : ~Defer(u)
        BY DEF Defer, NothingDeferred, AppliedIInv, HonestIInv, WorkIInv, EngineIInv, TypeOK
    <2>2. CASE RunStep
        BY <1>3, <2>1, <2>2, RunsCopyBooks, OthersCopyBooks, RecordersClaim,
           RecordCheckpointClaims, UnitsClaimWhatIsApplied DEF RunStep, AppliedIInv
    <2>3. CASE Environment \/ UNCHANGED vars
        BY <1>3, <2>3, OthersCopyBooks DEF AppliedIInv
    <2> QED BY <2>2, <2>3 DEF Next
<1> QED BY <1>2, <1>3

(* As long as no run leaves the family for later, a completed full run has applied
   whatever declarative work it calls done: neither the object that was always there,
   nor a row or checkpoint entry of an earlier run, dead or cancelled, stands in for
   it.  The hypothesis is needed: a deferral stores the fingerprint as if applied. *)
THEOREM DeclarativeWorkDone ==
    ASSUME FaithfulWorld, NothingDeferred
    PROVE  Spec => []DeclarativeWorkIsDone
<1>1. Init => AppliedIInv
    <2> SUFFICES ASSUME Init
                 PROVE  \A v \in Units : ~Claimed(v)
        BY HonestInit DEF AppliedIInv, AppliedInv
    <2>1. /\ table = NoRows /\ cache = NoRows /\ pc = "idle"
          /\ checkpoint = NoOutcomes /\ cpPending = NoOutcomes
        BY DEF Init, StoreInit
    <2>2. \A v \in Units : <<"live", v>> \in Keys
        BY KeysAssumption
    <2> QED BY <2>1, <2>2
            DEF Claimed, Claims, FingerprintOf, LiveRow, InHand, Reports, NoRows, NoOutcomes,
                NoOutcome
<1>2. AppliedIInv /\ [Next]_vars => AppliedIInv'
    BY AppliedNext
<1>3. AppliedIInv => DeclarativeWorkIsDone
    <2> SUFFICES ASSUME AppliedIInv, CompletedFullRun,
                        NEW u \in (InBundle \cap DeclarativeUnits) \ SkippedUnits,
                        table[<<"live", u>>].action \in Succeeded
                 PROVE  \E id \in LiveIds({u}) : objects[id].content = Fp(u)
        BY DEF DeclarativeWorkIsDone
    <2>1. /\ OverEverything /\ run.selected /\ Unsettled = {} /\ table = cache
        BY DEF CompletedFullRun, FullRun, OverEverything, Unsettled, AppliedIInv, HonestIInv,
               WorkIInv
    <2>2. u \in Units /\ u \in InBundle /\ Fp(u) # Blank
        BY DEF InBundle, Fp
    <2>3. Landed(u) /\ LiveRow(u).action \in Succeeded
        BY <2>1, <2>2 DEF AppliedIInv, HonestIInv, LandedInv, LiveRow
    <2>4. LiveRow(u).fp = Fp(u) /\ u \notin ManualUnits
        BY <2>3 DEF Landed
    <2>5. PICK id \in TargetIds : ObjectOf(u, id)
        BY <2>3 DEF Landed
    <2>6. u \in Declared
        BY <2>4 DEF Declared, Unattempted
    <2>7. LiveRow(u) # NoRow
        BY <2>1, <2>2 DEF AppliedIInv, HonestIInv, WorkIInv, OnRecord
    <2>8. Claimed(u)
        BY <2>2, <2>4, <2>7 DEF Claimed, Claims, FingerprintOf
    <2>9. Written(u, id)
        BY <2>2, <2>5, <2>6, <2>8 DEF AppliedIInv, AppliedInv, Applied
    <2>10. Current(u, id)
        BY <2>2, <2>3, <2>9 DEF Landed, Succeeded
    <2>11. id \in LiveIds({u})
        BY <2>2, <2>5 DEF AppliedIInv, HonestIInv, TargetInv, ObjectOf, LiveIds, Live
    <2> QED BY <2>10, <2>11 DEF Current
<1> QED BY <1>1, <1>2, <1>3, PTL DEF Spec
================================================================================
