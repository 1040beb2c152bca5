---------------------------- MODULE ExportRunProofs ----------------------------
(* Proofs about inventory and export, for any inventory, folder and bounds.    *)
EXTENDS ExportRun, FiniteSetTheorems, WellFoundedInduction, TLAPS

(* --- what the builders make ---------------------------------------------------- *)

Modes == {"auto", "content", "dab", "manual", "covered"}

(* Units carry the class and the traits of their record; the bytes of a notebook or
   a file are one unit, and no other unit has content.                             *)
LEMMA BuiltUnits ==
    ASSUME NEW r, NEW u \in BuildUnits(r)
    PROVE  /\ u = [type |-> u.type, mode |-> u.mode, class |-> r.class, traits |-> r.traits]
           /\ u.mode \in Modes
           /\ u.type \in ContentTypes \/ u.mode = "content" =>
                 r.kind \in ContentTypes /\ u.type = r.kind /\ u.mode = "content"
           /\ u.mode = "covered" /\ r.kind \in IdentityKinds =>
                 /\ u.type = "group" /\ r.class = "system"
                 /\ \E m \in BuildUnits(r) : m.type = "group_membership"
           /\ r.kind \in IdentityKinds => u.mode \in {"auto", "covered"}
           /\ u.type = "group_membership" /\ r.kind \in IdentityKinds => u.mode = "auto"
           /\ u.type = "group_membership" /\ r.kind \notin IdentityKinds => r.kind \notin Kinds
<1> USE DEF Unit, Modes, ContentTypes, IdentityKinds
<1>1. CASE r.kind \in IdentityKinds
  <2>1. BuildUnits(r) = IdentityUnits(r)
      BY <1>1 DEF BuildUnits, ComputeKinds, WorkspaceKinds, SqlKinds, MiscKinds
  <2>2. CASE r.kind = "group" /\ r.class = "system"
    <3>1. Unit("group_membership", "auto", r) \in BuildUnits(r)
        BY <2>1, <2>2 DEF IdentityUnits
    <3> QED
        BY <2>1, <2>2, <3>1 DEF IdentityUnits
  <2>3. CASE ~(r.kind = "group" /\ r.class = "system")
      BY <1>1, <2>1, <2>3 DEF IdentityUnits
  <2> QED
      BY <2>2, <2>3
<1>2. CASE r.kind \in ComputeKinds
  <2>1. BuildUnits(r) = ComputeUnits(r)
      BY <1>2 DEF BuildUnits, ComputeKinds, WorkspaceKinds, SqlKinds, MiscKinds
  <2> QED
      BY <1>2, <2>1 DEF ComputeUnits, ComputeKinds, DabOr
<1>3. CASE r.kind \in WorkspaceKinds
  <2>1. BuildUnits(r) = WorkspaceUnits(r)
      BY <1>3 DEF BuildUnits, ComputeKinds, WorkspaceKinds, SqlKinds, MiscKinds
  <2> QED
      BY <1>3, <2>1 DEF WorkspaceUnits, WorkspaceKinds, DabOr
<1>4. CASE r.kind = "secret_scope"
  <2>1. BuildUnits(r) = SecretUnits(r)
      BY <1>4 DEF BuildUnits, ComputeKinds, WorkspaceKinds, SqlKinds, MiscKinds
  <2> QED
      BY <1>4, <2>1 DEF SecretUnits, DabOr
<1>5. CASE r.kind = "job"
  <2>1. BuildUnits(r) = JobUnits(r)
      BY <1>5 DEF BuildUnits, ComputeKinds, WorkspaceKinds, SqlKinds, MiscKinds
  <2> QED
      BY <1>5, <2>1 DEF JobUnits, DabOr
<1>6. CASE r.kind \in SqlKinds
  <2>1. BuildUnits(r) = SqlUnits(r)
      BY <1>6 DEF BuildUnits, ComputeKinds, WorkspaceKinds, SqlKinds, MiscKinds
  <2> QED
      BY <1>6, <2>1 DEF SqlUnits, SqlKinds, DabOr
<1>7. CASE r.kind = "dlt_pipeline"
  <2>1. BuildUnits(r) = PipelineUnits(r)
      BY <1>7 DEF BuildUnits, ComputeKinds, WorkspaceKinds, SqlKinds, MiscKinds
  <2> QED
      BY <1>7, <2>1 DEF PipelineUnits, DabOr
<1>8. CASE r.kind = "lakeview_dashboard"
  <2>1. BuildUnits(r) = DashboardUnits(r)
      BY <1>8 DEF BuildUnits, ComputeKinds, WorkspaceKinds, SqlKinds, MiscKinds
  <2> QED
      BY <1>8, <2>1 DEF DashboardUnits, DabOr
<1>9. CASE r.kind = "genie_space"
  <2>1. BuildUnits(r) = GenieUnits(r)
      BY <1>9 DEF BuildUnits, ComputeKinds, WorkspaceKinds, SqlKinds, MiscKinds
  <2> QED
      BY <1>9, <2>1 DEF GenieUnits, DabOr
<1>10. CASE r.kind = "serving_endpoint"
  <2>1. BuildUnits(r) = ServingUnits(r)
      BY <1>10 DEF BuildUnits, ComputeKinds, WorkspaceKinds, SqlKinds, MiscKinds
  <2> QED
      BY <1>10, <2>1 DEF ServingUnits, DabOr
<1>11. CASE r.kind \in MiscKinds
  <2>1. BuildUnits(r) = MiscUnits(r)
      BY <1>11 DEF BuildUnits, ComputeKinds, WorkspaceKinds, SqlKinds, MiscKinds
  <2> QED
      BY <1>11, <2>1 DEF MiscUnits, MiscKinds
<1>12. CASE /\ r.kind \notin IdentityKinds \cup ComputeKinds \cup WorkspaceKinds
                               \cup SqlKinds \cup MiscKinds
              /\ r.kind \notin {"secret_scope", "job", "dlt_pipeline", "lakeview_dashboard",
                               "genie_space", "serving_endpoint"}
  <2>1. BuildUnits(r) = ManualUnits(r)
      BY <1>12 DEF BuildUnits
  <2> QED
      BY <1>12, <2>1 DEF ManualUnits, WorkspaceKinds, Kinds, ComputeKinds, SqlKinds, MiscKinds
<1> QED
    BY <1>1, <1>2, <1>3, <1>4, <1>5, <1>6, <1>7, <1>8, <1>9, <1>10, <1>11, <1>12

LEMMA StatusAndActionTyped ==
    ASSUME NEW r, NEW u \in BuildUnits(r), NEW off, NEW status \in Statuses
    PROVE  InitialStatus(u, off) \in Statuses /\ ImportAction(u, status) \in Actions
<1>1. u.mode \in Modes
    BY BuiltUnits
<1> QED
    BY <1>1 DEF InitialStatus, ToggledOff, ModeStatus, Modes, Statuses, ImportAction, ActionByClass,
       ActionByMode, Actions, Performed

(* --- units of the inventory ------------------------------------------------------ *)

LEMMA UnitOfKey ==
    ASSUME NEW k \in UnitKeys
    PROVE  /\ k[1] \in Items /\ k = <<k[1], k[2]>>
           /\ UnitOf(k) \in BuildUnits(world.record[k[1]]) /\ UnitOf(k).type = k[2]
<1>1. PICK i \in Items : \E u \in BuildUnits(world.record[i]) : k = <<i, u.type>>
    BY DEF UnitKeys, KeysOf
<1> QED
    BY <1>1 DEF UnitOf

(* An item has one unit with content at most. *)
LEMMA ContentKey ==
    ASSUME NEW k \in ContentKeys
    PROVE  /\ k \in UnitKeys /\ k[1] \in Items /\ k[1] \in ContentItems
           /\ k = <<k[1], world.record[k[1]].kind>> /\ KeyOf(k[1]) = k
           /\ UnitOf(k).mode = "content" /\ k[2] \in ContentTypes /\ k[2] \notin ToggledTypes
           /\ "internal" \notin world.record[k[1]].traits
<1>1. ASSUME NEW j \in ContentKeys
      PROVE  /\ j \in UnitKeys /\ j[1] \in Items /\ j = <<j[1], world.record[j[1]].kind>>
             /\ UnitOf(j).type = j[2] /\ UnitOf(j).mode = "content"
             /\ j[2] \in ContentTypes /\ j[2] \notin ToggledTypes
             /\ "internal" \notin world.record[j[1]].traits
  <2>1. j \in UnitKeys /\ Fetched(UnitOf(j), ToggledTypes)
      BY DEF ContentKeys
  <2>2. /\ j[1] \in Items /\ j = <<j[1], j[2]>> /\ UnitOf(j).type = j[2]
        /\ UnitOf(j) \in BuildUnits(world.record[j[1]])
      BY <2>1, UnitOfKey
  <2> QED
      BY <2>1, <2>2, BuiltUnits DEF Fetched, ToggledOff
<1>2. KeyOf(k[1]) = k
  <2> DEFINE j == CHOOSE j \in ContentKeys : j[1] = k[1]
  <2>1. j \in ContentKeys /\ j[1] = k[1]
      OBVIOUS
  <2> QED
      BY <2>1, <1>1 DEF KeyOf
<1> QED
    BY <1>1, <1>2 DEF ContentItems

LEMMA ContentItem ==
    ASSUME NEW i \in ContentItems
    PROVE  i \in Items /\ KeyOf(i) \in ContentKeys /\ KeyOf(i)[1] = i
<1>1. PICK k \in ContentKeys : k[1] = i
    BY DEF ContentItems
<1> QED
    BY <1>1, ContentKey

(* Nothing of this changes while the source workspace stays what it is. *)
LEMMA SameWorld ==
    ASSUME world' = world
    PROVE  /\ UnitKeys' = UnitKeys /\ ContentKeys' = ContentKeys /\ ContentItems' = ContentItems
           /\ \A k : UnitOf(k)' = UnitOf(k)
           /\ \A i : KeyOf(i)' = KeyOf(i) /\ OwnStem(i)' = OwnStem(i)
<1>1. UnitKeys' = UnitKeys
    BY DEF UnitKeys
<1>2. \A k : UnitOf(k)' = UnitOf(k)
    BY DEF UnitOf
<1>3. ContentKeys' = ContentKeys
    BY <1>1, <1>2 DEF ContentKeys
<1> QED
    BY <1>1, <1>2, <1>3 DEF ContentItems, KeyOf, OwnStem
(* --- a free name -------------------------------------------------------------------- *)

(* Fewer names are taken than there are for one stem, so that a stem has a free
   name, and its least one is the one that FreeName chooses.                        *)
LEMMA FreeNameIsFree ==
    ASSUME NEW i, world.stem[i] \in Stems, IsFiniteSet(taken),
           Cardinality(taken) <= Cardinality(Items)
    PROVE  LET n == FreeName(i, taken)
           IN  /\ n \in Names /\ n[1] = world.stem[i] /\ n \notin taken
               /\ <<world.stem[i], 0>> \notin taken => n = <<world.stem[i], 0>>
<1> DEFINE s == world.stem[i]
           N == Cardinality(Items)
           free == {n \in 0..N : <<s, n>> \notin taken}
<1>1. N \in Nat /\ Cardinality(taken) \in Nat
    BY WorldsAssumption, FS_CardinalityType
<1>2. free # {}
  <2> SUFFICES ASSUME free = {} PROVE FALSE
      OBVIOUS
  <2> DEFINE f == [n \in 0..N |-> <<s, n>>]
  <2>1. f \in [0..N -> taken] /\ \A a, b \in 0..N : f[a] = f[b] => a = b
      OBVIOUS
  <2>2. IsFiniteSet(0..N) /\ Cardinality(0..N) = N + 1
    <3> HIDE DEF N
    <3>1. 0 \in Int /\ N \in Int /\ ~(0 > N) /\ N - 0 + 1 = N + 1
        BY <1>1
    <3>2. IsFiniteSet(0..N) /\ Cardinality(0..N) = IF 0 > N THEN 0 ELSE N - 0 + 1
        BY <3>1, FS_Interval, Zenon
    <3> QED
        BY <3>1, <3>2
  <2>3. Cardinality(taken) < Cardinality(0..N)
      BY <1>1, <2>2
  <2> HIDE DEF f
  <2>4. \E a, b \in 0..N : a # b /\ f[a] = f[b]
      BY <2>1, <2>2, <2>3, FS_PigeonHole
  <2> QED
      BY <2>1, <2>4
<1>3. PICK m \in free : \A n \in free : ~(n < m)
  <2>1. free \subseteq Nat
      BY <1>1
  <2> HIDE DEF free
  <2>2. PICK m \in free : \A n \in free : <<n, m>> \notin OpToRel(<, Nat)
      BY <1>2, <2>1, WFMin, NatLessThanWellFounded, Zenon
  <2>3. ASSUME NEW n \in free, n < m PROVE FALSE
    <3>1. n \in Nat /\ m \in Nat
        BY <2>1
    <3>2. <<n, m>> \in OpToRel(<, Nat)
        BY <2>3, <3>1, Zenon DEF OpToRel
    <3> QED
        BY <2>2, <3>2
  <2> QED
      BY <2>3
<1>5. \A n \in free : m <= n
    BY <1>1, <1>3
<1> DEFINE Least(n) == /\ n[1] = s /\ n \notin taken
                       /\ \A k \in Names : k[1] = s /\ k \notin taken => n[2] <= k[2]
<1>6. <<s, m>> \in Names /\ Least(<<s, m>>)
    BY <1>1, <1>5 DEF Names
<1>7. FreeName(i, taken) = CHOOSE n \in Names : Least(n)
    BY DEF FreeName
<1>8. FreeName(i, taken) \in Names /\ Least(FreeName(i, taken))
    BY <1>6, <1>7, Zenon
<1>9. ASSUME <<s, 0>> \notin taken PROVE FreeName(i, taken) = <<s, 0>>
  <2>1. <<s, 0>> \in Names
      BY <1>1 DEF Names
  <2> QED
      BY <1>1, <1>8, <1>9, <2>1 DEF Names
<1> QED
    BY <1>8, <1>9
(* --- types ------------------------------------------------------------------------------ *)

Payloads(w) == UNION {[K -> Row] : K \in SUBSET KeysOf(w)}
Manifests(w) == [inv : OrNot(InvFiles), content : [Names -> OrNot(ContentFiles)],
                 payload : OrNot(Payloads(w)), index : OrNot(Ledgers(w))]
Bundles(w) == [inv : OrNot(InvFiles), cp : OrNot(SUBSET Results),
               content : [Names -> OrNot(ContentFiles)], payload : OrNot(Payloads(w)),
               index : OrNot(Ledgers(w)), manifest : OrNot(Manifests(w))]

WorldTyped ==
    /\ world \in Worlds /\ version \in [Items -> Versions]
    /\ since \in [Items -> Versions \cup {0}]

FolderTyped ==
    /\ disk \in [Runs -> Bundles(world)] /\ lastRun \in 0..MaxRuns
    /\ latestInventory \in Runs \cup {NoFile}

JobTyped ==
    /\ job \in [stage : Stages, run : Runs \cup {None}, force : BOOLEAN]
    /\ jobs \in 0..MaxJobs /\ crashes \in Nat /\ faults \in Nat
    /\ job.stage # "idle" => job.run \in Runs /\ jobs \in InvFiles

Preparing == job.stage \in {"idle", "inventory", "inventory_pointer", "load"}
Closing == job.stage \in {"payload", "index", "manifest", "pointer"}

(* What each stage has in memory. *)
MemoryTyped ==
    /\ todo \subseteq ContentItems
    /\ working \subseteq [item : ContentItems, name : Names, version : Versions]
    /\ answers \subseteq Results /\ pending \subseteq Results
    /\ \A x \in answers \cup pending : x.item \in ContentItems
    /\ Fetching \/ (todo = {} /\ working = {} /\ answers = {} /\ pending = {})
    /\ IF Preparing THEN rows = NoRows /\ taken = {} ELSE rows \in [UnitKeys -> Row]

(* No more names are taken than items have been taken up. *)
PoolBounded ==
    /\ taken \subseteq Names /\ IsFiniteSet(taken)
    /\ Cardinality(taken) + Cardinality(todo) <= Cardinality(Items)
    /\ IsFiniteSet(working) /\ Cardinality(working) <= Workers
    /\ IsFiniteSet(pending) /\ Cardinality(pending) <= Batch

Typed == WorldTyped /\ FolderTyped /\ JobTyped /\ MemoryTyped /\ PoolBounded

LEMMA TypedImplies == Typed => ExportTypeOK
<1> SUFFICES ASSUME Typed PROVE ExportTypeOK
    OBVIOUS
<1> USE DEF Typed
<1>1. /\ world \in Worlds /\ version \in [Items -> Versions]
      /\ since \in [Items -> Versions \cup {0}]
    BY DEF WorldTyped
<1>2. /\ lastRun \in 0..MaxRuns /\ latestInventory \in Runs \cup {NoFile}
      /\ \A r \in Runs : /\ disk[r].inv \in OrNot(InvFiles)
                          /\ disk[r].cp \in OrNot(SUBSET Results)
                          /\ disk[r].content \in [Names -> OrNot(ContentFiles)]
                          /\ disk[r].index \in OrNot(Ledgers(world))
    BY DEF FolderTyped, Bundles
<1>3. job \in [stage : Stages, run : Runs \cup {None}, force : BOOLEAN]
    BY DEF JobTyped
<1>4. /\ todo \subseteq ContentItems /\ answers \cup pending \subseteq Results
      /\ working \subseteq [item : ContentItems, name : Names, version : Versions]
      /\ \A x \in answers \cup pending : x.item \in ContentItems
    BY DEF MemoryTyped
<1>5. DOMAIN rows \in {{}, UnitKeys} /\ \A k \in DOMAIN rows : rows[k] \in Row
    BY DEF MemoryTyped, NoRows
<1>6. taken \subseteq Names /\ Cardinality(working) <= Workers /\ Cardinality(pending) <= Batch
    BY DEF PoolBounded
<1> QED
    BY <1>1, <1>2, <1>3, <1>4, <1>5, <1>6 DEF ExportTypeOK

LEMMA ItemsFinite == /\ IsFiniteSet(Items) /\ Cardinality(Items) \in Nat
                     /\ \A S \in SUBSET Items : IsFiniteSet(S) /\ Cardinality(S) \in Nat
                                               /\ Cardinality(S) <= Cardinality(Items)
BY WorldsAssumption, FS_CardinalityType, FS_Subset

LEMMA ContentItemsAreItems == ContentItems \subseteq Items
BY ContentItem

LEMMA MaxesTyped == MaxRuns \in Nat /\ MaxJobs \in Nat /\ MaxVersion \in Nat \ {0}
BY BoundsAssumption

LEMMA NothingCounted == IsFiniteSet({}) /\ Cardinality({}) = 0
BY FS_EmptySet

(* A content file is written, and nothing else on disk changes. *)
LEMMA ContentWritten ==
    ASSUME FolderTyped, job.run \in Runs, NEW n \in Names, NEW file \in OrNot(ContentFiles),
           disk' = [disk EXCEPT ![job.run].content[n] = file], world' = world,
           UNCHANGED <<lastRun, latestInventory>>
    PROVE  /\ FolderTyped'
           /\ \A r \in Runs :
                 /\ \A m \in Names : disk'[r].content[m] =
                       IF r = job.run /\ m = n THEN file ELSE disk[r].content[m]
                 /\ disk'[r].inv = disk[r].inv /\ disk'[r].cp = disk[r].cp
                 /\ disk'[r].payload = disk[r].payload /\ disk'[r].index = disk[r].index
                 /\ disk'[r].manifest = disk[r].manifest
<1> DEFINE b == disk[job.run]
<1>1. b \in Bundles(world) /\ disk \in [Runs -> Bundles(world)]
    BY DEF FolderTyped
<1>2. [b EXCEPT !.content[n] = file] \in Bundles(world)
  <2>1. [b.content EXCEPT ![n] = file] \in [Names -> OrNot(ContentFiles)]
      BY <1>1 DEF Bundles
  <2> QED
      BY <1>1, <2>1 DEF Bundles
<1>3. disk' \in [Runs -> Bundles(world)]
    BY <1>1, <1>2
<1>4. ASSUME NEW r \in Runs
      PROVE  /\ \A m \in Names : disk'[r].content[m] =
                   IF r = job.run /\ m = n THEN file ELSE disk[r].content[m]
             /\ disk'[r].inv = disk[r].inv /\ disk'[r].cp = disk[r].cp
             /\ disk'[r].payload = disk[r].payload /\ disk'[r].index = disk[r].index
             /\ disk'[r].manifest = disk[r].manifest
    BY <1>1 DEF Bundles
<1> QED
    BY <1>3, <1>4 DEF FolderTyped

LEMMA TypedInit == Init => Typed
<1> SUFFICES ASSUME Init PROVE Typed
    OBVIOUS
<1>1. WorldTyped
    BY BoundsAssumption DEF Init, WorldTyped, Versions
<1>2. NewBundle \in Bundles(world)
    BY DEF NewBundle, Bundles, OrNot
<1>3. FolderTyped
    BY <1>2, BoundsAssumption DEF Init, FolderTyped
<1>4. JobTyped
    BY BoundsAssumption DEF Init, JobTyped, Idle, Stages
<1>5. MemoryTyped
    BY DEF Init, MemoryTyped, Idle, Preparing
<1>6. PoolBounded
    BY ItemsFinite, NothingCounted, BatchAssumption DEF Init, PoolBounded
<1> QED
    BY <1>1, <1>3, <1>4, <1>5, <1>6 DEF Typed
(* However a notebook ends, its memory is gone. *)
LEMMA EndTyped ==
    ASSUME Typed, EndJob, UNCHANGED <<source, jobs>>, crashes' \in Nat, faults' \in Nat
    PROVE  WorldTyped' /\ JobTyped' /\ MemoryTyped' /\ PoolBounded'
<1> USE DEF EndJob, ForgetMemory, source
<1>1. WorldTyped'
    BY DEF Typed, WorldTyped
<1>2. JobTyped'
    BY DEF Typed, JobTyped, Idle, Stages
<1>3. MemoryTyped'
    BY DEF MemoryTyped, Idle, Preparing
<1>4. PoolBounded'
    BY ItemsFinite, NothingCounted, BatchAssumption DEF PoolBounded
<1> QED
    BY <1>1, <1>2, <1>3, <1>4

LEMMA StartTyped ==
    ASSUME Typed, StartInventory \/ StartExport PROVE Typed'
<1>1. PICK stage \in {"inventory", "load"}, r \in Runs, force \in BOOLEAN :
         StartJob(stage, r, force) /\ lastRun' \in 0..MaxRuns
  <2>1. CASE StartInventory
    <3>1. PICK explicit \in {None} \cup 1..lastRun, force \in BOOLEAN :
             \E r \in InventoryRuns(explicit, force) :
                 /\ StartJob("inventory", r, FALSE)
                 /\ lastRun' = IF r > lastRun THEN r ELSE lastRun
        BY <2>1 DEF StartInventory
    <3>2. InventoryRuns(explicit, force) \subseteq Runs
        BY BoundsAssumption DEF InventoryRuns, IncompleteRuns, FreshRuns, Runs, Typed, FolderTyped
    <3>3. PICK r \in Runs : /\ StartJob("inventory", r, FALSE)
                            /\ lastRun' = IF r > lastRun THEN r ELSE lastRun
        BY <3>1, <3>2
    <3>4. lastRun' \in 0..MaxRuns
        BY <3>3, MaxesTyped DEF Runs, Typed, FolderTyped
    <3> QED
        BY <3>3, <3>4
  <2>2. CASE StartExport
    <3>1. PICK explicit \in {None} \cup 1..lastRun, force \in BOOLEAN :
             \E r \in ExportRuns(explicit, force) :
                 StartJob("load", r, force) /\ UNCHANGED lastRun
        BY <2>2 DEF StartExport
    <3>2. ExportRuns(explicit, force) \subseteq Runs
        BY BoundsAssumption DEF ExportRuns, IncompleteRuns, Runs, Typed, FolderTyped
    <3> QED
        BY <3>1, <3>2 DEF Typed, FolderTyped
  <2> QED
      BY <2>1, <2>2
<1> USE <1>1 DEF StartJob, source
<1>2. WorldTyped'
    BY DEF Typed, WorldTyped
<1>3. FolderTyped'
    BY DEF Typed, FolderTyped
<1>4. JobTyped'
  <2>1. job' \in [stage : Stages, run : Runs \cup {None}, force : BOOLEAN] /\ job'.run \in Runs
      BY DEF Stages
  <2>2. jobs \in 0..MaxJobs /\ jobs < MaxJobs /\ jobs' = jobs + 1 /\ crashes \in Nat /\ faults \in Nat
      BY DEF Typed, JobTyped
  <2> QED
      BY <2>1, <2>2, MaxesTyped DEF JobTyped, InvFiles
<1>5. MemoryTyped'
    BY SameWorld DEF Typed, MemoryTyped, Preparing, Fetching
<1>6. PoolBounded'
    BY DEF Typed, PoolBounded
<1> QED
    BY <1>2, <1>3, <1>4, <1>5, <1>6 DEF Typed

LEMMA InventoryTyped ==
    ASSUME Typed, WriteInventory \/ WriteInventoryPointer PROVE Typed'
<1>1. CASE WriteInventory
  <2> USE <1>1 DEF WriteInventory, Goto, source, memory, budget
  <2>1. job.run \in Runs /\ jobs \in InvFiles
      BY DEF Typed, JobTyped
  <2>2. [disk[job.run] EXCEPT !.inv = jobs] \in Bundles(world)
      BY <2>1 DEF Typed, FolderTyped, Bundles, OrNot
  <2>3. FolderTyped'
      BY <2>1, <2>2 DEF Typed, FolderTyped
  <2>4. WorldTyped' /\ JobTyped' /\ PoolBounded'
      BY DEF Typed, WorldTyped, JobTyped, PoolBounded, Stages
  <2>5. MemoryTyped'
      BY SameWorld DEF Typed, JobTyped, MemoryTyped, Preparing, Fetching
  <2> QED
      BY <2>3, <2>4, <2>5 DEF Typed
<1>2. CASE WriteInventoryPointer
  <2>1. FolderTyped'
      BY <1>2 DEF WriteInventoryPointer, Typed, FolderTyped, JobTyped, source
  <2> QED
      BY <1>2, <2>1, EndTyped DEF WriteInventoryPointer, Typed, JobTyped, budget
<1> QED
    BY <1>1, <1>2

LEMMA BuiltRowTyped ==
    ASSUME NEW k \in UnitKeys
    PROVE  /\ BuiltRow(k) \in Row /\ BuiltRow(k).ref = None /\ BuiltRow(k).hash = None
           /\ BuiltRow(k).status = InitialStatus(UnitOf(k), ToggledTypes)
<1>1. UnitOf(k) \in BuildUnits(world.record[k[1]])
    BY UnitOfKey
<1>2. ModeStatus(UnitOf(k).mode) \in Statuses
    BY <1>1, BuiltUnits DEF ModeStatus, Modes, Statuses
<1> QED
    BY <1>1, <1>2, StatusAndActionTyped DEF BuiltRow, Row

LEMMA LoadTyped == ASSUME Typed, Load PROVE Typed'
<1> USE DEF Load, Goto, source, staging, budget
<1> DEFINE done == Resumed(bundle, job.force)
           x(k) == CHOOSE x \in CheckpointResults(bundle) : x.item = k[1]
<1>1. job.run \in Runs
    BY DEF Typed, JobTyped
<1>2. CheckpointResults(bundle) \subseteq Results
    BY <1>1 DEF CheckpointResults, bundle, Typed, FolderTyped, Bundles, OrNot
<1>3. \A k \in UnitKeys : (IF k \in ContentKeys /\ k[1] \in done
                          THEN ResumedRow(k, x(k)) ELSE BuiltRow(k)) \in Row
  <2> SUFFICES ASSUME NEW k \in UnitKeys, k[1] \in done
               PROVE  ResumedRow(k, x(k)) \in Row
      BY BuiltRowTyped
  <2>1. x(k) \in CheckpointResults(bundle)
      BY DEF Resumed
  <2>2. x(k) \in Results /\ BuiltRow(k) \in Row
      BY <1>2, <2>1, BuiltRowTyped
  <2> HIDE DEF x
  <2> QED
      BY <2>2 DEF ResumedRow, Results, Row, Statuses
<1>4. rows' \in [UnitKeys -> Row]
    BY <1>3
<1>5. MemoryTyped'
    BY <1>4, SameWorld DEF Typed, MemoryTyped, Preparing, Fetching
<1>6. PoolBounded'
  <2>1. todo' \subseteq Items
      BY ContentItemsAreItems
  <2>2. Cardinality(todo') \in Nat /\ Cardinality(todo') <= Cardinality(Items)
      BY <2>1, ItemsFinite
  <2>3. taken = {} /\ taken' = {}
      BY DEF Typed, MemoryTyped, Preparing
  <2> QED
      BY <2>2, <2>3, NothingCounted, ItemsFinite DEF Typed, PoolBounded
<1>7. WorldTyped' /\ FolderTyped' /\ JobTyped'
    BY DEF Typed, WorldTyped, FolderTyped, JobTyped, Stages
<1> QED
    BY <1>5, <1>6, <1>7 DEF Typed
LEMMA FetchTyped ==
    ASSUME Typed, NEW i, Fetch(i)
    PROVE  /\ Typed' /\ i \in ContentItems
           /\ world.stem[i] \in Stems /\ IsFiniteSet(taken)
           /\ Cardinality(taken) <= Cardinality(Items)
<1> USE DEF Fetch, source, staging, budget
<1> DEFINE name == FreeName(i, taken)
<1>1. i \in ContentItems /\ i \in Items
    BY ContentItemsAreItems DEF Typed, MemoryTyped
<1>2. world.stem[i] \in Stems
    BY <1>1, WorldsAssumption DEF Typed, WorldTyped
<1>3. IsFiniteSet(todo) /\ Cardinality(todo) \in Nat /\ Cardinality(Items) \in Nat
    BY ItemsFinite, ContentItemsAreItems DEF Typed, MemoryTyped
<1>4. /\ IsFiniteSet(taken) /\ Cardinality(taken) \in Nat
      /\ Cardinality(taken) <= Cardinality(Items)
    BY <1>3, FS_CardinalityType DEF Typed, PoolBounded
<1>5. name \in Names /\ name \notin taken
    BY <1>2, <1>4, FreeNameIsFree
<1> HIDE DEF name
<1>6. PoolBounded'
  <2>1. /\ IsFiniteSet(taken') /\ Cardinality(taken') = Cardinality(taken) + 1
        /\ taken' \subseteq Names
      BY <1>4, <1>5, FS_AddElement DEF name, Typed, PoolBounded
  <2>2. Cardinality(todo') = Cardinality(todo) - 1
      BY <1>3, FS_RemoveElement
  <2>3. IsFiniteSet(working') /\ Cardinality(working') <= Workers
    <3> DEFINE w == [item |-> i, name |-> name, version |-> version[i]]
    <3>1. working' = working \cup {w}
        BY DEF name
    <3> HIDE DEF w
    <3>2. Cardinality(working) \in Nat /\ Cardinality(working) < Workers /\ IsFiniteSet(working)
        BY FS_CardinalityType DEF Typed, PoolBounded
    <3> HIDE DEF Fetch
    <3>3. IsFiniteSet(working \cup {w}) /\ Cardinality(working \cup {w})
             = IF w \in working THEN Cardinality(working) ELSE Cardinality(working) + 1
        BY <3>2, FS_AddElement, Zenon
    <3> QED
        BY <3>1, <3>2, <3>3, BatchAssumption
  <2> QED
      BY <1>3, <1>4, <2>1, <2>2, <2>3 DEF Typed, PoolBounded
<1>7. MemoryTyped'
  <2>1. [item |-> i, name |-> name, version |-> version[i]]
           \in [item : ContentItems, name : Names, version : Versions]
      BY <1>1, <1>5 DEF Typed, WorldTyped
  <2> QED
      BY <2>1, SameWorld DEF name, Typed, MemoryTyped, Preparing, Fetching
<1>8. WorldTyped' /\ FolderTyped' /\ JobTyped'
    BY DEF Typed, WorldTyped, FolderTyped, JobTyped
<1> QED
    BY <1>1, <1>2, <1>4, <1>6, <1>7, <1>8 DEF Typed

LEMMA FetchNothingTyped ==
    ASSUME Typed, NEW i, FetchNothing(i)
    PROVE  Typed' /\ i \in ContentItems
<1> USE DEF FetchNothing, source, staging
<1>1. i \in ContentItems /\ i \in Items
    BY ContentItemsAreItems DEF Typed, MemoryTyped
<1>2. PoolBounded'
  <2>1. IsFiniteSet(todo) /\ Cardinality(todo) \in Nat /\ Cardinality(Items) \in Nat
      BY ItemsFinite, ContentItemsAreItems DEF Typed, MemoryTyped
  <2>2. Cardinality(todo') = Cardinality(todo) - 1 /\ Cardinality(taken) \in Nat
      BY <2>1, FS_RemoveElement, FS_CardinalityType DEF Typed, PoolBounded
  <2> QED
      BY <2>1, <2>2 DEF Typed, PoolBounded
<1>3. MemoryTyped'
  <2>1. PICK status \in {"failure", "skipped_oversize"} :
           answers' = answers \cup {Answer(i, status, None, None)}
      OBVIOUS
  <2>2. Answer(i, status, None, None) \in Results /\ Answer(i, status, None, None).item = i
      BY <1>1 DEF Answer, Results
  <2> QED
      BY <1>1, <2>1, <2>2, SameWorld DEF Typed, MemoryTyped, Preparing, Fetching
<1>4. WorldTyped' /\ FolderTyped' /\ JobTyped'
    BY DEF Typed, WorldTyped, FolderTyped, JobTyped
<1> QED
    BY <1>1, <1>2, <1>3, <1>4 DEF Typed

(* What a worker hands over when it has written its file, or could not. *)
LEMMA HandedOverTyped ==
    ASSUME Typed, Fetching, NEW w \in working, NEW x \in Results, x.item = w.item,
           working' = working \ {w}, answers' = answers \cup {x},
           UNCHANGED <<source, job, rows, todo, taken, pending, since>>
    PROVE  MemoryTyped' /\ PoolBounded' /\ WorldTyped'
<1> USE DEF source
<1>1. MemoryTyped'
    BY SameWorld DEF Typed, MemoryTyped, Preparing, Fetching
<1>2. PoolBounded'
  <2>1. /\ IsFiniteSet(working \ {w}) /\ Cardinality(working \ {w}) = Cardinality(working) - 1
        /\ Cardinality(working) \in Nat
      BY FS_RemoveElement, FS_CardinalityType DEF Typed, PoolBounded
  <2> QED
      BY <2>1, BatchAssumption DEF Typed, PoolBounded
<1> QED
    BY <1>1, <1>2 DEF Typed, WorldTyped

LEMMA WorkerTyped ==
    ASSUME Typed, NEW w \in working, Written(w) \/ WriteFails(w) PROVE Typed'
<1>1. job.run \in Runs /\ w \in [item : ContentItems, name : Names, version : Versions]
      /\ w.item \in Items
    BY ContentItemsAreItems DEF Written, WriteFails, Fetching, Typed, JobTyped, MemoryTyped
<1>2. CASE Written(w)
  <2>1. Answer(w.item, "success", w.name, w.version) \in Results
      BY <1>1 DEF Answer, Results
  <2>2. MemoryTyped' /\ PoolBounded' /\ WorldTyped'
      BY <1>2, <2>1, HandedOverTyped DEF Written, Answer, source
  <2>3. FolderTyped'
    <3>1. <<w.item, w.version>> \in OrNot(ContentFiles) /\ w.name \in Names
        BY <1>1 DEF OrNot, ContentFiles
    <3> QED
        BY <1>1, <1>2, <3>1, ContentWritten DEF Written, Typed, source
  <2> QED
      BY <1>2, <2>2, <2>3 DEF Written, Typed, JobTyped, budget
<1>3. CASE WriteFails(w)
  <2>1. Answer(w.item, "failure", None, None) \in Results
      BY <1>1 DEF Answer, Results
  <2>2. MemoryTyped' /\ PoolBounded' /\ WorldTyped'
      BY <1>3, <2>1, HandedOverTyped DEF WriteFails, Answer, source
  <2>3. FolderTyped'
    <3>1. Torn \in OrNot(ContentFiles) /\ w.name \in Names
        BY <1>1 DEF OrNot
    <3> QED
        BY <1>1, <1>3, <3>1, ContentWritten DEF WriteFails, Typed, source
  <2> QED
      BY <1>3, <2>2, <2>3 DEF WriteFails, Typed, JobTyped
<1> QED
    BY <1>2, <1>3

LEMMA ConsumeTyped ==
    ASSUME Typed, NEW x \in answers, Consume(x)
    PROVE  /\ Typed' /\ KeyOf(x.item) \in ContentKeys /\ x \in Results
           /\ \A k \in UnitKeys :
                 rows'[k] = IF k = KeyOf(x.item) THEN Concluded(rows[k], x) ELSE rows[k]
<1> USE DEF Consume, source, staging, budget
<1>1. x \in Results /\ x.item \in ContentItems /\ KeyOf(x.item) \in ContentKeys
    BY ContentItem DEF Typed, MemoryTyped
<1>2. KeyOf(x.item) \in UnitKeys /\ rows \in [UnitKeys -> Row]
    BY <1>1, ContentKey DEF Typed, MemoryTyped, Preparing
<1>3. rows' \in [UnitKeys -> Row]
  <2>1. rows[KeyOf(x.item)] \in Row
      BY <1>2
  <2>2. Concluded(rows[KeyOf(x.item)], x) \in Row
      BY <1>1, <2>1 DEF Concluded, Results, Row, Statuses
  <2> QED
      BY <1>2, <2>2
<1>7. \A k \in UnitKeys :
         rows'[k] = IF k = KeyOf(x.item) THEN Concluded(rows[k], x) ELSE rows[k]
    BY <1>2
<1>4. MemoryTyped'
    BY <1>1, <1>3, SameWorld DEF Typed, MemoryTyped, Preparing, Fetching
<1>5. PoolBounded'
  <2>1. IsFiniteSet(pending) /\ Cardinality(pending) \in Nat
      BY FS_CardinalityType DEF Typed, PoolBounded
  <2>2. /\ IsFiniteSet(pending \cup {x})
        /\ Cardinality(pending \cup {x})
             = IF x \in pending THEN Cardinality(pending) ELSE Cardinality(pending) + 1
      BY <2>1, FS_AddElement, Zenon
  <2>3. IsFiniteSet(pending') /\ Cardinality(pending') <= Batch
      BY <2>1, <2>2, BatchAssumption
  <2> QED
      BY <2>3 DEF Typed, PoolBounded
<1>6. WorldTyped' /\ FolderTyped' /\ JobTyped'
    BY DEF Typed, WorldTyped, FolderTyped, JobTyped
<1> QED
    BY <1>1, <1>2, <1>4, <1>5, <1>6, <1>7 DEF Typed
LEMMA FlushTyped ==
    ASSUME Typed, FlushContent \/ FlushRaises \/ Drained PROVE Typed'
<1>1. CASE FlushContent
  <2> USE <1>1 DEF FlushContent, source
  <2>1. job.run \in Runs /\ bundle \in Bundles(world)
      BY DEF Typed, JobTyped, FolderTyped, bundle
  <2>2. CheckpointResults(bundle) \subseteq Results /\ pending \subseteq Results
      BY <2>1 DEF CheckpointResults, Bundles, OrNot, Typed, MemoryTyped
  <2>3. MergeResults(CheckpointResults(bundle), pending) \in OrNot(SUBSET Results)
      BY <2>2 DEF MergeResults, OrNot
  <2>4. FolderTyped'
      BY <2>1, <2>3 DEF Typed, FolderTyped, Bundles
  <2>5. MemoryTyped' /\ PoolBounded'
      BY SameWorld, NothingCounted, BatchAssumption
      DEF Typed, MemoryTyped, Preparing, Fetching, PoolBounded
  <2> QED
      BY <2>4, <2>5 DEF Typed, WorldTyped, JobTyped, budget
<1>2. CASE FlushRaises
  <2> USE <1>2 DEF FlushRaises, Goto, source, staging, memory, budget
  <2>1. JobTyped'
      BY DEF Typed, JobTyped, Stages
  <2>2. MemoryTyped'
      BY SameWorld DEF Typed, JobTyped, MemoryTyped, Preparing, Fetching
  <2> QED
      BY <2>1, <2>2 DEF Typed, WorldTyped, FolderTyped, PoolBounded
<1>3. CASE Drained
  <2>1. FolderTyped'
      BY <1>3 DEF Drained, Typed, FolderTyped, staging, source
  <2> QED
      BY <1>3, <2>1, EndTyped DEF Drained, Typed, JobTyped, budget
<1> QED
    BY <1>1, <1>2, <1>3

LEMMA RefreshedTyped ==
    ASSUME Typed, NEW k \in UnitKeys, rows[k] \in Row
    PROVE  /\ Refreshed(k) \in Row
           /\ Refreshed(k).status = rows[k].status /\ Refreshed(k).ref = rows[k].ref
           /\ Refreshed(k).hash = rows[k].hash
           /\ Refreshed(k).action = ImportAction(UnitOf(k), rows[k].status)
<1>1. ImportAction(UnitOf(k), rows[k].status) \in Actions
    BY UnitOfKey, StatusAndActionTyped DEF Row
<1> QED
    BY <1>1 DEF Refreshed, Row

LEMMA ContentOverTyped ==
    ASSUME Typed, ContentOver
    PROVE  Typed' /\ rows \in [UnitKeys -> Row] /\ rows' = [k \in UnitKeys |-> Refreshed(k)]
<1> USE DEF ContentOver, Goto, source, staging, budget
<1>1. rows \in [UnitKeys -> Row]
    BY DEF Typed, MemoryTyped, Preparing
<1>2. rows' = [k \in UnitKeys |-> Refreshed(k)] /\ rows' \in [UnitKeys -> Row]
    BY <1>1, RefreshedTyped
<1>3. MemoryTyped'
    BY <1>2, SameWorld DEF Typed, JobTyped, MemoryTyped, Preparing, Fetching
<1>4. JobTyped'
    BY DEF Typed, JobTyped, Stages
<1> QED
    BY <1>1, <1>2, <1>3, <1>4 DEF Typed, WorldTyped, FolderTyped, PoolBounded

(* Nothing but the stage changes in memory while the closing files are written. *)
LEMMA ClosingTyped ==
    ASSUME Typed, Closing, Goto("index") \/ Goto("manifest") \/ Goto("pointer"),
           UNCHANGED <<source, memory, budget>>
    PROVE  WorldTyped' /\ JobTyped' /\ MemoryTyped' /\ PoolBounded' /\ job.run \in Runs
<1> USE DEF Goto, source, memory, budget, Closing
<1>1. JobTyped' /\ job.run \in Runs
    BY DEF Typed, JobTyped, Stages
<1>2. MemoryTyped'
    BY SameWorld DEF Typed, JobTyped, MemoryTyped, Preparing, Fetching
<1> QED
    BY <1>1, <1>2 DEF Typed, WorldTyped, PoolBounded

PayloadOf(written) ==
    [k \in {k \in DOMAIN written : InArtifactFile(UnitOf(k), written[k].status)} |-> written[k]]

LEMMA PayloadTyped ==
    ASSUME rows \in [UnitKeys -> Row]
    PROVE  /\ PayloadOf(rows) \in Payloads(world)
           /\ \A k \in DOMAIN PayloadOf(rows) : k \in UnitKeys /\ PayloadOf(rows)[k] = rows[k]
<1> DEFINE K == {k \in UnitKeys : InArtifactFile(UnitOf(k), rows[k].status)}
<1>1. PayloadOf(rows) = [k \in K |-> rows[k]]
    BY DEF PayloadOf
<1>2. K \in SUBSET KeysOf(world) /\ [k \in K |-> rows[k]] \in [K -> Row]
    BY DEF UnitKeys
<1> HIDE DEF K
<1>3. PayloadOf(rows) \in Payloads(world)
    BY <1>1, <1>2, Zenon DEF Payloads
<1> QED
    BY <1>1, <1>2, <1>3 DEF UnitKeys

LEMMA ClosingFilesTyped ==
    ASSUME Typed, WritePayload \/ WriteIndex \/ WriteManifest \/ WriteExportPointer
    PROVE  Typed'
<1>1. Closing /\ rows \in [UnitKeys -> Row] /\ job.run \in Runs /\ bundle \in Bundles(world)
    BY DEF WritePayload, WriteIndex, WriteManifest, WriteExportPointer, Closing, Typed,
           MemoryTyped, Preparing, JobTyped, FolderTyped, bundle
<1>2. CASE WritePayload
  <2>1. disk' = [disk EXCEPT ![job.run].payload = PayloadOf(rows)]
      BY <1>2 DEF WritePayload, PayloadOf
  <2>2. PayloadOf(rows) \in OrNot(Payloads(world))
    <3>1. PayloadOf(rows) \in Payloads(world)
        BY <1>1, PayloadTyped
    <3> QED
        BY <3>1 DEF OrNot
  <2>3. FolderTyped'
    <3>1. world' = world /\ lastRun' = lastRun /\ latestInventory' = latestInventory
        BY <1>2 DEF WritePayload, source
    <3> QED
        BY <1>1, <2>1, <2>2, <3>1 DEF Typed, FolderTyped, Bundles
  <2> QED
      BY <1>1, <1>2, <2>3, ClosingTyped DEF WritePayload, Typed
<1>3. CASE WriteIndex
  <2>1. [inv |-> bundle.inv, rows |-> rows] \in OrNot(Ledgers(world))
      BY <1>1 DEF OrNot, Ledgers, Bundles, UnitKeys
  <2>2. FolderTyped'
      BY <1>1, <1>3, <2>1 DEF WriteIndex, Typed, FolderTyped, Bundles, source
  <2> QED
      BY <1>1, <1>3, <2>2, ClosingTyped DEF WriteIndex, Typed
<1>4. CASE WriteManifest
  <2>1. Checksums(bundle) \in OrNot(Manifests(world))
      BY <1>1 DEF Checksums, OrNot, Manifests, Bundles
  <2>2. FolderTyped'
      BY <1>1, <1>4, <2>1 DEF WriteManifest, Typed, FolderTyped, Bundles, source
  <2> QED
      BY <1>1, <1>4, <2>2, ClosingTyped DEF WriteManifest, Typed
<1>5. CASE WriteExportPointer
  <2>1. FolderTyped'
      BY <1>5 DEF WriteExportPointer, Typed, FolderTyped, source
  <2> QED
      BY <1>5, <2>1, EndTyped DEF WriteExportPointer, Typed, JobTyped, budget
<1> QED
    BY <1>2, <1>3, <1>4, <1>5

LEMMA OthersTyped ==
    ASSUME Typed, RefuseExport \/ \E i \in Items : Edit(i) PROVE Typed'
<1>1. CASE RefuseExport
  <2>1. FolderTyped'
      BY <1>1 DEF RefuseExport, Typed, FolderTyped, staging, source
  <2> QED
      BY <1>1, <2>1, EndTyped DEF RefuseExport, Typed, JobTyped, budget
<1>2. CASE \E i \in Items : Edit(i)
  <2> PICK i \in Items : Edit(i)
      BY <1>2
  <2> USE DEF Edit, staging, memory, budget
  <2>1. version' \in [Items -> Versions]
      BY MaxesTyped DEF Typed, WorldTyped, Versions
  <2> QED
      BY <2>1, SameWorld DEF Typed, WorldTyped, FolderTyped, JobTyped, MemoryTyped, PoolBounded,
         Preparing, Fetching
<1> QED
    BY <1>1, <1>2

(* A crash tears files that were being written, and changes no other. *)
LEMMA CrashTyped ==
    ASSUME Typed, Crash
    PROVE  /\ Typed' /\ job.run \in Runs
           /\ \A r \in Runs : r # job.run => disk'[r] = disk[r]
           /\ disk'[job.run].cp \in {bundle.cp, Torn}
           /\ disk'[job.run].manifest \in {bundle.manifest, Torn}
           /\ \A n \in Names : \/ disk'[job.run].content[n] = bundle.content[n]
                               \/ \E w \in working : w.name = n
<1>1. job.run \in Runs /\ bundle \in Bundles(world) /\ disk \in [Runs -> Bundles(world)]
    BY DEF Crash, Typed, JobTyped, FolderTyped, bundle
<1>2. PICK b \in {bundle} \cup TornBundle(bundle), ws \in SUBSET working :
         disk' = [disk EXCEPT ![job.run] = TornContent(b, ws)]
    BY DEF Crash
<1>3. /\ b \in Bundles(world) /\ b.content = bundle.content
      /\ b.cp \in {bundle.cp, Torn} /\ b.manifest \in {bundle.manifest, Torn}
  <2>1. \/ b = bundle \/ b = [bundle EXCEPT !.inv = Torn] \/ b = [bundle EXCEPT !.cp = Torn]
        \/ b = [bundle EXCEPT !.payload = Torn] \/ b = [bundle EXCEPT !.index = Torn]
        \/ b = [bundle EXCEPT !.manifest = Torn]
      BY Zenon DEF TornBundle
  <2> QED
      BY <1>1, <2>1 DEF Bundles, OrNot
<1> DEFINE files == [n \in Names |-> IF \E w \in ws : w.name = n THEN Torn ELSE b.content[n]]
<1>4. TornContent(b, ws) = [b EXCEPT !.content = files]
    BY DEF TornContent
<1>5. /\ files \in [Names -> OrNot(ContentFiles)]
      /\ \A n \in Names : files[n] = bundle.content[n] \/ \E w \in working : w.name = n
    BY <1>1, <1>3 DEF Bundles, OrNot
<1> HIDE DEF files
<1>6. /\ TornContent(b, ws) \in Bundles(world) /\ TornContent(b, ws).content = files
      /\ TornContent(b, ws).cp = b.cp /\ TornContent(b, ws).manifest = b.manifest
    BY <1>3, <1>4, <1>5 DEF Bundles
<1>7. FolderTyped'
    BY <1>1, <1>2, <1>6 DEF Crash, Typed, FolderTyped, source
<1>8. Typed'
    BY <1>7, EndTyped DEF Crash, Typed, JobTyped
<1> QED
    BY <1>1, <1>2, <1>3, <1>5, <1>6, <1>8

LEMMA TypedNext == Typed /\ [Next]_vars => Typed'
<1> SUFFICES ASSUME Typed, [Next]_vars PROVE Typed'
    OBVIOUS
<1>1. CASE Next
    BY <1>1, StartTyped, InventoryTyped, LoadTyped, FetchTyped, FetchNothingTyped, WorkerTyped,
       ConsumeTyped, FlushTyped, ContentOverTyped, ClosingFilesTyped, OthersTyped, CrashTyped
    DEF Next, WorkerStep, MainStep
<1>2. CASE UNCHANGED vars
    BY <1>2, SameWorld DEF vars, source, staging, memory, budget, Typed, WorldTyped, FolderTyped,
       JobTyped, MemoryTyped, PoolBounded, Preparing, Fetching
<1> QED
    BY <1>1, <1>2

LEMMA AlwaysTyped == Spec => []Typed
BY TypedInit, TypedNext, PTL DEF Spec

(* The type invariant, whatever the inventory, the folder and the bounds. *)
THEOREM ExportIsTyped == Spec => []ExportTypeOK
BY AlwaysTyped, TypedImplies, PTL
(* --- every item is taken up once, under a name of its own ---------------------------------- *)

OwnName(i) == <<world.stem[i], 0>>
Returned == answers \cup pending

(* Who works on an item, and what came back, have nothing in common. *)
ItemsOnce ==
    /\ \A w \in working : w.item \notin todo
    /\ \A x \in Returned : x.item \notin todo
    /\ \A w \in working, x \in Returned : w.item # x.item
    /\ \A v, w \in working : v.item = w.item => v = w
    /\ \A x, y \in Returned : x.item = y.item => x = y
    /\ answers \cap pending = {}

NamesOnce ==
    /\ \A w \in working : w.name \in taken /\ w.name[1] = world.stem[w.item]
    /\ \A x \in Returned : x.ref # None => x.ref \in taken
    /\ \A w \in working, x \in Returned : w.name # x.ref
    /\ \A v, w \in working : v.name = w.name => v = w
    /\ \A x, y \in Returned : x.ref = y.ref /\ x.ref # None => x = y

(* A stem that one item has is free until the item is taken up. *)
OwnNames ==
    /\ \A i \in todo : OwnStem(i) => \A n \in taken : n[1] # world.stem[i]
    /\ \A w \in working : OwnStem(w.item) => w.name = OwnName(w.item)

AnswersGood ==
    /\ \A x \in Returned :
          IF x.status = "success"
          THEN /\ x.ref \in Names /\ x.hash \in Versions
               /\ OwnStem(x.item) => x.ref = OwnName(x.item)
          ELSE x.ref = None /\ x.hash = None
    /\ \A x \in pending : x.status \in Produced

Apart == ItemsOnce /\ NamesOnce /\ OwnNames /\ AnswersGood

LEMMA ApartImplies == Apart => OneProcessKeepsNamesApart
BY DEF Apart, ItemsOnce, NamesOnce, OneProcessKeepsNamesApart, Returned

LEMMA NothingInFlight ==
    ASSUME todo' = {}, working' = {}, answers' = {}, pending' = {} PROVE Apart'
BY DEF Apart, ItemsOnce, NamesOnce, OwnNames, AnswersGood, Returned

LEMMA FetchApart ==
    ASSUME Typed, Apart, NEW i, Fetch(i) PROVE Apart'
<1> DEFINE name == FreeName(i, taken)
           w == [item |-> i, name |-> name, version |-> version[i]]
<1>1. /\ world' = world /\ i \in todo /\ todo' = todo \ {i} /\ working' = working \cup {w}
      /\ taken' = taken \cup {name} /\ answers' = answers /\ pending' = pending
    BY DEF Fetch, source
<1>2. /\ i \in ContentItems /\ i \in Items /\ name \notin taken /\ name \in Names
      /\ name[1] = world.stem[i] /\ (OwnName(i) \notin taken => name = OwnName(i))
    BY FetchTyped, FreeNameIsFree, ContentItemsAreItems DEF OwnName
<1>3. \A j : OwnStem(j)' = OwnStem(j) /\ OwnName(j)' = OwnName(j)
    BY <1>1, SameWorld DEF OwnName
<1>4. w.item = i /\ w.name = name
    OBVIOUS
<1>5. None \notin Names
    BY MarkersAssumption
<1> HIDE DEF w, name
<1>6. ItemsOnce'
    BY <1>1, <1>4 DEF Apart, ItemsOnce, Returned
<1>7. NamesOnce'
    BY <1>1, <1>2, <1>4, <1>5 DEF Apart, NamesOnce, Returned
<1>8. OwnNames'
  <2>1. OwnStem(i) => name = OwnName(i)
      BY <1>1, <1>2 DEF Apart, OwnNames, OwnName
  <2>2. ASSUME NEW j \in todo', OwnStem(j), NEW n \in taken' PROVE n[1] # world.stem[j]
    <3>1. j \in todo /\ j # i
        BY <1>1, <2>2
    <3>2. CASE n \in taken
        BY <2>2, <3>1, <3>2 DEF Apart, OwnNames
    <3>3. CASE n = name
        BY <1>2, <2>2, <3>1, <3>3 DEF OwnStem
    <3> QED
        BY <1>1, <3>2, <3>3
  <2> QED
      BY <1>1, <1>3, <1>4, <2>1, <2>2 DEF Apart, OwnNames
<1>9. AnswersGood'
    BY <1>1, <1>3 DEF Apart, AnswersGood, Returned
<1> QED
    BY <1>6, <1>7, <1>8, <1>9 DEF Apart

LEMMA FetchNothingApart ==
    ASSUME Typed, Apart, NEW i, FetchNothing(i) PROVE Apart'
<1>1. PICK status \in {"failure", "skipped_oversize"} :
         answers' = answers \cup {Answer(i, status, None, None)}
    BY DEF FetchNothing
<1> DEFINE x == Answer(i, status, None, None)
<1>2. x.item = i /\ x.ref = None /\ x.hash = None /\ x.status # "success"
    BY DEF Answer
<1>3. /\ world' = world /\ i \in todo /\ todo' = todo \ {i} /\ working' = working
      /\ taken' = taken /\ answers' = answers \cup {x} /\ pending' = pending
    BY <1>1 DEF FetchNothing, source
<1>4. \A j : OwnStem(j)' = OwnStem(j) /\ OwnName(j)' = OwnName(j)
    BY <1>3, SameWorld DEF OwnName
<1>5. None \notin Names
    BY MarkersAssumption
<1> HIDE DEF x
<1>6. ItemsOnce'
    BY <1>2, <1>3 DEF Apart, ItemsOnce, Returned
<1>7. NamesOnce'
    BY <1>2, <1>3, <1>5 DEF Apart, NamesOnce, Returned, Typed, PoolBounded
<1>8. OwnNames' /\ AnswersGood'
    BY <1>2, <1>3, <1>4 DEF Apart, OwnNames, AnswersGood, Returned
<1> QED
    BY <1>6, <1>7, <1>8 DEF Apart

LEMMA WorkerApart ==
    ASSUME Typed, Apart, NEW w \in working, Written(w) \/ WriteFails(w) PROVE Apart'
<1>1. PICK x : /\ answers' = answers \cup {x} /\ x.item = w.item
               /\ \/ x.status = "success" /\ x.ref = w.name /\ x.hash = w.version
                  \/ x.status = "failure" /\ x.ref = None /\ x.hash = None
  <2>1. \/ answers' = answers \cup {Answer(w.item, "success", w.name, w.version)}
        \/ answers' = answers \cup {Answer(w.item, "failure", None, None)}
      BY DEF Written, WriteFails
  <2>2. \A status, ref, hash :
           /\ Answer(w.item, status, ref, hash).item = w.item
           /\ Answer(w.item, status, ref, hash).status = status
           /\ Answer(w.item, status, ref, hash).ref = ref
           /\ Answer(w.item, status, ref, hash).hash = hash
      BY DEF Answer
  <2> QED
      BY <2>1, <2>2
<1>2. /\ world' = world /\ todo' = todo /\ working' = working \ {w}
      /\ taken' = taken /\ pending' = pending
    BY DEF Written, WriteFails, source
<1>3. \A j : OwnStem(j)' = OwnStem(j) /\ OwnName(j)' = OwnName(j)
    BY <1>2, SameWorld DEF OwnName
<1>4. None \notin Names /\ w.name \in Names /\ w.version \in Versions
    BY MarkersAssumption DEF Typed, MemoryTyped
<1>5. ItemsOnce'
    BY <1>1, <1>2 DEF Apart, ItemsOnce, Returned
<1>6. NamesOnce'
  <2>1. \A v \in working : v.name # None /\ v.name \in taken
      BY <1>4, MarkersAssumption DEF Apart, NamesOnce, Typed, MemoryTyped
  <2>2. Returned' = Returned \cup {x}
      BY <1>1, <1>2 DEF Returned
  <2> QED
      BY <1>1, <1>2, <2>1, <2>2 DEF Apart, NamesOnce
<1>7. OwnNames' /\ AnswersGood'
    BY <1>1, <1>2, <1>3, <1>4 DEF Apart, OwnNames, AnswersGood, Returned
<1> QED
    BY <1>5, <1>6, <1>7 DEF Apart

LEMMA ConsumeApart ==
    ASSUME Typed, Apart, NEW x \in answers, Consume(x) PROVE Apart'
<1>1. /\ world' = world /\ todo' = todo /\ working' = working /\ taken' = taken
      /\ answers' = answers \ {x}
      /\ pending' = IF x.status \in Produced THEN pending \cup {x} ELSE pending
    BY DEF Consume, source
<1>2. \A j : OwnStem(j)' = OwnStem(j) /\ OwnName(j)' = OwnName(j)
    BY <1>1, SameWorld DEF OwnName
<1>3. Returned' \subseteq Returned
    BY <1>1 DEF Returned
<1>4. ItemsOnce' /\ NamesOnce'
    BY <1>1, <1>3 DEF Apart, ItemsOnce, NamesOnce
<1>5. OwnNames' /\ AnswersGood'
    BY <1>1, <1>2, <1>3 DEF Apart, OwnNames, AnswersGood
<1> QED
    BY <1>4, <1>5 DEF Apart

LEMMA FlushApart ==
    ASSUME Apart, world' = world, UNCHANGED <<todo, working, answers, taken>>,
           pending' \in {{}, pending}
    PROVE  Apart'
<1>1. \A j : OwnStem(j)' = OwnStem(j) /\ OwnName(j)' = OwnName(j)
    BY SameWorld DEF OwnName
<1>2. Returned' \subseteq Returned /\ pending' \subseteq pending
    BY DEF Returned
<1>3. ItemsOnce' /\ NamesOnce'
    BY <1>2 DEF Apart, ItemsOnce, NamesOnce
<1>4. OwnNames' /\ AnswersGood'
    BY <1>1, <1>2 DEF Apart, OwnNames, AnswersGood
<1> QED
    BY <1>3, <1>4 DEF Apart

LEMMA LoadApart ==
    ASSUME Typed, Load PROVE Apart'
<1>1. /\ working = {} /\ answers = {} /\ pending = {} /\ taken = {}
      /\ UNCHANGED <<working, answers, pending, taken>>
    BY DEF Load, Typed, MemoryTyped, Preparing, Fetching
<1> QED
    BY <1>1 DEF Apart, ItemsOnce, NamesOnce, OwnNames, AnswersGood, Returned

LEMMA ApartNext == Typed /\ Apart /\ [Next]_vars => Apart'
<1> SUFFICES ASSUME Typed, Apart, [Next]_vars PROVE Apart'
    OBVIOUS
<1>1. CASE WorkerStep
    BY <1>1, FetchApart, FetchNothingApart, WorkerApart DEF WorkerStep
<1>2. CASE \E x \in answers : Consume(x)
    BY <1>2, ConsumeApart
<1>3. CASE Load
    BY <1>3, LoadApart
<1>4. CASE EndJob
    BY <1>4, NothingInFlight DEF EndJob, ForgetMemory
<1>5. CASE FlushContent \/ FlushRaises \/ ContentOver
    BY <1>5, FlushApart DEF FlushContent, FlushRaises, ContentOver, source, memory
<1>6. CASE \/ WriteInventory \/ WritePayload \/ WriteIndex \/ WriteManifest
           \/ StartInventory \/ StartExport \/ (\E i \in Items : Edit(i)) \/ UNCHANGED vars
    BY <1>6, FlushApart DEF WriteInventory, WritePayload, WriteIndex, WriteManifest,
       StartInventory, StartExport, StartJob, Edit, vars, source, memory
<1> QED
    BY <1>1, <1>2, <1>3, <1>4, <1>5, <1>6
    DEF Next, MainStep, WriteInventoryPointer, RefuseExport, Drained, WriteExportPointer, Crash

LEMMA AlwaysApart == Spec => []Apart
<1>1. Init => Apart
    BY DEF Init, Apart, ItemsOnce, NamesOnce, OwnNames, AnswersGood, Returned
<1> QED
    BY <1>1, ApartNext, AlwaysTyped, PTL DEF Spec

(* However many paths are mangled to one name, the workers of a process write every
   object to a file of its own.                                                       *)
THEOREM NamesStayApart == Spec => []OneProcessKeepsNamesApart
BY AlwaysApart, ApartImplies, PTL
(* --- the ledger, and what the manifest of a bundle vouches for -------------------------------- *)

InFlight == todo \cup {w.item : w \in working} \cup {x.item : x \in answers}

(* The outcome of a fetch: this process's, or an earlier one's. *)
Outcome(row) ==
    /\ row.status \in {"success", "failure", "skipped_oversize"}
    /\ row.status = "success" => row.ref \in Names /\ row.hash \in Versions

RowsGood ==
    \A k \in UnitKeys :
        /\ IF k \in ContentKeys THEN k[1] \in InFlight \/ Outcome(rows[k])
           ELSE rows[k].status = InitialStatus(UnitOf(k), ToggledTypes)
        /\ Closing => rows[k].action = ImportAction(UnitOf(k), rows[k].status)

ResultsKept == \A r \in Runs : \A x \in CheckpointResults(disk[r]) : Outcome(x)

FilesAgree ==
    /\ job.stage \in {"index", "manifest", "pointer"} => bundle.payload = PayloadOf(rows)
    /\ job.stage \in {"manifest", "pointer"} => bundle.index = [inv |-> bundle.inv, rows |-> rows]

Announced(ledger, payload) ==
    \A k \in DOMAIN ledger :
        ledger[k].action \in Performed =>
            /\ {k, <<k[1], "group_membership">>} \cap DOMAIN payload # {}
            /\ ledger[k].action = "create_and_upload" => ledger[k].ref # None

(* What is verified is this, however old it is. *)
OneExport(m) ==
    Whole(m) =>
        /\ Whole(m.index) /\ Whole(m.payload) /\ m.index.inv = m.inv
        /\ \A k \in DOMAIN m.payload : m.payload[k] = m.index.rows[k]
        /\ Announced(m.index.rows, m.payload)

Recorded == /\ ~Preparing => RowsGood
            /\ ResultsKept /\ FilesAgree
            /\ \A r \in Runs : OneExport(disk[r].manifest)

(* An accepted bundle is one export, apart from the bytes of its content files. *)
AcceptedBundleIsOneExport ==
    \A r \in Runs : Verified(r) =>
        LET b == disk[r]
        IN  /\ Whole(b.index) /\ Whole(b.payload) /\ b.index.inv = b.inv
            /\ \A k \in DOMAIN b.payload : b.payload[k] = b.index.rows[k]

LEMMA RecordedImplies == Recorded => AdvertisedWorkIsInTheBundle /\ AcceptedBundleIsOneExport
BY DEF Recorded, OneExport, Announced, AdvertisedWorkIsInTheBundle, AcceptedBundleIsOneExport,
       Verified

(* The arms of ImportAction, and what those tell that import performs. *)
Produces(status) == status \notin {"skip", "failure", "skipped_oversize"}

LEMMA ActionArms ==
    ASSUME NEW u, NEW status
    PROVE  /\ status \in {"skip", "failure"} => ImportAction(u, status) = "none"
           /\ status = "skipped_oversize" => ImportAction(u, status) = "manual"
           /\ Produces(status) /\ u.type \in PathTypes /\ "internal" \in u.traits
                 => ImportAction(u, status) = "skip_internal"
           /\ Produces(status) /\ u.type \in PathTypes /\ "internal" \notin u.traits
                               /\ u.traits \cap {"bundle_root", "dab"} # {}
                 => ImportAction(u, status) = "dab_redeploy"
           /\ Produces(status) /\ u.type \in PathTypes => u.type # "group_membership"
           /\ Produces(status) /\ u.type = "group_membership"
                 => ImportAction(u, status) = "add_members"
           /\ LET byPath == u.type \in PathTypes
                               /\ u.traits \cap {"internal", "bundle_root", "dab"} # {}
              IN  Produces(status) /\ ~byPath /\ u.type # "group_membership"
                  => ImportAction(u, status) = IF u.class # "" /\ u.mode # "dab"
                                               THEN ActionByClass(u) ELSE ActionByMode(u)
<1> USE DEF ImportAction
<1>1. status \in {"skip", "failure"} => ImportAction(u, status) = "none"
    BY Zenon
<1>2. status = "skipped_oversize" => ImportAction(u, status) = "manual"
    OBVIOUS
<1>3. Produces(status) /\ u.type \in PathTypes /\ "internal" \in u.traits
         => ImportAction(u, status) = "skip_internal"
    BY DEF Produces
<1>4. Produces(status) /\ u.type \in PathTypes /\ "internal" \notin u.traits
                       /\ u.traits \cap {"bundle_root", "dab"} # {}
         => ImportAction(u, status) = "dab_redeploy"
    BY DEF Produces
<1>5. u.type \in PathTypes => u.type # "group_membership"
    BY DEF PathTypes, ContentTypes
<1>6. Produces(status) /\ u.type = "group_membership" => ImportAction(u, status) = "add_members"
    BY <1>5 DEF Produces
<1>7. ASSUME Produces(status), u.type # "group_membership",
             ~(/\ u.type \in PathTypes
               /\ u.traits \cap {"internal", "bundle_root", "dab"} # {})
      PROVE  ImportAction(u, status) = IF u.class # "" /\ u.mode # "dab"
                                       THEN ActionByClass(u) ELSE ActionByMode(u)
    BY <1>7 DEF Produces
<1> QED
    BY <1>1, <1>2, <1>3, <1>4, <1>5, <1>6, <1>7

LEMMA ModeArms ==
    ASSUME NEW u
    PROVE  /\ u.mode = "dab" => ActionByMode(u) = "dab_redeploy"
           /\ u.mode = "covered" => ActionByMode(u) = "via_native_asset"
           /\ u.mode = "manual" => ActionByMode(u) = "manual"
           /\ u.mode = "auto" => ActionByMode(u) # "create_and_upload"
           /\ ActionByClass(u) # "create_and_upload"
BY DEF ActionByMode, ActionByClass

(* What the ledger announces that import will do has its payload: the unit's own, or,
   for a built-in group, that of the membership unit beside it, which no toggle takes
   away alone.                                                                          *)
LEMMA AnnouncedIsWritten ==
    ASSUME Typed, Closing, RowsGood PROVE Announced(rows, PayloadOf(rows))
<1>1. /\ rows \in [UnitKeys -> Row] /\ world \in Worlds
      /\ \A k \in ContentKeys : Outcome(rows[k])
    BY ContentKey DEF Typed, WorldTyped, MemoryTyped, Closing, Preparing, Fetching, RowsGood, InFlight
<1>2. \A k \in UnitKeys : k \in DOMAIN PayloadOf(rows) <=> InArtifactFile(UnitOf(k), rows[k].status)
    BY <1>1 DEF PayloadOf
<1> SUFFICES ASSUME NEW k \in UnitKeys, rows[k].action \in Performed
             PROVE  /\ {k, <<k[1], "group_membership">>} \cap DOMAIN PayloadOf(rows) # {}
                    /\ rows[k].action = "create_and_upload" => rows[k].ref # None
    BY <1>1 DEF Announced
<1> DEFINE u == UnitOf(k)
           r == world.record[k[1]]
           status == rows[k].status
           m == <<k[1], "group_membership">>
<1>3. /\ u \in BuildUnits(r) /\ u.type = k[2] /\ k[1] \in Items /\ k = <<k[1], k[2]>>
      /\ r.kind \in Kinds /\ (r.class # "" => r.kind \in IdentityKinds)
    BY <1>1, UnitOfKey, WorldsAssumption
<1>4. /\ u.class = r.class /\ u.traits = r.traits /\ u.mode \in Modes
      /\ u.type \in ContentTypes \/ u.mode = "content" =>
            r.kind \in ContentTypes /\ u.type = r.kind /\ u.mode = "content"
      /\ u.mode = "covered" /\ r.kind \in IdentityKinds =>
            /\ u.type = "group" /\ r.class = "system"
            /\ \E v \in BuildUnits(r) : v.type = "group_membership"
      /\ r.kind \in IdentityKinds => u.mode \in {"auto", "covered"}
      /\ u.type = "group_membership" => u.mode = "auto"
  <2> HIDE DEF u, r
  <2>1. u = [type |-> u.type, mode |-> u.mode, class |-> r.class, traits |-> r.traits]
      BY <1>3, BuiltUnits, Zenon
  <2>2. u.class = r.class /\ u.traits = r.traits
      BY <2>1
  <2> QED
      BY <1>3, <2>2, BuiltUnits
<1>5. ImportAction(u, status) \in Performed /\ rows[k].action = ImportAction(u, status)
    BY DEF RowsGood
<1> HIDE DEF u, r, status, m
<1>6. Produces(status)
  <2>1. "none" \notin Performed /\ "manual" \notin Performed
      BY DEF Performed
  <2> QED
      BY <1>5, <2>1, ActionArms DEF Produces
<1>7. u.mode \in {"auto", "content"} \/ (u.mode = "covered" /\ r.kind \in IdentityKinds)
  <2>1. CASE u.type = "group_membership"
      BY <1>4, <2>1
  <2>2. CASE u.type # "group_membership" /\ u.class # "" /\ u.mode # "dab"
      BY <1>3, <1>4, <2>2
  <2>3. CASE u.type # "group_membership" /\ ~(u.class # "" /\ u.mode # "dab")
    <3>1. /\ "skip_internal" \notin Performed /\ "dab_redeploy" \notin Performed
          /\ "via_native_asset" \notin Performed /\ "manual" \notin Performed
        BY DEF Performed
    <3>2. ImportAction(u, status) = ActionByMode(u)
        BY <1>5, <1>6, <2>3, <3>1, ActionArms
    <3> QED
        BY <1>4, <1>5, <3>1, <3>2, ModeArms DEF Modes
  <2> QED
      BY <2>1, <2>2, <2>3
<1>8. {k, m} \cap DOMAIN PayloadOf(rows) # {}
  <2>1. CASE u.mode \in {"auto", "content"}
      BY <1>2, <1>6, <2>1 DEF InArtifactFile, u, status, Produces
  <2>2. CASE u.mode = "covered" /\ r.kind \in IdentityKinds
    <3>1. PICK v \in BuildUnits(r) : v.type = "group_membership"
        BY <1>4, <2>2
    <3>2. m \in UnitKeys
        BY <1>3, <3>1 DEF m, r, UnitKeys, KeysOf
    <3>3. /\ UnitOf(m) \in BuildUnits(r) /\ UnitOf(m).type = "group_membership"
          /\ m[1] = k[1] /\ m[2] = "group_membership"
        BY <3>2, UnitOfKey DEF m, r
    <3>4. UnitOf(m).mode = "auto"
        BY <2>2, <3>3, BuiltUnits
    <3>5. m \notin ContentKeys /\ k \notin ContentKeys
        BY <1>3, <1>4, <2>2, <3>3, ContentKey DEF ContentTypes, u
    <3>6. /\ rows[m].status = InitialStatus(UnitOf(m), ToggledTypes)
          /\ status = InitialStatus(u, ToggledTypes)
        BY <3>2, <3>5 DEF RowsGood, u, status
    <3>7. "group" \notin ToggledTypes
        BY <1>4, <1>6, <2>2, <3>6 DEF InitialStatus, ToggledOff, Produces
    <3>8. rows[m].status # "skip"
        BY <3>3, <3>4, <3>6, <3>7, ToggleAssumption DEF InitialStatus, ToggledOff, ModeStatus
    <3> QED
        BY <1>2, <3>2, <3>4, <3>8 DEF InArtifactFile
  <2> QED
      BY <1>7, <2>1, <2>2
<1>9. ASSUME ImportAction(u, status) = "create_and_upload" PROVE rows[k].ref # None
  <2>1. u.mode = "content" /\ u.type \in ContentTypes
    <3>1. u.type # "group_membership"
        BY <1>6, <1>9, ActionArms
    <3>2. ActionByMode(u) = "create_and_upload" /\ (u.class = "" \/ u.mode = "dab")
        BY <1>6, <1>9, <3>1, ActionArms, ModeArms
    <3> QED
        BY <1>4, <3>2, ModeArms DEF Modes
  <2>2. "internal" \notin u.traits
      BY <1>6, <1>9, <2>1, ActionArms DEF PathTypes
  <2>3. k \in ContentKeys
    <3>1. CASE ToggledOff(u, ToggledTypes)
      <4>1. k \notin ContentKeys
          BY <3>1 DEF ContentKeys, Fetched, u
      <4>2. status = "skip"
          BY <3>1, <4>1 DEF RowsGood, InitialStatus, u, status
      <4> QED
          BY <1>6, <4>2 DEF Produces
    <3>2. CASE ~ToggledOff(u, ToggledTypes)
        BY <2>1, <2>2, <3>2 DEF ContentKeys, Fetched, u
    <3> QED
        BY <3>1, <3>2
  <2> QED
      BY <1>1, <1>6, <2>3, MarkersAssumption DEF Outcome, status, Produces
<1> QED
    BY <1>5, <1>8, <1>9 DEF m

(* A step that leaves checkpoints and manifests alone, or tears them. *)
KeepsOrTears ==
    \A r \in Runs : /\ disk'[r].cp \in {disk[r].cp, Torn}
                    /\ disk'[r].manifest \in {disk[r].manifest, Torn}

LEMMA RecordsKept ==
    ASSUME Recorded, KeepsOrTears
    PROVE  ResultsKept' /\ \A r \in Runs : OneExport(disk'[r].manifest)
<1>1. ASSUME NEW r \in Runs, NEW x \in CheckpointResults(disk'[r]) PROVE Outcome(x)
    BY <1>1 DEF KeepsOrTears, CheckpointResults, Recorded, ResultsKept
<1>2. ASSUME NEW r \in Runs PROVE OneExport(disk'[r].manifest)
  <2>1. ~Whole(Torn)
      BY DEF Whole
  <2> QED
      BY <2>1 DEF KeepsOrTears, Recorded, OneExport
<1> QED
    BY <1>1, <1>2 DEF ResultsKept

LEMMA PreparingRecorded ==
    ASSUME Recorded, KeepsOrTears, Preparing' PROVE Recorded'
<1>1. FilesAgree'
    BY DEF Preparing, FilesAgree
<1> QED
    BY <1>1, RecordsKept DEF Recorded

LEMMA LoadRecorded ==
    ASSUME Typed, Recorded, Load PROVE Recorded'
<1> DEFINE done == Resumed(bundle, job.force)
           x(k) == CHOOSE x \in CheckpointResults(bundle) : x.item = k[1]
<1>1. /\ world' = world /\ disk' = disk /\ job' = [job EXCEPT !.stage = "content"]
      /\ todo' = ContentItems \ done /\ job.run \in Runs /\ job'.stage = "content"
      /\ rows' = [k \in UnitKeys |-> IF k \in ContentKeys /\ k[1] \in done
                                     THEN ResumedRow(k, x(k)) ELSE BuiltRow(k)]
    BY DEF Load, Goto, source, staging, Typed, JobTyped
<1>2. ASSUME NEW k \in ContentKeys, k[1] \in done PROVE Outcome(rows'[k])
  <2>1. x(k) \in CheckpointResults(bundle)
      BY <1>2 DEF Resumed
  <2>2. Outcome(x(k))
      BY <1>1, <2>1 DEF Recorded, ResultsKept, bundle
  <2>3. k \in UnitKeys /\ BuiltRow(k) \in Row
      BY ContentKey, BuiltRowTyped
  <2>4. rows'[k] = ResumedRow(k, x(k))
      BY <1>1, <1>2, <2>3
  <2> HIDE DEF x
  <2> QED
      BY <2>2, <2>3, <2>4 DEF ResumedRow, Outcome, Row
<1>3. ASSUME NEW k \in ContentKeys, k[1] \notin done PROVE k[1] \in InFlight'
    BY <1>1, <1>3, ContentKey DEF InFlight
<1>4. ASSUME NEW k \in UnitKeys, k \notin ContentKeys
      PROVE  rows'[k].status = InitialStatus(UnitOf(k), ToggledTypes)
    BY <1>1, <1>4, BuiltRowTyped
<1>5. RowsGood'
    BY <1>1, <1>2, <1>3, <1>4, SameWorld DEF RowsGood, Closing
<1>6. KeepsOrTears /\ FilesAgree'
    BY <1>1 DEF KeepsOrTears, FilesAgree
<1> QED
    BY <1>5, <1>6, RecordsKept DEF Recorded

(* While content is fetched, rows of items in flight are the only ones to change. *)
LEMMA FetchingRecorded ==
    ASSUME Recorded, KeepsOrTears, Fetching, Fetching', world' = world, rows' = rows,
           InFlight \subseteq InFlight'
    PROVE  Recorded'
<1>1. RowsGood
    BY DEF Recorded, Fetching, Preparing
<1>2. RowsGood'
    BY <1>1, SameWorld DEF RowsGood, Fetching, Closing
<1>3. FilesAgree'
    BY DEF Fetching, FilesAgree
<1> QED
    BY <1>2, <1>3, RecordsKept DEF Recorded

LEMMA WorkersRecorded ==
    ASSUME Typed, Recorded, WorkerStep PROVE Recorded'
<1>1. CASE \E i \in Items : Fetch(i) \/ FetchNothing(i)
  <2> PICK i \in Items : Fetch(i) \/ FetchNothing(i)
      BY <1>1
  <2>1. /\ Fetching /\ Fetching' /\ world' = world /\ rows' = rows /\ disk' = disk
        /\ todo' = todo \ {i}
      BY DEF Fetch, FetchNothing, Fetching, source, staging
  <2>2. \/ /\ answers' = answers
           /\ \E w : w.item = i /\ working' = working \cup {w}
        \/ /\ working' = working
           /\ \E x : x.item = i /\ answers' = answers \cup {x}
      BY DEF Fetch, FetchNothing, Answer
  <2>3. InFlight \subseteq InFlight'
      BY <2>1, <2>2 DEF InFlight
  <2> QED
      BY <2>1, <2>3, FetchingRecorded DEF KeepsOrTears
<1>2. CASE \E w \in working : Written(w) \/ WriteFails(w)
  <2> PICK w \in working : Written(w) \/ WriteFails(w)
      BY <1>2
  <2>1. /\ Fetching /\ Fetching' /\ world' = world /\ rows' = rows /\ todo' = todo
        /\ working' = working \ {w} /\ UNCHANGED <<lastRun, latestInventory>>
        /\ \E x : x.item = w.item /\ answers' = answers \cup {x}
      BY DEF Written, WriteFails, Fetching, source, Answer
  <2>2. InFlight \subseteq InFlight'
      BY <2>1 DEF InFlight
  <2>3. KeepsOrTears
    <3>1. \E file \in OrNot(ContentFiles) : disk' = [disk EXCEPT ![job.run].content[w.name] = file]
      <4>1. Torn \in OrNot(ContentFiles) /\ <<w.item, w.version>> \in OrNot(ContentFiles)
          BY ContentItemsAreItems DEF OrNot, ContentFiles, Typed, MemoryTyped
      <4>2. \/ disk' = [disk EXCEPT ![job.run].content[w.name] = <<w.item, w.version>>]
            \/ disk' = [disk EXCEPT ![job.run].content[w.name] = Torn]
          BY DEF Written, WriteFails
      <4> QED
          BY <4>1, <4>2, Zenon
    <3> QED
        BY <2>1, <3>1, ContentWritten DEF KeepsOrTears, Typed, JobTyped, MemoryTyped, Fetching
  <2> QED
      BY <2>1, <2>2, <2>3, FetchingRecorded
<1> QED
    BY <1>1, <1>2 DEF WorkerStep

LEMMA ConsumeRecorded ==
    ASSUME Typed, Apart, Recorded, NEW x \in answers, Consume(x) PROVE Recorded'
<1>1. /\ world' = world /\ disk' = disk /\ job' = job /\ todo' = todo /\ working' = working
      /\ answers' = answers \ {x} /\ job.stage = "content"
    BY DEF Consume, source, staging
<1>2. /\ KeyOf(x.item) \in ContentKeys /\ x \in Results
      /\ \A k \in UnitKeys :
            rows'[k] = IF k = KeyOf(x.item) THEN Concluded(rows[k], x) ELSE rows[k]
    BY ConsumeTyped
<1>3. RowsGood /\ rows \in [UnitKeys -> Row]
    BY <1>1 DEF Recorded, Preparing, Typed, MemoryTyped
<1>4. x.status = "success" => x.ref \in Names /\ x.hash \in Versions
    BY DEF Apart, AnswersGood, Returned
<1>5. ASSUME NEW k \in ContentKeys PROVE k[1] \in InFlight' \/ Outcome(rows'[k])
  <2>1. k \in UnitKeys /\ KeyOf(k[1]) = k
      BY ContentKey
  <2>2. CASE k = KeyOf(x.item)
    <3>1. rows'[k] = Concluded(rows[k], x) /\ rows[k] \in Row
        BY <1>2, <1>3, <2>1, <2>2
    <3>2. None \notin Versions
        BY MarkersAssumption DEF Versions
    <3> QED
        BY <1>2, <1>4, <3>1, <3>2 DEF Outcome, Concluded, Row, Results
  <2>3. CASE k # KeyOf(x.item)
    <3>1. rows'[k] = rows[k] /\ k[1] # x.item
        BY <1>2, <2>1, <2>3
    <3> QED
        BY <1>1, <1>3, <2>1, <3>1 DEF RowsGood, InFlight
  <2> QED
      BY <2>2, <2>3
<1>6. RowsGood'
    BY <1>1, <1>2, <1>3, <1>5, SameWorld DEF RowsGood, Closing
<1>7. KeepsOrTears /\ FilesAgree'
    BY <1>1 DEF KeepsOrTears, FilesAgree
<1> QED
    BY <1>6, <1>7, RecordsKept DEF Recorded

LEMMA FlushRecorded ==
    ASSUME Typed, Apart, Recorded, FlushContent PROVE Recorded'
<1> DEFINE merged == MergeResults(CheckpointResults(bundle), pending)
<1>1. /\ world' = world /\ job' = job /\ rows' = rows /\ job.stage = "content"
      /\ UNCHANGED <<todo, working, answers>>
      /\ disk' = [disk EXCEPT ![job.run].cp = merged]
    BY DEF FlushContent, source
<1>2. job.run \in Runs /\ disk \in [Runs -> Bundles(world)]
    BY <1>1 DEF Typed, JobTyped, FolderTyped
<1>3. \A x \in merged : Outcome(x)
  <2>1. \A x \in CheckpointResults(bundle) : Outcome(x)
      BY <1>2 DEF Recorded, ResultsKept, bundle
  <2>2. \A x \in pending : Outcome(x)
      BY DEF Apart, AnswersGood, Returned, Outcome, Produced
  <2> QED
      BY <2>1, <2>2 DEF MergeResults
<1> HIDE DEF merged
<1>4. \A r \in Runs : /\ disk'[r].cp = IF r = job.run THEN merged ELSE disk[r].cp
                      /\ disk'[r].manifest = disk[r].manifest
  <2> DEFINE b == disk[job.run]
             c == [b EXCEPT !.cp = merged]
  <2>1. b \in Bundles(world)
      BY <1>2
  <2>2. c.cp = merged /\ c.manifest = b.manifest
      BY <2>1 DEF Bundles
  <2>3. disk' = [disk EXCEPT ![job.run] = c]
      BY <1>1
  <2> HIDE DEF c
  <2> QED
      BY <1>2, <2>2, <2>3
<1>5. ResultsKept'
  <2>1. ASSUME NEW r \in Runs, NEW x \in CheckpointResults(disk'[r]) PROVE Outcome(x)
    <3>1. CASE r = job.run
        BY <1>3, <1>4, <2>1, <3>1 DEF CheckpointResults
    <3>2. CASE r # job.run
        BY <1>4, <2>1, <3>2 DEF CheckpointResults, Recorded, ResultsKept
    <3> QED
        BY <3>1, <3>2
  <2> QED
      BY <2>1 DEF ResultsKept
<1>6. RowsGood'
    BY <1>1, SameWorld DEF Recorded, Preparing, RowsGood, InFlight, Closing
<1>7. FilesAgree' /\ \A r \in Runs : OneExport(disk'[r].manifest)
    BY <1>1, <1>4 DEF FilesAgree, Recorded
<1> QED
    BY <1>5, <1>6, <1>7 DEF Recorded

LEMMA RaisesRecorded ==
    ASSUME Typed, Recorded, FlushRaises PROVE Recorded'
<1>1. /\ world' = world /\ rows' = rows /\ disk' = disk /\ UNCHANGED <<todo, working, answers>>
      /\ Fetching /\ Fetching'
    BY DEF FlushRaises, Goto, source, staging, memory, Fetching, Typed, JobTyped
<1> QED
    BY <1>1, FetchingRecorded DEF KeepsOrTears, InFlight

LEMMA ContentOverRecorded ==
    ASSUME Typed, Recorded, ContentOver PROVE Recorded'
<1>1. /\ world' = world /\ disk' = disk /\ job' = [job EXCEPT !.stage = "payload"]
      /\ job.stage = "content" /\ InFlight = {} /\ job'.stage = "payload"
    BY DEF ContentOver, Goto, source, staging, InFlight, Typed, JobTyped
<1>2. rows \in [UnitKeys -> Row] /\ rows' = [k \in UnitKeys |-> Refreshed(k)] /\ RowsGood
    BY <1>1, ContentOverTyped DEF Recorded, Preparing
<1>3. ASSUME NEW k \in UnitKeys
      PROVE  /\ rows'[k].status = rows[k].status /\ rows'[k].ref = rows[k].ref
             /\ rows'[k].hash = rows[k].hash
             /\ rows'[k].action = ImportAction(UnitOf(k), rows'[k].status)
  <2>1. rows'[k] = Refreshed(k) /\ rows[k] \in Row
      BY <1>2
  <2> QED
      BY <2>1, RefreshedTyped
<1>4. ASSUME NEW k \in UnitKeys
      PROVE  IF k \in ContentKeys THEN Outcome(rows'[k])
             ELSE rows'[k].status = InitialStatus(UnitOf(k), ToggledTypes)
    BY <1>1, <1>2, <1>3 DEF RowsGood, Outcome
<1>5. RowsGood'
    BY <1>1, <1>3, <1>4, SameWorld DEF RowsGood
<1>6. KeepsOrTears /\ FilesAgree'
    BY <1>1 DEF KeepsOrTears, FilesAgree
<1> QED
    BY <1>5, <1>6, RecordsKept DEF Recorded

(* One file of the folder is replaced. *)
LEMMA FileWritten ==
    ASSUME disk \in [Runs -> Bundles(world)], job.run \in Runs, NEW file
    PROVE  /\ disk' = [disk EXCEPT ![job.run].payload = file] =>
                 /\ \A r \in Runs : r # job.run => disk'[r] = disk[r]
                 /\ disk'[job.run] = [bundle EXCEPT !.payload = file]
           /\ disk' = [disk EXCEPT ![job.run].index = file] =>
                 /\ \A r \in Runs : r # job.run => disk'[r] = disk[r]
                 /\ disk'[job.run] = [bundle EXCEPT !.index = file]
           /\ disk' = [disk EXCEPT ![job.run].manifest = file] =>
                 /\ \A r \in Runs : r # job.run => disk'[r] = disk[r]
                 /\ disk'[job.run] = [bundle EXCEPT !.manifest = file]
BY DEF bundle

LEMMA ClosingRecorded ==
    ASSUME Typed, Recorded, WritePayload \/ WriteIndex \/ WriteManifest PROVE Recorded'
<1>1. /\ world' = world /\ rows' = rows /\ UNCHANGED <<todo, working, answers>>
      /\ Closing /\ Closing' /\ job'.run = job.run /\ job.run \in Runs
      /\ disk \in [Runs -> Bundles(world)] /\ bundle \in Bundles(world)
    BY DEF WritePayload, WriteIndex, WriteManifest, Goto, Closing, source, memory, Typed, JobTyped,
           FolderTyped, bundle
<1>2. RowsGood /\ rows \in [UnitKeys -> Row]
    BY <1>1 DEF Recorded, Closing, Preparing, Typed, MemoryTyped
<1>3. RowsGood'
    BY <1>1, <1>2, SameWorld DEF RowsGood, InFlight
<1>4. PayloadOf(rows)' = PayloadOf(rows)
    BY <1>1, SameWorld DEF PayloadOf
<1>5. CASE WritePayload
  <2>1. /\ \A r \in Runs : r # job.run => disk'[r] = disk[r]
        /\ disk'[job.run] = [bundle EXCEPT !.payload = PayloadOf(rows)]
    <3>1. disk' = [disk EXCEPT ![job.run].payload = PayloadOf(rows)]
        BY <1>5 DEF WritePayload, PayloadOf
    <3> QED
        BY <1>1, <3>1, FileWritten
  <2>2. job'.stage = "index" /\ bundle' = disk'[job.run]
      BY <1>1, <1>5 DEF WritePayload, Goto, Typed, JobTyped, bundle
  <2>3. /\ disk'[job.run].payload = PayloadOf(rows)
        /\ disk'[job.run].cp = bundle.cp /\ disk'[job.run].manifest = bundle.manifest
      BY <1>1, <2>1 DEF Bundles
  <2>4. FilesAgree'
      BY <1>4, <2>2, <2>3 DEF FilesAgree
  <2>5. KeepsOrTears
      BY <2>1, <2>3 DEF KeepsOrTears, bundle
  <2> QED
      BY <1>3, <2>4, <2>5, RecordsKept DEF Recorded
<1>6. CASE WriteIndex
  <2> DEFINE ledger == [inv |-> bundle.inv, rows |-> rows]
  <2>1. /\ \A r \in Runs : r # job.run => disk'[r] = disk[r]
        /\ disk'[job.run] = [bundle EXCEPT !.index = ledger]
      BY <1>1, <1>6, FileWritten DEF WriteIndex
  <2>2. job'.stage = "manifest" /\ bundle' = disk'[job.run] /\ job.stage = "index"
      BY <1>1, <1>6 DEF WriteIndex, Goto, Typed, JobTyped, bundle
  <2> HIDE DEF ledger
  <2>3. /\ disk'[job.run].index = ledger /\ disk'[job.run].inv = bundle.inv
        /\ disk'[job.run].payload = bundle.payload
        /\ disk'[job.run].cp = bundle.cp /\ disk'[job.run].manifest = bundle.manifest
      BY <1>1, <2>1 DEF Bundles
  <2>4. FilesAgree'
      BY <1>1, <1>4, <2>2, <2>3 DEF FilesAgree, Recorded, ledger
  <2>5. KeepsOrTears
      BY <2>1, <2>3 DEF KeepsOrTears, bundle
  <2> QED
      BY <1>3, <2>4, <2>5, RecordsKept DEF Recorded
<1>7. CASE WriteManifest
  <2> DEFINE m == Checksums(bundle)
  <2>1. /\ \A r \in Runs : r # job.run => disk'[r] = disk[r]
        /\ disk'[job.run] = [bundle EXCEPT !.manifest = m]
      BY <1>1, <1>7, FileWritten DEF WriteManifest
  <2>2. job'.stage = "pointer" /\ bundle' = disk'[job.run] /\ job.stage = "manifest"
      BY <1>1, <1>7 DEF WriteManifest, Goto, Typed, JobTyped, bundle
  <2>3. /\ m.inv = bundle.inv /\ m.payload = PayloadOf(rows)
        /\ m.index = [inv |-> bundle.inv, rows |-> rows]
      BY <2>2 DEF Checksums, Recorded, FilesAgree
  <2> HIDE DEF m
  <2>4. /\ disk'[job.run].manifest = m /\ disk'[job.run].inv = bundle.inv
        /\ disk'[job.run].payload = bundle.payload /\ disk'[job.run].index = bundle.index
        /\ disk'[job.run].cp = bundle.cp
      BY <1>1, <2>1 DEF Bundles
  <2>5. FilesAgree'
      BY <1>1, <1>4, <2>2, <2>4 DEF FilesAgree, Recorded
  <2>6. OneExport(m)
    <3>1. Whole(m.index)
      <4>1. m.index \in Ledgers(world) /\ world \in Worlds
          BY <1>1, <1>2, <2>3 DEF Ledgers, UnitKeys, Bundles, Typed, WorldTyped
      <4> QED
          BY <4>1, MarkersAssumption DEF Whole
    <3>2. Whole(m.payload)
      <4>1. PICK K \in SUBSET KeysOf(world) : m.payload \in [K -> Row]
          BY <1>2, <2>3, PayloadTyped, Zenon DEF Payloads
      <4> QED
          BY <4>1, MarkersAssumption DEF Whole, Typed, WorldTyped
    <3>3. \A k \in DOMAIN m.payload : m.payload[k] = m.index.rows[k]
        BY <1>2, <2>3, PayloadTyped
    <3>4. Announced(m.index.rows, m.payload)
        BY <1>1, <1>2, <2>3, AnnouncedIsWritten
    <3> QED
        BY <2>3, <3>1, <3>2, <3>3, <3>4 DEF OneExport
  <2>7. ResultsKept' /\ \A r \in Runs : OneExport(disk'[r].manifest)
      BY <2>1, <2>4, <2>6 DEF Recorded, ResultsKept, CheckpointResults, bundle
  <2> QED
      BY <1>3, <2>5, <2>7 DEF Recorded
<1> QED
    BY <1>5, <1>6, <1>7

LEMMA RecordedNext == Typed /\ Apart /\ Recorded /\ [Next]_vars => Recorded'
<1> SUFFICES ASSUME Typed, Apart, Recorded, [Next]_vars PROVE Recorded'
    OBVIOUS
<1>1. CASE WorkerStep
    BY <1>1, WorkersRecorded
<1>2. CASE \E x \in answers : Consume(x)
    BY <1>2, ConsumeRecorded
<1>3. CASE Load
    BY <1>3, LoadRecorded
<1>4. CASE FlushContent
    BY <1>4, FlushRecorded
<1>5. CASE FlushRaises
    BY <1>5, RaisesRecorded
<1>6. CASE ContentOver
    BY <1>6, ContentOverRecorded
<1>7. CASE WritePayload \/ WriteIndex \/ WriteManifest
    BY <1>7, ClosingRecorded
<1>8. CASE \/ StartInventory \/ StartExport \/ WriteInventory \/ WriteInventoryPointer
           \/ RefuseExport \/ Drained \/ WriteExportPointer \/ Crash
  <2>1. Preparing'
      BY <1>8 DEF StartInventory, StartExport, StartJob, WriteInventory, WriteInventoryPointer,
         RefuseExport, Drained, WriteExportPointer, Crash, EndJob, Idle, Goto, Preparing, Typed,
         JobTyped
  <2>2. KeepsOrTears
    <3>1. CASE Crash
        BY <3>1, CrashTyped DEF KeepsOrTears, bundle
    <3>2. CASE WriteInventory
        BY <3>2 DEF WriteInventory, KeepsOrTears, Typed, FolderTyped, Bundles
    <3>3. CASE disk' = disk
        BY <3>3 DEF KeepsOrTears
    <3> QED
        BY <1>8, <3>1, <3>2, <3>3 DEF StartInventory, StartExport, StartJob, WriteInventoryPointer,
           RefuseExport, Drained, WriteExportPointer, staging
  <2> QED
      BY <2>1, <2>2, PreparingRecorded
<1>9. CASE (\E i \in Items : Edit(i)) \/ UNCHANGED vars
  <2>1. /\ world' = world /\ disk' = disk /\ job' = job /\ rows' = rows
        /\ UNCHANGED <<todo, working, answers>>
      BY <1>9 DEF Edit, vars, source, staging, memory
  <2>2. RowsGood => RowsGood'
      BY <2>1, SameWorld DEF RowsGood, InFlight, Closing
  <2>3. KeepsOrTears /\ FilesAgree'
      BY <2>1, SameWorld DEF KeepsOrTears, FilesAgree, PayloadOf, bundle, Recorded
  <2> QED
      BY <2>1, <2>2, <2>3, RecordsKept DEF Recorded, Preparing
<1> QED
    BY <1>1, <1>2, <1>3, <1>4, <1>5, <1>6, <1>7, <1>8, <1>9 DEF Next, MainStep

LEMMA AlwaysRecorded == Spec => []Recorded
<1>1. Init => Recorded
    BY DEF Init, Recorded, Preparing, Idle, ResultsKept, CheckpointResults, NewBundle, FilesAgree,
           OneExport, Whole
<1> QED
    BY <1>1, RecordedNext, AlwaysTyped, AlwaysApart, PTL DEF Spec

(* The ledger of a bundle that verifies announces no work that import could not do. *)
THEOREM AnnouncedWorkIsThere == Spec => []AdvertisedWorkIsInTheBundle
BY AlwaysRecorded, RecordedImplies, PTL

(* A bundle that verifies is one export, whoever died in making it: the ledger was made
   from the inventory beside it, and the payload files agree with it.                    *)
THEOREM AcceptedIsOneExport == Spec => []AcceptedBundleIsOneExport
BY AlwaysRecorded, RecordedImplies, PTL

(* --- the content files ---------------------------------------------------------------------- *)

(* What came back is in the folder. *)
ReturnedWritten ==
    Fetching => \A x \in Returned :
        x.status = "success" => bundle.content[x.ref] = <<x.item, x.hash>>

(* So is what the rows have, of items whose name no other item wants. *)
RowsWritten ==
    ~Preparing => \A k \in ContentKeys :
        OwnStem(k[1]) /\ k[1] \notin InFlight /\ rows[k].status = "success" =>
            /\ rows[k].ref = OwnName(k[1])
            /\ bundle.content[OwnName(k[1])] = <<k[1], rows[k].hash>>

(* A forced export writes the file of an item before the checkpoint says so. *)
Rewritten(r, i) ==
    /\ r = job.run /\ job.force /\ Fetching
    /\ \E y \in Returned : y.item = i /\ y.status = "success"

ResultsWritten ==
    \A r \in Runs : \A x \in CheckpointResults(disk[r]) :
        x.status = "success" /\ OwnStem(x.item) =>
            /\ x.ref = OwnName(x.item)
            /\ \/ disk[r].content[OwnName(x.item)] = <<x.item, x.hash>>
               \/ Rewritten(r, x.item)

(* Only a forced export fetches what the checkpoint has. *)
NothingTwice ==
    /\ job.stage = "draining" => bundle.cp = Torn
    /\ Fetching /\ ~job.force => \A x \in CheckpointResults(bundle) :
          /\ x.item \notin todo
          /\ \A w \in working : w.item # x.item
          /\ \A y \in Returned : y.item # x.item

ContentSealed(m) ==
    Whole(m) => \A k \in DOMAIN m.index.rows \cap ContentKeys :
        LET row == m.index.rows[k]
        IN  OwnStem(k[1]) /\ row.status = "success" =>
                /\ row.ref \in Names /\ row.hash \in Versions
                /\ m.content[row.ref] = <<k[1], row.hash>>

Sealed == \A r \in Runs : ContentSealed(disk[r].manifest)

Stored == ReturnedWritten /\ RowsWritten /\ ResultsWritten /\ NothingTwice /\ Sealed

LEMMA StoredImplies ==
    ASSUME Typed, Recorded, Sealed PROVE AcceptedBundleIsWhole
<1>1. ASSUME NEW r \in Runs, Verified(r), NEW k \in DOMAIN disk[r].index.rows, OwnStem(k[1])
      PROVE  ContentOf(disk[r], k)
  <2> DEFINE m == disk[r].manifest
             row == m.index.rows[k]
  <2>1. Whole(m) /\ disk[r].index = m.index
      BY <1>1 DEF Verified
  <2> SUFFICES ASSUME row.status = "success", k \in ContentKeys
               PROVE  disk[r].content[row.ref] = <<k[1], row.hash>>
      BY <2>1 DEF ContentOf
  <2>2. row.ref \in Names /\ row.hash \in Versions /\ m.content[row.ref] = <<k[1], row.hash>>
      BY <1>1, <2>1 DEF Sealed, ContentSealed
  <2>3. m.content[row.ref] # NoFile
    <3>1. <<k[1], row.hash>> \in ContentFiles
        BY <2>2, ContentKey DEF ContentFiles
    <3> QED
        BY <2>2, <3>1, MarkersAssumption
  <2> QED
      BY <1>1, <2>2, <2>3 DEF Verified
<1>2. AcceptedBundleIsOneExport
    BY RecordedImplies
<1> QED
    BY <1>1, <1>2 DEF AcceptedBundleIsWhole, AcceptedBundleIsOneExport

(* A worker that writes under the own name of an item writes that item. *)
LEMMA OwnFile ==
    ASSUME Typed, Apart, NEW i \in Items, OwnStem(i), NEW w \in working, w.name = OwnName(i)
    PROVE  w.item = i
<1>1. w.item \in Items /\ w.name[1] = world.stem[w.item]
    BY ContentItemsAreItems DEF Typed, MemoryTyped, Apart, NamesOnce
<1> QED
    BY <1>1 DEF OwnName, OwnStem

LEMMA OwnNameIsAName ==
    ASSUME Typed, NEW i \in Items PROVE OwnName(i) \in Names
<1>1. 0 \in 0..Cardinality(Items)
    BY ItemsFinite
<1>2. world.stem[i] \in Stems
    BY WorldsAssumption DEF Typed, WorldTyped
<1> QED
    BY <1>1, <1>2 DEF OwnName, Names

LEMMA SealedKept ==
    ASSUME Sealed, world' = world,
           \A r \in Runs : disk'[r].manifest \in {disk[r].manifest, Torn}
    PROVE  Sealed'
<1>1. ASSUME NEW r \in Runs PROVE ContentSealed(disk'[r].manifest)
  <2>1. ~Whole(Torn)
      BY DEF Whole
  <2> QED
      BY <2>1 DEF Sealed, ContentSealed
<1>2. ASSUME NEW r \in Runs PROVE ContentSealed(disk[r].manifest)'
    BY <1>1, SameWorld DEF ContentSealed
<1> QED
    BY <1>2 DEF Sealed

(* Checkpointed results stand, where the files they name do. *)
LEMMA ResultsKeptWritten ==
    ASSUME Typed, ResultsWritten, world' = world,
           \A r \in Runs : disk'[r].cp \in {disk[r].cp, Torn},
           \A r \in Runs : \A x \in CheckpointResults(disk[r]) :
               x.status = "success" /\ OwnStem(x.item) =>
                  \/ /\ ~Rewritten(r, x.item)
                     /\ disk'[r].content[OwnName(x.item)] = disk[r].content[OwnName(x.item)]
                  \/ Rewritten(r, x.item)'
    PROVE  ResultsWritten'
<1>1. ASSUME NEW r \in Runs, NEW x \in CheckpointResults(disk'[r])
      PROVE  x \in CheckpointResults(disk[r])
    BY <1>1 DEF CheckpointResults
<1>2. \A i : OwnStem(i)' = OwnStem(i) /\ OwnName(i)' = OwnName(i)
    BY SameWorld DEF OwnName
<1>3. ASSUME NEW r \in Runs, NEW x \in CheckpointResults(disk'[r]),
             x.status = "success", OwnStem(x.item)
      PROVE  /\ x.ref = OwnName(x.item)
             /\ \/ disk'[r].content[OwnName(x.item)] = <<x.item, x.hash>>
                \/ Rewritten(r, x.item)'
    BY <1>1, <1>3 DEF ResultsWritten
<1>4. \A r : CheckpointResults(disk[r])' = CheckpointResults(disk'[r])
    BY DEF CheckpointResults
<1> QED
    BY <1>2, <1>3, <1>4 DEF ResultsWritten

(* A notebook starts or ends, and leaves these files alone. *)
LEMMA PreparingStored ==
    ASSUME Typed, Stored, world' = world, Preparing', ~Fetching \/ job.stage = "draining",
           \A r \in Runs : /\ disk'[r].cp = disk[r].cp /\ disk'[r].content = disk[r].content
                           /\ disk'[r].manifest = disk[r].manifest
    PROVE  Stored'
<1>1. ~Fetching' /\ job'.stage # "draining"
    BY DEF Preparing, Fetching
<1>2. ReturnedWritten' /\ RowsWritten' /\ NothingTwice'
    BY <1>1 DEF ReturnedWritten, RowsWritten, NothingTwice
<1>3. ResultsWritten'
  <2>1. ASSUME NEW r \in Runs, NEW x \in CheckpointResults(disk[r]) PROVE ~Rewritten(r, x.item)
      BY <2>1 DEF Rewritten, Stored, NothingTwice, CheckpointResults, bundle
  <2> QED
      BY <2>1, ResultsKeptWritten DEF Stored
<1>4. Sealed'
    BY SealedKept DEF Stored
<1> QED
    BY <1>2, <1>3, <1>4 DEF Stored

(* Nothing is written while items are taken up, or no bytes come back. *)
LEMMA QuietStored ==
    ASSUME Typed, Stored, world' = world, disk' = disk, rows' = rows, Fetching, Fetching',
           job'.run = job.run, job'.force = job.force,
           job'.stage = job.stage \/ bundle.cp = Torn,
           InFlight \subseteq InFlight', Returned \subseteq Returned',
           \A x \in Returned' : x.status = "success" => x \in Returned,
           \A i : \/ i \in todo' \/ (\E w \in working' : w.item = i)
                  \/ \E x \in Returned' : x.item = i
                  => \/ i \in todo \/ (\E w \in working : w.item = i)
                     \/ \E x \in Returned : x.item = i
    PROVE  Stored'
<1>1. bundle' = bundle
    BY DEF bundle
<1>2. ReturnedWritten'
    BY <1>1 DEF Stored, ReturnedWritten
<1>3. RowsWritten'
  <2>1. ~Preparing
      BY DEF Fetching, Preparing
  <2> QED
      BY <1>1, <2>1, SameWorld DEF Stored, RowsWritten, OwnName
<1>4. ResultsWritten'
  <2>1. \A r, i : Rewritten(r, i) => Rewritten(r, i)'
      BY DEF Rewritten
  <2> QED
      BY <2>1, ResultsKeptWritten DEF Stored
<1>5. NothingTwice'
  <2>1. CheckpointResults(bundle)' = CheckpointResults(bundle)
      BY <1>1 DEF CheckpointResults
  <2> QED
      BY <1>1, <2>1 DEF Stored, NothingTwice
<1>6. Sealed'
    BY SealedKept DEF Stored
<1> QED
    BY <1>2, <1>3, <1>4, <1>5, <1>6 DEF Stored

LEMMA FetchStored ==
    ASSUME Typed, Apart, Stored, NEW i, Fetch(i) \/ FetchNothing(i) PROVE Stored'
<1>1. /\ Fetching /\ Fetching' /\ world' = world /\ rows' = rows /\ disk' = disk /\ job' = job
      /\ i \in todo /\ todo' = todo \ {i} /\ pending' = pending
    BY DEF Fetch, FetchNothing, Fetching, source, staging
<1>2. \/ /\ answers' = answers
         /\ \E w : w.item = i /\ working' = working \cup {w}
      \/ /\ working' = working
         /\ \E x : /\ x.item = i /\ x.status # "success"
                   /\ answers' = answers \cup {x}
    BY DEF Fetch, FetchNothing, Answer
<1>3. InFlight \subseteq InFlight'
    BY <1>1, <1>2 DEF InFlight
<1>4. /\ Returned \subseteq Returned'
      /\ \A x \in Returned' : x.status = "success" => x \in Returned
    BY <1>1, <1>2 DEF Returned
<1>5. \A j : \/ j \in todo' \/ (\E w \in working' : w.item = j) \/ \E x \in Returned' : x.item = j
             => \/ j \in todo \/ (\E w \in working : w.item = j) \/ \E x \in Returned : x.item = j
    BY <1>1, <1>2 DEF Returned
<1> QED
    BY <1>1, <1>3, <1>4, <1>5, QuietStored

LEMMA RaisesStored ==
    ASSUME Typed, Stored, FlushRaises PROVE Stored'
<1>1. /\ Fetching /\ Fetching' /\ UNCHANGED <<world, rows, disk, todo, working, answers, pending>>
      /\ job'.run = job.run /\ job'.force = job.force /\ bundle.cp = Torn
    BY DEF FlushRaises, Goto, Fetching, source, staging, memory, Typed, JobTyped
<1>2. InFlight' = InFlight /\ Returned' = Returned
    BY <1>1 DEF InFlight, Returned
<1> QED
    BY <1>1, <1>2, QuietStored

(* A worker has written its file, or torn it. *)
LEMMA WorkerStored ==
    ASSUME ~DisturbForced, Typed, Apart, Stored, NEW w \in working, Written(w) \/ WriteFails(w)
    PROVE  Stored'
<1>1. /\ Fetching /\ Fetching' /\ world' = world /\ rows' = rows /\ job' = job
      /\ todo' = todo /\ pending' = pending /\ working' = working \ {w} /\ job.run \in Runs
      /\ UNCHANGED <<lastRun, latestInventory>>
    BY DEF Written, WriteFails, Fetching, source, Typed, JobTyped
<1>2. PICK x : /\ x.item = w.item /\ answers' = answers \cup {x}
               /\ \/ /\ x.status = "success" /\ x.ref = w.name /\ x.hash = w.version
                     /\ Written(w)
                  \/ x.status = "failure" /\ WriteFails(w)
  <2>1. \A status, ref, hash :
           /\ Answer(w.item, status, ref, hash).item = w.item
           /\ Answer(w.item, status, ref, hash).status = status
           /\ Answer(w.item, status, ref, hash).ref = ref
           /\ Answer(w.item, status, ref, hash).hash = hash
      BY DEF Answer
  <2>2. \/ Written(w) /\ answers' = answers \cup {Answer(w.item, "success", w.name, w.version)}
        \/ WriteFails(w) /\ answers' = answers \cup {Answer(w.item, "failure", None, None)}
      BY DEF Written, WriteFails
  <2> QED
      BY <2>1, <2>2
<1>2a. /\ x.status = "success" => disk' = [disk EXCEPT ![job.run].content[w.name]
                                                  = <<w.item, w.version>>]
       /\ x.status # "success" => /\ disk' = [disk EXCEPT ![job.run].content[w.name] = Torn]
                                  /\ ~job.force
    BY <1>2 DEF Written, WriteFails, MayDisturb
<1>3. /\ w.item \in Items /\ w.name \in Names /\ w.version \in Versions
      /\ Torn \in OrNot(ContentFiles) /\ <<w.item, w.version>> \in OrNot(ContentFiles)
    BY ContentItemsAreItems DEF OrNot, ContentFiles, Typed, MemoryTyped
<1>4. /\ \A r \in Runs : /\ \A n \in Names : r # job.run \/ n # w.name
                                => disk'[r].content[n] = disk[r].content[n]
                         /\ disk'[r].cp = disk[r].cp /\ disk'[r].manifest = disk[r].manifest
      /\ x.status = "success" => disk'[job.run].content[w.name] = <<w.item, w.version>>
  <2> DEFINE file == IF x.status = "success" THEN <<w.item, w.version>> ELSE Torn
  <2>1. /\ disk' = [disk EXCEPT ![job.run].content[w.name] = file]
        /\ file \in OrNot(ContentFiles)
        /\ x.status = "success" => file = <<w.item, w.version>>
      BY <1>3, <1>2a
  <2> HIDE DEF file
  <2>2. \A r \in Runs :
           /\ \A n \in Names : disk'[r].content[n] =
                 IF r = job.run /\ n = w.name THEN file ELSE disk[r].content[n]
           /\ disk'[r].cp = disk[r].cp /\ disk'[r].manifest = disk[r].manifest
      BY <1>1, <1>3, <2>1, ContentWritten DEF Typed
  <2> QED
      BY <1>1, <1>3, <2>1, <2>2
<1>5. Returned' = Returned \cup {x}
    BY <1>1, <1>2 DEF Returned
<1>6. \A i \in Items : OwnStem(i) /\ w.name = OwnName(i) => w.item = i
    BY OwnFile
<1>7. \A i \in Items : OwnName(i) \in Names
    BY OwnNameIsAName
<1>8. ReturnedWritten'
  <2>1. \A y \in Returned : y.status = "success" => y.ref \in Names /\ y.ref # w.name
      BY DEF Apart, NamesOnce, AnswersGood
  <2> QED
      BY <1>1, <1>2, <1>4, <1>5, <2>1 DEF Stored, ReturnedWritten, bundle
<1>9. RowsWritten'
  <2>1. ASSUME NEW k \in ContentKeys, OwnStem(k[1]), k[1] \notin InFlight'
        PROVE  /\ k[1] \in Items /\ k[1] \notin InFlight /\ OwnName(k[1]) \in Names
               /\ OwnName(k[1]) # w.name
    <3>1. InFlight \subseteq InFlight' /\ w.item \in InFlight
        BY <1>1, <1>2 DEF InFlight
    <3> QED
        BY <1>6, <1>7, <2>1, <3>1, ContentKey
  <2>2. ~Preparing
      BY <1>1 DEF Fetching, Preparing
  <2> QED
      BY <1>1, <1>4, <2>1, <2>2, SameWorld DEF Stored, RowsWritten, bundle, OwnName
<1>10. ResultsWritten'
  <2>1. ASSUME NEW r \in Runs, NEW y \in CheckpointResults(disk[r]),
               y.status = "success", OwnStem(y.item)
        PROVE  \/ /\ ~Rewritten(r, y.item)
                  /\ disk'[r].content[OwnName(y.item)] = disk[r].content[OwnName(y.item)]
               \/ Rewritten(r, y.item)'
    <3>1. y.item \in Items
        BY <2>1 DEF Typed, FolderTyped, Bundles, OrNot, CheckpointResults, Results
    <3>2. Rewritten(r, y.item) => Rewritten(r, y.item)'
        BY <1>1, <1>5 DEF Rewritten
    <3>3. CASE r = job.run /\ OwnName(y.item) = w.name
      <4>1. y.item = w.item
          BY <1>6, <2>1, <3>1, <3>3
      <4>2. job.force
          BY <1>1, <2>1, <3>3, <4>1 DEF Stored, NothingTwice, bundle
      <4> QED
          BY <1>1, <1>2, <1>2a, <1>5, <3>3, <4>1, <4>2 DEF Rewritten
    <3>4. CASE ~(r = job.run /\ OwnName(y.item) = w.name)
        BY <1>4, <1>7, <3>1, <3>2, <3>4
    <3> QED
        BY <3>3, <3>4
  <2> QED
      BY <1>1, <1>4, <2>1, ResultsKeptWritten DEF Stored
<1>11. NothingTwice'
    BY <1>1, <1>2, <1>4, <1>5 DEF Stored, NothingTwice, bundle, CheckpointResults
<1>12. Sealed'
    BY <1>1, <1>4, SealedKept DEF Stored
<1> QED
    BY <1>8, <1>9, <1>10, <1>11, <1>12 DEF Stored

LEMMA ConsumeStored ==
    ASSUME Typed, Apart, Stored, NEW x \in answers, Consume(x) PROVE Stored'
<1>1. /\ world' = world /\ disk' = disk /\ job' = job /\ todo' = todo /\ working' = working
      /\ answers' = answers \ {x} /\ bundle' = bundle /\ Fetching /\ ~Preparing
      /\ pending' = IF x.status = "success" \/ x.status = "skipped_oversize"
                    THEN pending \cup {x} ELSE pending
    BY DEF Consume, source, staging, bundle, Fetching, Preparing, Produced
<1>2. /\ KeyOf(x.item) \in ContentKeys /\ x \in Results /\ KeyOf(x.item)[1] = x.item
      /\ \A k \in UnitKeys :
            rows'[k] = IF k = KeyOf(x.item) THEN Concluded(rows[k], x) ELSE rows[k]
    BY ConsumeTyped, ContentItem DEF Typed, MemoryTyped
<1>3. x.status = "success" => /\ x.ref \in Names /\ x.hash \in Versions
                              /\ OwnStem(x.item) => x.ref = OwnName(x.item)
                              /\ bundle.content[x.ref] = <<x.item, x.hash>>
    BY <1>1 DEF Apart, AnswersGood, Returned, Stored, ReturnedWritten
<1>4. Returned' \subseteq Returned /\ \A y \in Returned : y.status = "success" => y \in Returned'
    BY <1>1 DEF Returned
<1>5. ReturnedWritten'
    BY <1>1, <1>4 DEF Stored, ReturnedWritten, Fetching
<1>6. RowsWritten'
  <2>1. ASSUME NEW k \in ContentKeys, OwnStem(k[1]), k[1] \notin InFlight',
               rows'[k].status = "success"
        PROVE  /\ rows'[k].ref = OwnName(k[1])
               /\ bundle.content[OwnName(k[1])] = <<k[1], rows'[k].hash>>
    <3>1. k \in UnitKeys /\ KeyOf(k[1]) = k
        BY ContentKey
    <3>2. CASE k = KeyOf(x.item)
      <4>1. rows'[k] = Concluded(rows[k], x) /\ rows[k] \in Row /\ k[1] = x.item
          BY <1>1, <1>2, <3>1, <3>2 DEF Typed, MemoryTyped
      <4>2. None \notin Versions
          BY MarkersAssumption DEF Versions
      <4>3. rows'[k].status = x.status /\ rows'[k].ref = x.ref
          BY <4>1 DEF Concluded, Row
      <4>4. rows'[k].hash = x.hash
          BY <1>3, <2>1, <4>1, <4>2, <4>3 DEF Concluded, Row
      <4> QED
          BY <1>3, <2>1, <4>1, <4>3, <4>4
    <3>3. CASE k # KeyOf(x.item)
      <4>1. rows'[k] = rows[k] /\ k[1] # x.item
          BY <1>2, <3>1, <3>3
      <4>2. k[1] \notin InFlight
          BY <1>1, <2>1, <4>1 DEF InFlight
      <4> QED
          BY <1>1, <2>1, <4>1, <4>2 DEF Stored, RowsWritten
    <3> QED
        BY <3>2, <3>3
  <2> QED
      BY <1>1, <2>1, SameWorld DEF RowsWritten, OwnName
<1>7. ResultsWritten'
  <2>1. \A r, i : Rewritten(r, i) => Rewritten(r, i)'
      BY <1>1, <1>4 DEF Rewritten, Fetching
  <2> QED
      BY <1>1, <2>1, ResultsKeptWritten DEF Stored
<1>8. NothingTwice'
    BY <1>1, <1>4 DEF Stored, NothingTwice, CheckpointResults, Fetching
<1>9. Sealed'
    BY <1>1, SealedKept DEF Stored
<1> QED
    BY <1>5, <1>6, <1>7, <1>8, <1>9 DEF Stored

LEMMA FlushStored ==
    ASSUME Typed, Apart, Stored, FlushContent PROVE Stored'
<1> DEFINE merged == MergeResults(CheckpointResults(bundle), pending)
           b == disk[job.run]
           c == [b EXCEPT !.cp = merged]
<1>1. /\ world' = world /\ job' = job /\ rows' = rows /\ UNCHANGED <<todo, working, answers>>
      /\ pending' = {} /\ disk' = [disk EXCEPT ![job.run] = c]
      /\ job.stage = "content" /\ Fetching /\ ~Preparing
    BY DEF FlushContent, source, Fetching, Preparing
<1>2. job.run \in Runs /\ disk \in [Runs -> Bundles(world)]
    BY <1>1 DEF Typed, JobTyped, FolderTyped
<1>3. c.cp = merged /\ c.manifest = b.manifest /\ c.content = b.content
    BY <1>2 DEF Bundles
<1> HIDE DEF c
<1>4. \A r \in Runs : /\ disk'[r].cp = IF r = job.run THEN merged ELSE disk[r].cp
                      /\ disk'[r].manifest = disk[r].manifest
                      /\ disk'[r].content = disk[r].content
    BY <1>1, <1>2, <1>3
<1>5. Returned' = answers /\ answers \subseteq Returned /\ pending \subseteq Returned
    BY <1>1 DEF Returned
<1>6. \A x \in CheckpointResults(disk'[job.run]) :
         \/ x \in pending
         \/ x \in CheckpointResults(bundle) /\ \A y \in pending : y.item # x.item
    BY <1>2, <1>4 DEF CheckpointResults, MergeResults
<1>7. ReturnedWritten' /\ RowsWritten'
    BY <1>1, <1>2, <1>4, <1>5, SameWorld
    DEF Stored, ReturnedWritten, RowsWritten, bundle, InFlight, Fetching, OwnName
<1>8. ResultsWritten'
  <2>1. ASSUME NEW r \in Runs, NEW x \in CheckpointResults(disk'[r]),
               x.status = "success", OwnStem(x.item)
        PROVE  /\ x.ref = OwnName(x.item)
               /\ \/ disk'[r].content[OwnName(x.item)] = <<x.item, x.hash>>
                  \/ Rewritten(r, x.item)'
    <3>1. CASE r # job.run
        BY <1>4, <2>1, <3>1 DEF Stored, ResultsWritten, Rewritten, CheckpointResults
    <3>2. CASE r = job.run /\ x \in pending
        BY <1>1, <1>4, <1>5, <2>1, <3>2
        DEF Apart, AnswersGood, Stored, ReturnedWritten, bundle
    <3>3. CASE r = job.run /\ x \notin pending
      <4>1. x \in CheckpointResults(disk[r]) /\ \A y \in pending : y.item # x.item
          BY <1>6, <2>1, <3>3 DEF bundle
      <4>2. Rewritten(r, x.item) => Rewritten(r, x.item)'
          BY <1>1, <1>5, <4>1 DEF Rewritten, Fetching, Returned
      <4> QED
          BY <1>4, <2>1, <4>1, <4>2 DEF Stored, ResultsWritten
    <3> QED
        BY <3>1, <3>2, <3>3
  <2>2. \A i : OwnStem(i)' = OwnStem(i) /\ OwnName(i)' = OwnName(i)
      BY <1>1, SameWorld DEF OwnName
  <2>3. \A r : CheckpointResults(disk[r])' = CheckpointResults(disk'[r])
      BY DEF CheckpointResults
  <2> QED
      BY <2>1, <2>2, <2>3 DEF ResultsWritten
<1>9. NothingTwice'
  <2>1. \A x \in pending : /\ x.item \notin todo /\ \A w \in working : w.item # x.item
                           /\ \A y \in answers : y.item # x.item
      BY <1>5 DEF Apart, ItemsOnce
  <2>2. CheckpointResults(bundle)' = CheckpointResults(disk'[job.run])
      BY <1>1 DEF CheckpointResults, bundle
  <2>3. ASSUME ~job.force, NEW x \in CheckpointResults(disk'[job.run])
        PROVE  /\ x.item \notin todo /\ \A w \in working : w.item # x.item
               /\ \A y \in answers : y.item # x.item
    <3>1. CASE x \in pending
        BY <2>1, <3>1
    <3>2. CASE x \in CheckpointResults(bundle)
        BY <1>1, <1>5, <2>3, <3>2 DEF Stored, NothingTwice
    <3> QED
        BY <1>6, <2>3, <3>1, <3>2
  <2>4. /\ job' = job /\ job.stage = "content" /\ todo' = todo /\ working' = working
        /\ Returned' = answers
      BY <1>1, <1>5
  <2> QED
      BY <2>2, <2>3, <2>4 DEF NothingTwice
<1>10. Sealed'
    BY <1>1, <1>4, SealedKept DEF Stored
<1> QED
    BY <1>7, <1>8, <1>9, <1>10 DEF Stored

LEMMA LoadStored ==
    ASSUME Typed, Stored, Load PROVE Stored'
<1> DEFINE done == Resumed(bundle, job.force)
           x(k) == CHOOSE x \in CheckpointResults(bundle) : x.item = k[1]
<1>1. /\ world' = world /\ disk' = disk /\ job.stage = "load" /\ job'.stage = "content"
      /\ job'.run = job.run /\ job'.force = job.force /\ bundle' = bundle /\ job.run \in Runs
      /\ working' = {} /\ answers' = {} /\ pending' = {} /\ todo' = ContentItems \ done
      /\ rows' = [k \in UnitKeys |-> IF k \in ContentKeys /\ k[1] \in done
                                     THEN ResumedRow(k, x(k)) ELSE BuiltRow(k)]
    BY DEF Load, Goto, source, staging, Typed, JobTyped, MemoryTyped, Fetching, bundle
<1>2. Returned' = {} /\ ~Fetching
    BY <1>1 DEF Returned, Fetching
<1>3. ReturnedWritten'
    BY <1>2 DEF ReturnedWritten
<1>4. RowsWritten'
  <2>1. ASSUME NEW k \in ContentKeys, OwnStem(k[1]), k[1] \notin InFlight',
               rows'[k].status = "success"
        PROVE  /\ rows'[k].ref = OwnName(k[1])
               /\ bundle.content[OwnName(k[1])] = <<k[1], rows'[k].hash>>
    <3>1. k \in UnitKeys /\ k[1] \in done
        BY <1>1, <2>1, ContentKey DEF InFlight
    <3>2. x(k) \in CheckpointResults(bundle) /\ x(k).item = k[1]
        BY <3>1 DEF Resumed
    <3>3. rows'[k] = ResumedRow(k, x(k)) /\ BuiltRow(k) \in Row
        BY <1>1, <3>1, BuiltRowTyped
    <3> HIDE DEF x
    <3>4. /\ rows'[k].status = x(k).status /\ rows'[k].ref = x(k).ref
          /\ rows'[k].hash = x(k).hash
        BY <3>3 DEF ResumedRow, Row
    <3>5. ~Rewritten(job.run, k[1])
        BY <1>2 DEF Rewritten
    <3> QED
        BY <1>1, <2>1, <3>2, <3>4, <3>5 DEF Stored, ResultsWritten, bundle
  <2> QED
      BY <1>1, <2>1, SameWorld DEF RowsWritten, OwnName
<1>5. ResultsWritten'
  <2>1. \A r, i : ~Rewritten(r, i)
      BY <1>2 DEF Rewritten
  <2> QED
      BY <1>1, <2>1, ResultsKeptWritten DEF Stored
<1>6. NothingTwice'
    BY <1>1, <1>2 DEF NothingTwice, Resumed, CheckpointResults
<1>7. Sealed'
    BY <1>1, SealedKept DEF Stored
<1> QED
    BY <1>3, <1>4, <1>5, <1>6, <1>7 DEF Stored

LEMMA ContentOverStored ==
    ASSUME Typed, Stored, ContentOver PROVE Stored'
<1>1. /\ world' = world /\ disk' = disk /\ job'.stage = "payload" /\ bundle' = bundle
      /\ job.stage = "content" /\ Returned = {} /\ InFlight' = InFlight /\ job.run \in Runs
    BY DEF ContentOver, Goto, source, staging, Typed, JobTyped, Returned, InFlight, bundle
<1>2. rows \in [UnitKeys -> Row] /\ rows' = [k \in UnitKeys |-> Refreshed(k)]
    BY ContentOverTyped
<1>3. ASSUME NEW k \in ContentKeys
      PROVE  /\ rows'[k].status = rows[k].status /\ rows'[k].ref = rows[k].ref
             /\ rows'[k].hash = rows[k].hash
  <2>1. k \in UnitKeys /\ rows'[k] = Refreshed(k) /\ rows[k] \in Row
      BY <1>2, ContentKey
  <2> QED
      BY <2>1, RefreshedTyped
<1>4. ReturnedWritten' /\ NothingTwice'
    BY <1>1 DEF ReturnedWritten, NothingTwice, Fetching
<1>5. RowsWritten'
  <2>1. ~Preparing
      BY <1>1 DEF Preparing
  <2> QED
      BY <1>1, <1>3, <2>1, SameWorld DEF Stored, RowsWritten, OwnName
<1>6. ResultsWritten'
  <2>1. \A r, i : ~Rewritten(r, i)
      BY <1>1 DEF Rewritten
  <2> QED
      BY <1>1, <2>1, ResultsKeptWritten DEF Stored
<1>7. Sealed'
    BY <1>1, SealedKept DEF Stored
<1> QED
    BY <1>4, <1>5, <1>6, <1>7 DEF Stored

LEMMA ClosingStored ==
    ASSUME Typed, Recorded, Stored, WritePayload \/ WriteIndex \/ WriteManifest PROVE Stored'
<1>1. /\ world' = world /\ rows' = rows /\ UNCHANGED <<todo, working, answers>>
      /\ Closing /\ Closing' /\ job'.run = job.run /\ job.run \in Runs
      /\ disk \in [Runs -> Bundles(world)] /\ bundle \in Bundles(world)
    BY DEF WritePayload, WriteIndex, WriteManifest, Goto, Closing, source, memory, Typed, JobTyped,
           FolderTyped, bundle
<1>2. /\ ~Fetching /\ ~Fetching' /\ ~Preparing /\ job.stage # "draining"
      /\ job'.stage # "draining" /\ InFlight = {} /\ InFlight' = {}
    BY <1>1 DEF Closing, Fetching, Preparing, Typed, MemoryTyped, InFlight
<1>3. PICK m : /\ \A r \in Runs : r # job.run => disk'[r] = disk[r]
               /\ disk'[job.run].cp = bundle.cp /\ disk'[job.run].content = bundle.content
               /\ disk'[job.run].manifest = m
               /\ \/ m = bundle.manifest
                  \/ m = Checksums(bundle) /\ WriteManifest
  <2>1. PICK file : \/ disk' = [disk EXCEPT ![job.run].payload = file]
                    \/ disk' = [disk EXCEPT ![job.run].index = file]
                    \/ /\ disk' = [disk EXCEPT ![job.run].manifest = file]
                       /\ WriteManifest /\ file = Checksums(bundle)
      BY DEF WritePayload, WriteIndex, WriteManifest
  <2>2. /\ \A r \in Runs : r # job.run => disk'[r] = disk[r]
        /\ \/ disk'[job.run] = [bundle EXCEPT !.payload = file]
           \/ disk'[job.run] = [bundle EXCEPT !.index = file]
           \/ /\ disk'[job.run] = [bundle EXCEPT !.manifest = file]
              /\ WriteManifest /\ file = Checksums(bundle)
      BY <1>1, <2>1, FileWritten
  <2>3. CASE \/ disk'[job.run] = [bundle EXCEPT !.payload = file]
             \/ disk'[job.run] = [bundle EXCEPT !.index = file]
    <3>1. /\ disk'[job.run].cp = bundle.cp /\ disk'[job.run].content = bundle.content
          /\ disk'[job.run].manifest = bundle.manifest
        BY <1>1, <2>3 DEF Bundles
    <3> QED
        BY <2>2, <3>1
  <2>4. CASE /\ disk'[job.run] = [bundle EXCEPT !.manifest = file]
             /\ WriteManifest /\ file = Checksums(bundle)
    <3>1. /\ disk'[job.run].cp = bundle.cp /\ disk'[job.run].content = bundle.content
          /\ disk'[job.run].manifest = file
        BY <1>1, <2>4 DEF Bundles
    <3> QED
        BY <2>2, <2>4, <3>1
  <2> QED
      BY <2>2, <2>3, <2>4
<1>4. ReturnedWritten' /\ NothingTwice'
    BY <1>2 DEF ReturnedWritten, NothingTwice
<1>5. RowsWritten'
    BY <1>1, <1>2, <1>3, SameWorld DEF Stored, RowsWritten, OwnName, bundle
<1>6. ResultsWritten'
  <2>1. \A r, i : ~Rewritten(r, i)
      BY <1>2 DEF Rewritten
  <2>2. \A r \in Runs : disk'[r].cp = disk[r].cp /\ disk'[r].content = disk[r].content
      BY <1>3 DEF bundle
  <2> QED
      BY <1>1, <2>1, <2>2, ResultsKeptWritten DEF Stored
<1>7. Sealed'
  <2>1. CASE m = bundle.manifest
      BY <1>1, <1>3, <2>1, SealedKept DEF Stored, bundle
  <2>2. CASE m = Checksums(bundle) /\ WriteManifest
    <3>1. m.content = bundle.content /\ m.index.rows = rows
        BY <2>2 DEF Checksums, Recorded, FilesAgree, WriteManifest
    <3>2. ASSUME NEW k \in ContentKeys, OwnStem(k[1]), rows[k].status = "success"
          PROVE  /\ rows[k].ref \in Names /\ rows[k].hash \in Versions
                 /\ bundle.content[rows[k].ref] = <<k[1], rows[k].hash>>
      <4>1. Outcome(rows[k])
          BY <1>2, ContentKey DEF Recorded, RowsGood
      <4> QED
          BY <1>2, <3>2, <4>1 DEF Stored, RowsWritten, Outcome
    <3>3. ContentSealed(m)
        BY <3>1, <3>2 DEF ContentSealed
    <3>4. \A r \in Runs : ContentSealed(disk'[r].manifest)
        BY <1>3, <3>3 DEF Stored, Sealed
    <3>5. \A r \in Runs : ContentSealed(disk[r].manifest)' = ContentSealed(disk'[r].manifest)
        BY <1>1, SameWorld DEF ContentSealed
    <3> QED
        BY <3>4, <3>5 DEF Sealed
  <2> QED
      BY <1>3, <2>1, <2>2
<1> QED
    BY <1>4, <1>5, <1>6, <1>7 DEF Stored

(* A process that is killed tears files of items that no checkpoint has. *)
LEMMA CrashStored ==
    ASSUME ~DisturbForced, Typed, Apart, Stored, Crash PROVE Stored'
<1>1. /\ world' = world /\ Preparing' /\ ~Fetching' /\ job'.stage # "draining" /\ ~job.force
    BY DEF Crash, EndJob, Idle, Preparing, Fetching, MayDisturb, source
<1>2. /\ job.run \in Runs /\ \A r \in Runs : r # job.run => disk'[r] = disk[r]
      /\ disk'[job.run].cp \in {bundle.cp, Torn}
      /\ disk'[job.run].manifest \in {bundle.manifest, Torn}
      /\ \A n \in Names : \/ disk'[job.run].content[n] = bundle.content[n]
                          \/ \E w \in working : w.name = n
    BY CrashTyped
<1>3. ReturnedWritten' /\ RowsWritten' /\ NothingTwice'
    BY <1>1 DEF ReturnedWritten, RowsWritten, NothingTwice
<1>4. ResultsWritten'
  <2>1. ASSUME NEW r \in Runs, NEW x \in CheckpointResults(disk[r]),
               x.status = "success", OwnStem(x.item)
        PROVE  /\ ~Rewritten(r, x.item)
               /\ disk'[r].content[OwnName(x.item)] = disk[r].content[OwnName(x.item)]
    <3>1. ~Rewritten(r, x.item)
        BY <1>1 DEF Rewritten
    <3>2. x.item \in Items
        BY <2>1 DEF Typed, FolderTyped, Bundles, OrNot, CheckpointResults, Results
    <3>3. OwnName(x.item) \in Names
        BY <3>2, OwnNameIsAName
    <3>4. ASSUME r = job.run, NEW w \in working, w.name = OwnName(x.item) PROVE FALSE
      <4>1. w.item = x.item
          BY <2>1, <3>2, <3>4, OwnFile
      <4>2. Fetching
          BY <3>4 DEF Typed, MemoryTyped
      <4> QED
          BY <1>1, <2>1, <3>4, <4>1, <4>2 DEF Stored, NothingTwice, bundle
    <3> QED
        BY <1>2, <3>1, <3>3, <3>4 DEF bundle
  <2> QED
      BY <1>1, <1>2, <2>1, ResultsKeptWritten DEF Stored, bundle
<1>5. Sealed'
    BY <1>1, <1>2, SealedKept DEF Stored, bundle
<1> QED
    BY <1>3, <1>4, <1>5 DEF Stored

LEMMA StoredNext ==
    ASSUME ~DisturbForced, Typed, Apart, Recorded, Stored, [Next]_vars PROVE Stored'
<1>1. CASE WorkerStep
    BY <1>1, FetchStored, WorkerStored DEF WorkerStep
<1>2. CASE \E x \in answers : Consume(x)
    BY <1>2, ConsumeStored
<1>3. CASE Load
    BY <1>3, LoadStored
<1>4. CASE FlushContent
    BY <1>4, FlushStored
<1>5. CASE FlushRaises
    BY <1>5, RaisesStored
<1>6. CASE ContentOver
    BY <1>6, ContentOverStored
<1>7. CASE WritePayload \/ WriteIndex \/ WriteManifest
    BY <1>7, ClosingStored
<1>8. CASE Crash
    BY <1>8, CrashStored
<1>9. CASE \/ StartInventory \/ StartExport \/ WriteInventory \/ WriteInventoryPointer
           \/ RefuseExport \/ Drained \/ WriteExportPointer
  <2>1. Preparing' /\ world' = world /\ (~Fetching \/ job.stage = "draining")
      BY <1>9 DEF StartInventory, StartExport, StartJob, WriteInventory, WriteInventoryPointer,
         RefuseExport, Drained, WriteExportPointer, EndJob, Idle, Goto, Preparing, Fetching, Typed,
         JobTyped, source
  <2>2. \A r \in Runs : /\ disk'[r].cp = disk[r].cp /\ disk'[r].content = disk[r].content
                        /\ disk'[r].manifest = disk[r].manifest
    <3>1. CASE WriteInventory
        BY <3>1 DEF WriteInventory, Typed, FolderTyped, Bundles
    <3>2. CASE disk' = disk
        BY <3>2
    <3> QED
        BY <1>9, <3>1, <3>2 DEF StartInventory, StartExport, StartJob, WriteInventoryPointer,
           RefuseExport, Drained, WriteExportPointer, staging
  <2> QED
      BY <2>1, <2>2, PreparingStored
<1>10. CASE (\E i \in Items : Edit(i)) \/ UNCHANGED vars
  <2>1. UNCHANGED <<world, disk, job, rows, todo, working, answers, pending>>
      BY <1>10 DEF Edit, vars, source, staging, memory
  <2>2. \A r : CheckpointResults(disk[r])' = CheckpointResults(disk[r])
      BY <2>1 DEF CheckpointResults
  <2>3. /\ InFlight' = InFlight /\ Returned' = Returned /\ bundle' = bundle
        /\ CheckpointResults(bundle)' = CheckpointResults(bundle)
        /\ Fetching' = Fetching /\ Preparing' = Preparing
        /\ \A r, i : Rewritten(r, i)' = Rewritten(r, i)
      BY <2>1 DEF InFlight, Returned, bundle, CheckpointResults, Fetching, Preparing, Rewritten
  <2>4. ReturnedWritten' /\ RowsWritten' /\ NothingTwice'
      BY <2>1, <2>3, SameWorld DEF Stored, ReturnedWritten, RowsWritten, NothingTwice, OwnName
  <2>5. ResultsWritten'
      BY <2>1, <2>2, <2>3, SameWorld DEF Stored, ResultsWritten, OwnName
  <2>6. Sealed'
      BY <2>1, SealedKept DEF Stored
  <2> QED
      BY <2>4, <2>5, <2>6 DEF Stored
<1> QED
    BY <1>1, <1>2, <1>3, <1>4, <1>5, <1>6, <1>7, <1>8, <1>9, <1>10 DEF Next, MainStep

LEMMA StoredInit == Init => Stored
<1> SUFFICES ASSUME Init PROVE Stored
    OBVIOUS
<1>1. \A r \in Runs : CheckpointResults(disk[r]) = {} /\ ~Whole(disk[r].manifest)
    BY DEF Init, NewBundle, CheckpointResults, Whole
<1>2. ~Fetching /\ Preparing /\ job.stage # "draining"
    BY DEF Init, Idle, Fetching, Preparing
<1> QED
    BY <1>1, <1>2 DEF Stored, ReturnedWritten, RowsWritten, ResultsWritten, NothingTwice, Sealed,
       ContentSealed

(* Of exports that are forced only when nothing disturbs them (see the run's constant):
   a bundle that verifies is whole, its content files included.                          *)
THEOREM AcceptedIsWhole ==
    ASSUME ~DisturbForced PROVE Spec => []AcceptedBundleIsWhole
<1>1. Typed /\ Apart /\ Recorded /\ Stored /\ [Next]_vars => Stored'
    BY StoredNext
<1>2. Typed /\ Recorded /\ Stored => AcceptedBundleIsWhole
    BY StoredImplies DEF Stored
<1> QED
    BY <1>1, <1>2, StoredInit, AlwaysTyped, AlwaysApart, AlwaysRecorded, PTL DEF Spec

(* --- a forced export is of today -------------------------------------------------------------- *)

Recent ==
    /\ \A i \in Items : since[i] <= version[i]
    /\ job.force /\ ~Preparing =>
          /\ \A w \in working : w.version >= since[w.item]
          /\ \A x \in Returned : x.status = "success" => x.hash >= since[x.item]
          /\ \A k \in ContentKeys :
                k[1] \notin InFlight /\ rows[k].status = "success" => rows[k].hash >= since[k[1]]

LEMMA RecentImplies ==
    ASSUME Typed, Recent PROVE ForcedExportIsFresh
<1> SUFFICES ASSUME job.force, job.stage = "index" PROVE
       \A k \in ContentKeys : rows[k].status = "success" => rows[k].hash >= since[k[1]]
    BY DEF ForcedExportIsFresh
<1>1. ~Preparing /\ InFlight = {}
    BY DEF Preparing, Fetching, Typed, MemoryTyped, InFlight
<1> QED
    BY <1>1 DEF Recent

LEMMA PreparingRecent ==
    ASSUME \A i \in Items : since'[i] <= version'[i], Preparing' PROVE Recent'
BY DEF Recent

(* The versions that a worker takes up are today's; what is known of them stays. *)
LEMMA WorkersRecent ==
    ASSUME Typed, Recent, WorkerStep PROVE Recent'
<1>1. /\ ~Preparing /\ job' = job /\ rows' = rows /\ since' = since /\ version' = version
      /\ world' = world /\ pending' = pending
    BY DEF WorkerStep, Fetch, FetchNothing, Written, WriteFails, Fetching, Preparing, source, staging
<1>2. \A i \in Items : since[i] <= version[i]
    BY DEF Recent
<1>3. CASE ~job.force
    BY <1>1, <1>2, <1>3 DEF Recent
<1>4. CASE job.force
  <2> DEFINE Still ==
         /\ InFlight \subseteq InFlight'
         /\ \A w \in working' : w.version >= since[w.item]
         /\ \A x \in Returned' : x.status = "success" => x.hash >= since[x.item]
  <2>1. Still
    <3>1. /\ \A w \in working : w.version >= since[w.item]
          /\ \A x \in Returned : x.status = "success" => x.hash >= since[x.item]
        BY <1>1, <1>4 DEF Recent
    <3>2. ASSUME NEW i \in Items, Fetch(i) \/ FetchNothing(i) PROVE Still
      <4>1. todo' = todo \ {i}
          BY <3>2 DEF Fetch, FetchNothing
      <4>2. CASE \E w : /\ w.item = i /\ w.version = version[i]
                        /\ working' = working \cup {w} /\ answers' = answers
          BY <1>1, <1>2, <3>1, <4>1, <4>2 DEF InFlight, Returned
      <4>3. CASE \E x : /\ x.item = i /\ x.status # "success"
                        /\ working' = working /\ answers' = answers \cup {x}
          BY <1>1, <3>1, <4>1, <4>3 DEF InFlight, Returned
      <4> QED
          BY <3>2, <4>2, <4>3 DEF Fetch, FetchNothing, Answer
    <3>3. ASSUME NEW w \in working, Written(w) \/ WriteFails(w) PROVE Still
      <4>1. todo' = todo /\ working' = working \ {w}
          BY <3>3 DEF Written, WriteFails
      <4>2. \A status, ref, hash :
               /\ Answer(w.item, status, ref, hash).item = w.item
               /\ Answer(w.item, status, ref, hash).status = status
               /\ Answer(w.item, status, ref, hash).hash = hash
          BY DEF Answer
      <4>3. \/ answers' = answers \cup {Answer(w.item, "success", w.name, w.version)}
            \/ answers' = answers \cup {Answer(w.item, "failure", None, None)}
          BY <3>3 DEF Written, WriteFails
      <4>4. PICK x : /\ x.item = w.item /\ answers' = answers \cup {x}
                     /\ x.status = "success" => x.hash = w.version
          BY <4>2, <4>3
      <4> QED
          BY <1>1, <3>1, <4>1, <4>4 DEF InFlight, Returned
    <3> QED
        BY <3>2, <3>3 DEF WorkerStep
  <2> QED
      BY <1>1, <1>2, <1>4, <2>1, SameWorld DEF Recent
<1> QED
    BY <1>3, <1>4

LEMMA ConsumeRecent ==
    ASSUME Typed, Apart, Recent, NEW x \in answers, Consume(x) PROVE Recent'
<1>1. /\ world' = world /\ version' = version /\ job' = job /\ todo' = todo /\ working' = working
      /\ since' = since /\ answers' = answers \ {x} /\ ~Preparing /\ rows \in [UnitKeys -> Row]
      /\ pending' \subseteq pending \cup {x}
    BY DEF Consume, source, staging, Preparing, Typed, MemoryTyped
<1>2. /\ KeyOf(x.item) \in ContentKeys /\ KeyOf(x.item)[1] = x.item
      /\ \A k \in UnitKeys :
            rows'[k] = IF k = KeyOf(x.item) THEN Concluded(rows[k], x) ELSE rows[k]
    BY ConsumeTyped, ContentItem DEF Typed, MemoryTyped
<1>3. ASSUME job.force, NEW k \in ContentKeys, k[1] \notin InFlight', rows'[k].status = "success"
      PROVE  rows'[k].hash >= since[k[1]]
  <2>1. k \in UnitKeys /\ KeyOf(k[1]) = k
      BY ContentKey
  <2>2. CASE k = KeyOf(x.item)
    <3>1. rows'[k] = Concluded(rows[k], x) /\ rows[k] \in Row /\ k[1] = x.item
        BY <1>1, <1>2, <2>1, <2>2
    <3>2. x.status = "success"
        BY <1>3, <3>1 DEF Concluded, Row
    <3>3. x.hash \in Versions /\ x.hash >= since[x.item] /\ None \notin Versions
        BY <1>1, <1>3, <3>2, MarkersAssumption DEF Apart, AnswersGood, Recent, Returned, Versions
    <3>4. rows'[k].hash = x.hash
        BY <3>1, <3>3 DEF Concluded, Row
    <3> QED
        BY <3>1, <3>3, <3>4
  <2>3. CASE k # KeyOf(x.item)
    <3>1. rows'[k] = rows[k] /\ k[1] # x.item
        BY <1>2, <2>1, <2>3
    <3>2. k[1] \notin InFlight
        BY <1>1, <1>3, <3>1 DEF InFlight
    <3> QED
        BY <1>1, <1>3, <3>1, <3>2 DEF Recent
  <2> QED
      BY <2>2, <2>3
<1>4. Returned' \subseteq Returned
    BY <1>1 DEF Returned
<1> QED
    BY <1>1, <1>3, <1>4, SameWorld DEF Recent

LEMMA RecentNext == Typed /\ Apart /\ Recent /\ [Next]_vars => Recent'
<1> SUFFICES ASSUME Typed, Apart, Recent, [Next]_vars PROVE Recent'
    OBVIOUS
<1>1. CASE WorkerStep
    BY <1>1, WorkersRecent
<1>2. CASE \E x \in answers : Consume(x)
    BY <1>2, ConsumeRecent
<1>3. CASE Load
  <2>1. /\ job'.force = job.force /\ job'.stage = "content" /\ UNCHANGED <<version, since>>
        /\ working' = {} /\ Returned' = {} /\ (job.force => todo' = ContentItems) /\ world' = world
      BY <1>3 DEF Load, Goto, Resumed, source, staging, Typed, JobTyped, MemoryTyped, Fetching,
         Returned
  <2>2. job.force => \A k \in ContentKeys : k[1] \in InFlight'
      BY <2>1, ContentKey DEF InFlight
  <2> QED
      BY <2>1, <2>2, SameWorld DEF Recent
<1>4. CASE FlushContent \/ FlushRaises
  <2>1. /\ world' = world /\ job'.force = job.force /\ InFlight' = InFlight /\ ~Preparing
        /\ UNCHANGED <<version, since, working, rows>> /\ Returned' \subseteq Returned
      BY <1>4 DEF FlushContent, FlushRaises, Goto, source, memory, Preparing, InFlight, Returned,
         Typed, JobTyped
  <2> QED
      BY <2>1, SameWorld DEF Recent
<1>5. CASE ContentOver
  <2>1. /\ world' = world /\ job'.force = job.force /\ InFlight' = InFlight /\ ~Preparing
        /\ UNCHANGED <<version, since, working>> /\ Returned' = Returned
      BY <1>5 DEF ContentOver, Goto, source, staging, Preparing, InFlight, Returned, Typed, JobTyped
  <2>2. ASSUME NEW k \in ContentKeys
        PROVE  rows'[k].status = rows[k].status /\ rows'[k].hash = rows[k].hash
    <3>1. k \in UnitKeys /\ rows'[k] = Refreshed(k) /\ rows[k] \in Row
        BY <1>5, ContentOverTyped, ContentKey
    <3> QED
        BY <3>1, RefreshedTyped
  <2> QED
      BY <2>1, <2>2, SameWorld DEF Recent
<1>6. CASE WritePayload \/ WriteIndex \/ WriteManifest
  <2>1. /\ world' = world /\ job'.force = job.force /\ InFlight' = InFlight /\ ~Preparing
        /\ UNCHANGED <<version, since, working, rows>> /\ Returned' = Returned
      BY <1>6 DEF WritePayload, WriteIndex, WriteManifest, Goto, source, memory, Preparing, InFlight,
         Returned, Typed, JobTyped
  <2> QED
      BY <2>1, SameWorld DEF Recent
<1>7. CASE EndJob /\ UNCHANGED source
  <2>1. Preparing' /\ \A i \in Items : since'[i] = 0 /\ version'[i] \in Nat
      BY <1>7 DEF EndJob, ForgetMemory, Idle, Preparing, source, Typed, WorldTyped, Versions
  <2> QED
      BY <2>1, PreparingRecent
<1>8. CASE StartInventory \/ StartExport \/ WriteInventory
  <2>1. Preparing' /\ version' = version /\ since' \in {since, version}
      BY <1>8 DEF StartInventory, StartExport, StartJob, WriteInventory, Goto, Preparing, source,
         memory, Typed, JobTyped
  <2>2. \A i \in Items : since'[i] <= version'[i]
      BY <2>1 DEF Recent, Typed, WorldTyped, Versions
  <2> QED
      BY <2>1, <2>2, PreparingRecent
<1>9. CASE (\E i \in Items : Edit(i)) \/ UNCHANGED vars
  <2>1. UNCHANGED <<world, job, rows, todo, working, answers, pending, since>>
      BY <1>9 DEF Edit, vars, source, memory
  <2>2. \A i \in Items : since[i] <= version'[i]
      BY <1>9 DEF Edit, vars, source, Recent, Typed, WorldTyped, Versions
  <2> QED
      BY <2>1, <2>2, SameWorld DEF Recent, InFlight, Returned, Preparing
<1> QED
    BY <1>1, <1>2, <1>3, <1>4, <1>5, <1>6, <1>7, <1>8, <1>9
    DEF Next, MainStep, WriteInventoryPointer, RefuseExport, Drained, WriteExportPointer, Crash

(* A forced export records no bytes older than itself, whatever is edited meanwhile. *)
THEOREM ForcedIsFresh == Spec => []ForcedExportIsFresh
<1>1. Init => Recent
    BY BoundsAssumption DEF Init, Recent, Preparing, Idle
<1> QED
    BY <1>1, RecentNext, RecentImplies, AlwaysTyped, AlwaysApart, PTL DEF Spec
===============================================================================
