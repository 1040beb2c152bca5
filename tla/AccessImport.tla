---------------------------- MODULE AccessImport ----------------------------
(* The identity, object and ACL phases of an import, over several runs of one
   bundle or of successive bundles: who may do what on the target workspace.

   Principals are known by name on both sides (userName, applicationId,
   displayName).  The objects' families are abstracted to "an object is made,
   adopted or fails"; their grants, the identity map and the retry that follows
   healed objects are modelled in full.  Left out: entitlements and roles (their
   own best-effort PATCHes), secret scopes, pipeline owners, the query owner's
   line, wording.  The bookkeeping is that of the import engine: rows in memory
   and in the table, outcomes in the bundle's checkpoint, batches of both written
   at any time.                                                                *)
EXTENDS Naturals, FiniteSets

CONSTANTS Users, SPs, Groups,   \* principals of the source workspace
          Admins,               \* the built-in group
          Objects,              \* objects whose grants are migrated
          Worlds,               \* what there is: see Init and Source
          MaxBundles, MaxRuns, MaxIds,
          MaxFaults, MaxCrashes, MaxPeople, MaxTrouble,    \* bounds, the last on their sum
          Deletable,            \* bound: objects that people may delete
          Racing,               \* bound: principals that others may assign meanwhile
          None

Principals == Users \cup SPs \cup Groups \cup {Admins}

(* Users are known by userName, service principals by applicationId, groups by
   displayName.                                                                *)
ASSUME PrincipalsAssumption ==
    /\ Users \cap SPs = {} /\ (Users \cup SPs) \cap Groups = {}
    /\ Admins \notin Users \cup SPs \cup Groups

(* A unit without workspace permissions in the bundle wants USER. *)
ASSUME WorldsAssumption ==
    \A w \in Worlds :
        /\ w.present \subseteq Principals /\ w.local \subseteq Groups /\ w.account \subseteq Groups
        /\ \A b \in 1..MaxBundles, p \in Users \cup SPs \cup Groups :
               w.bundles[b].perm[p] \in {"USER", "ADMIN"}

ASSUME BoundsAssumption ==
    /\ MaxBundles \in Nat \ {0} /\ MaxIds \in Nat

VARIABLES
    world,      \* one of Worlds, fixed
    present,    \* principals of the target workspace
    local,      \* those of them that are workspace-local groups
    account,    \* principals of the target account
    members,    \* target groups -> members
    perm,       \* workspace permission on target: "none", "USER", "ADMIN"
    object,     \* Objects -> target id
    grants,     \* target ids -> principals with an explicit grant
    nextId,
    rows, idmap,            \* the state tables as the process sees them
    saved, savedIdmap,      \* and as they are stored
    cp,                     \* the bundle's checkpoint: unit -> outcome
    stage, bundle, mode,    \* the run
    known, listedLocal, listedPerm,    \* what the importer knows of the target
    work, todo,             \* the phase's work list, and what is left of it
    memberPass,             \* groups whose members wait for the second pass
    acted,                  \* objects this run made or adopted, or restored as such
    healed,                 \* history: those of them that it did not merely restore
    pending,                \* outcomes not yet in the checkpoint
    warned,                 \* principals with a permission warning in this run
    report,                 \* the ACL parity verdicts
    runs, faults, crashes, people

target == <<present, local, account, members, perm, object, grants, nextId>>
tables == <<rows, idmap, saved, savedIdmap>>
run == <<stage, bundle, mode>>
memory == <<known, listedLocal, listedPerm, work, todo, memberPass, acted, healed, pending,
            warned, report>>
budget == <<runs, faults, crashes, people>>
vars == <<world, target, tables, cp, run, memory, budget>>

Ids == 1..MaxIds
IdentityKeys == ({"user"} \X Users) \cup ({"sp"} \X SPs) \cup ({"group"} \X Groups)
                  \cup {<<"membership", Admins>>}
ObjectKeys == {"object"} \X Objects
AclKeys == {"acl"} \X Objects
Keys == IdentityKeys \cup ObjectKeys \cup AclKeys

NoRow == [action |-> None, fp |-> None, tid |-> None, run |-> 0]
NoOutcome == [action |-> None, fp |-> None, tid |-> None, typed |-> TRUE]
Success == {"created", "created_with_warning", "updated", "adopted", "skipped"}
Actions == Success \cup {"failed", "manual", "skipped_no_object"}

ASSUME NoneAssumption ==
    None \notin Nat \cup Principals \cup Actions \cup {"object", "match"}

(* The bundle: wanted workspace permission, members and explicit grants. *)
Source == world.bundles[bundle]
Class(g) == world.class[g]
Wanted(p) == Source.perm[p]

Fp(k) ==
    CASE k[1] \in {"user", "sp"} -> Wanted(k[2])
      [] k[1] = "group"          -> <<Wanted(k[2]), Source.members[k[2]]>>
      [] k[1] = "membership"     -> Source.members[Admins]
      [] k[1] = "acl"            -> Source.grants[k[2]]
      [] OTHER                   -> "object"

Init ==
    /\ world \in Worlds
    /\ present = world.present \cup {Admins} /\ local = world.local
    /\ account = world.account
    /\ members = [g \in Groups \cup {Admins} |-> {}]
    /\ perm = [p \in Principals |-> IF p \in world.present THEN "USER" ELSE "none"]
    /\ object = [o \in Objects |-> None]
    /\ grants = [i \in Ids |-> {}] /\ nextId = 1
    /\ rows = [k \in Keys |-> NoRow] /\ saved = rows
    /\ idmap = {} /\ savedIdmap = {}
    /\ cp = [k \in Keys |-> NoOutcome]
    /\ stage = "idle" /\ bundle = 1 /\ mode = "full"
    /\ known = {} /\ listedLocal = {} /\ listedPerm = None
    /\ work = {} /\ todo = {} /\ memberPass = {} /\ acted = {} /\ healed = {}
    /\ pending = cp /\ warned = {} /\ report = [o \in Objects |-> None]
    /\ runs = 0 /\ faults = 0 /\ crashes = 0 /\ people = 0

(* --- rows, checkpoint, run start ------------------------------------------- *)

(* record(): a blank id or fingerprint keeps what the row knew. *)
Recorded(row, action, fp, tid) ==
    [action |-> action, fp |-> IF fp = None THEN row.fp ELSE fp,
     tid |-> IF tid = None THEN row.tid ELSE tid, run |-> bundle]

Conclude(k, action, tid) ==
    /\ rows' = [rows EXCEPT ![k] =
                  Recorded(@, action, IF action = "failed" THEN None ELSE Fp(k), tid)]
    /\ pending' = [pending EXCEPT ![k] =
                     [action |-> action, fp |-> Fp(k), tid |-> tid, typed |-> TRUE]]
    /\ todo' = todo \ {k}

Overlaid(old, new) == [k \in Keys |-> IF new[k] = NoOutcome THEN old[k] ELSE new[k]]
NothingPending == [k \in Keys |-> NoOutcome]

SaveCheckpoint == cp' = Overlaid(cp, pending) /\ pending' = NothingPending
SaveState == saved' = rows /\ savedIdmap' = idmap

(* An outcome written again by the second pass has no asset type: in a family of
   several types the replay cannot tell whose it is.                          *)
Replayed(k) == cp[k] # NoOutcome /\ cp[k].typed /\ saved[k].run # bundle'

Retry(keys, table) == {k \in keys : table[k].action = "failed"}

WorkList(keys, table) == IF mode = "full" THEN keys ELSE Retry(keys, table)

StartRun ==
    /\ stage = "idle" /\ runs < MaxRuns /\ runs' = runs + 1
    /\ \/ bundle' = bundle /\ cp' = cp
       \/ runs > 0 /\ bundle < MaxBundles /\ bundle' = bundle + 1 /\ cp' = NothingPending
    /\ mode' \in IF runs = 0 THEN {"full"} ELSE {"full", "failed_only"}
    /\ rows' = IF bundle' # bundle THEN saved
               ELSE [k \in Keys |->
                       IF Replayed(k)
                       THEN Recorded(saved[k], cp[k].action, cp[k].fp, cp[k].tid)
                       ELSE saved[k]]
    /\ saved' = rows' /\ idmap' = savedIdmap
    /\ stage' = "pass1"
    /\ known' = present /\ listedLocal' = local
    /\ listedPerm' \in {perm, None}           \* None: could not be read
    /\ work' = IF mode' = "full" THEN IdentityKeys ELSE Retry(IdentityKeys, rows')
    /\ todo' = IdentityKeys /\ memberPass' = {} /\ acted' = {} /\ healed' = {}
    /\ warned' = IF bundle' = bundle THEN warned ELSE {}
    /\ pending' = NothingPending /\ report' = [o \in Objects |-> None]
    /\ UNCHANGED <<world, target, savedIdmap, faults, crashes, people>>

(* --- the decision ------------------------------------------------------------ *)

Exists(k) ==
    CASE k[1] = "acl"    -> rows[k].tid # None
      [] k[1] = "object" -> object[k[2]] # None
      [] OTHER           -> k[2] \in known

ExistingId(k) ==
    IF ~Exists(k) THEN None
    ELSE CASE k[1] = "acl"    -> rows[k].tid
           [] k[1] = "object" -> object[k[2]]
           [] OTHER           -> k[2]

Decide(k) ==
    IF ~Exists(k) THEN "create"
    ELSE IF rows[k] = NoRow THEN "adopt"
    ELSE IF rows[k].fp = Fp(k) THEN "skip" ELSE "update"

(* Units whose type comes first in the phase's order; the rest have to wait. *)
Rank(k) == CASE k[1] = "user" -> 1 [] k[1] = "sp" -> 2 [] k[1] = "group" -> 3 [] OTHER -> 4
Turn(k) == k \in todo /\ \A j \in todo : Rank(k) <= Rank(j)

Resumable(k) ==
    /\ mode = "full"
    /\ cp[k] # NoOutcome /\ cp[k].action # "skipped_no_object"

Trouble == faults + crashes + people < MaxTrouble

CallFails == Trouble /\ faults < MaxFaults /\ faults' = faults + 1
CallWorks == UNCHANGED faults

(* --- identity, pass 1 ---------------------------------------------------------- *)

(* PUT the workspace permission if the listing shows another one; a refusal is a
   warning.                                                                    *)
EnsureAssignment(p) ==
    IF listedPerm # None /\ listedPerm[p] = Wanted(p)
    THEN UNCHANGED <<perm, warned, faults>>
    ELSE \/ perm' = [perm EXCEPT ![p] = Wanted(p)] /\ CallWorks /\ UNCHANGED warned
         \/ warned' = warned \cup {p} /\ CallFails /\ UNCHANGED perm

MapRow(k) == idmap' = IF k[1] = "sp" THEN idmap \cup {k[2]} ELSE idmap

(* Defect: only the create paths set the permission. *)
AfterBaseNothing(k, action, tid) == UNCHANGED <<idmap, perm, warned, faults>>

(* The hook after the base flow, for outcomes that created nothing. *)
AfterBase(k, action, tid) ==
    IF action \in {"created", "created_with_warning", "failed"} \/ tid = None
    THEN UNCHANGED <<idmap, perm, warned, faults>>
    ELSE /\ MapRow(k)
         /\ IF k[1] = "membership" THEN UNCHANGED <<perm, warned, faults>>
            ELSE EnsureAssignment(k[2])

InPass1(k) ==
    /\ stage = "pass1" /\ Turn(k)
    /\ UNCHANGED <<world, local, account, object, grants, nextId, saved, savedIdmap, cp,
                   run, listedLocal, listedPerm, work, acted, healed, report, runs, crashes, people>>

NotChanging == UNCHANGED <<present, members, known, memberPass>>

NotInRetry(k) ==
    /\ k \notin work
    /\ todo' = todo \ {k}
    /\ NotChanging /\ UNCHANGED <<rows, pending, idmap, perm, warned, faults>>

(* Defect: a workspace-local group found under an account group's name is adopted. *)
ShadowedNever(k) == FALSE

(* A workspace-local group has taken the name of an account group. *)
Shadowed(k) == k[1] = "group" /\ Class(k[2]) = "account" /\ k[2] \in listedLocal

RefuseShadow(k) ==
    /\ Shadowed(k)
    /\ Conclude(k, "failed", None)
    /\ NotChanging /\ UNCHANGED <<idmap, perm, warned, faults>>

(* Export marks them: nobody knows what they are, or Databricks made them. *)
NotAttempted(k) == k[1] = "group" /\ Class(k[2]) \in {"needs_review", "system_generated"}

Pass(k) ==
    /\ NotAttempted(k)
    /\ Conclude(k, IF Class(k[2]) = "needs_review" THEN "manual" ELSE "skipped", None)
    /\ NotChanging /\ UNCHANGED <<idmap, perm, warned, faults>>

Resume(k) ==
    /\ rows' = [rows EXCEPT ![k] =
                  Recorded(@, cp[k].action, IF cp[k].action = "failed" THEN None ELSE Fp(k),
                           cp[k].tid)]
    /\ todo' = todo \ {k} /\ UNCHANGED pending
    /\ AfterBase(k, cp[k].action, cp[k].tid)
    /\ NotChanging

Unchanged(k) ==
    /\ Conclude(k, "skipped", ExistingId(k))
    /\ AfterBase(k, "skipped", ExistingId(k))
    /\ NotChanging

Fails(k) ==
    /\ CallFails
    /\ Conclude(k, "failed", ExistingId(k))
    /\ NotChanging /\ UNCHANGED <<idmap, perm, warned>>

(* Defect: the source's member list is sent as it is. *)
ResolvedAll(ms) == ms

(* A member that the target does not know by name is left out of the call. *)
Resolved(ms) == ms \cap known
Unresolved(ms) == ms \ known

SyncMembers(g) ==
    members' = [members EXCEPT ![g] = @ \cup Resolved(Source.members[g])]

SyncOutcome(g, clean) == IF Unresolved(Source.members[g]) = {} THEN clean ELSE "created_with_warning"

(* POST a user or a service principal: the account's own one is assigned here.  One
   that was assigned since the listing is found again, a user by the POST itself. *)
CreatePrincipal(k) ==
    LET p == k[2]
        raced == k[1] = "sp" /\ p \in present
    IN  /\ present' = present \cup {p} /\ known' = known \cup {p}
        /\ Conclude(k, "created", p)
        /\ MapRow(k)
        /\ IF raced THEN UNCHANGED <<perm, warned, faults>> ELSE EnsureAssignment(p)
        /\ UNCHANGED <<members, memberPass>>

(* An account group is assigned, never posted. *)
AssignAccountGroup(k) ==
    LET g == k[2]
    IN  /\ IF g \in account
           THEN /\ present' = present \cup {g} /\ known' = known \cup {g}
                /\ perm' = [perm EXCEPT ![g] = Wanted(g)]
                /\ Conclude(k, "created", g)
           ELSE /\ Conclude(k, "failed", None)
                /\ UNCHANGED <<present, known, perm>>
        /\ UNCHANGED <<members, memberPass, idmap, warned>> /\ CallWorks

Adopt(k) ==
    /\ Conclude(k, "adopted", k[2])
    /\ AfterBase(k, "adopted", k[2])
    /\ NotChanging

(* Members of an account group are the account's; only permissions are applied. *)
UpdateInPlace(k) ==
    LET ownMembers == k[1] = "group" /\ Class(k[2]) = "workspace_local"
        action == IF ownMembers THEN SyncOutcome(k[2], "updated") ELSE "updated"
    IN  /\ IF ownMembers THEN SyncMembers(k[2]) ELSE UNCHANGED members
        /\ Conclude(k, action, k[2])
        /\ AfterBase(k, action, k[2])
        /\ UNCHANGED <<present, known, memberPass>>

(* The built-in group is there; to migrate it is to apply its members. *)
AddBuiltinMembers(k) ==
    LET action == SyncOutcome(Admins, IF Decide(k) = "update" THEN "updated" ELSE "created")
    IN  /\ SyncMembers(Admins)
        /\ Conclude(k, action, Admins)
        /\ AfterBase(k, action, Admins)
        /\ UNCHANGED <<present, known, memberPass>>

Attempt(k) ==
    IF k[1] = "membership" THEN AddBuiltinMembers(k)
    ELSE IF Decide(k) = "adopt" THEN Adopt(k)
    ELSE IF Decide(k) = "update" THEN UpdateInPlace(k)
    ELSE IF k[1] \in {"user", "sp"} THEN CreatePrincipal(k) ELSE AssignAccountGroup(k)

(* Defect: the members a new group may have are those made before it. *)
CreateGroupWithMembers(k) ==
    LET g == k[2]
    IN  /\ present' = present \cup {g} /\ known' = known \cup {g} /\ local' = local \cup {g}
        /\ SyncMembers(g)
        /\ Conclude(k, "created", g)
        /\ UNCHANGED <<memberPass, idmap, perm, warned>> /\ CallWorks

(* Created empty: the members wait until every group is there. *)
CreateGroup(k) ==
    LET g == k[2]
    IN  /\ present' = present \cup {g} /\ known' = known \cup {g} /\ local' = local \cup {g}
        /\ memberPass' = IF Source.members[g] = {} THEN memberPass ELSE memberPass \cup {g}
        /\ Conclude(k, "created", g)
        /\ UNCHANGED <<members, idmap, perm, warned>> /\ CallWorks

IsLocalGroup(k) == k[1] = "group" /\ Class(k[2]) = "workspace_local"

Decided(k) == k \in work /\ ~Shadowed(k) /\ ~NotAttempted(k) /\ ~Resumable(k)

ImportIdentity(k) ==
    /\ InPass1(k)
    /\ \/ k \notin work /\ ~Shadowed(k) /\ NotInRetry(k)
       \/ RefuseShadow(k)
       \/ k \in work /\ ~Shadowed(k) /\ Pass(k)
       \/ k \in work /\ ~Shadowed(k) /\ ~NotAttempted(k) /\ Resumable(k) /\ Resume(k)
       \/ Decided(k) /\ Decide(k) = "skip" /\ Unchanged(k)
       \/ Decided(k) /\ Decide(k) # "skip" /\ Fails(k)
       \/ Decided(k) /\ Decide(k) # "skip" /\ ~(IsLocalGroup(k) /\ Decide(k) = "create")
            /\ Attempt(k)

CreateLocalGroup(k) ==
    /\ stage = "pass1" /\ Turn(k) /\ IsLocalGroup(k)
    /\ Decided(k) /\ Decide(k) = "create"
    /\ CreateGroup(k)
    /\ UNCHANGED <<world, account, object, grants, nextId, saved, savedIdmap, cp, run,
                   listedLocal, listedPerm, work, acted, healed, report, runs, crashes, people>>

(* --- identity, pass 2 and the end of the phase ---------------------------------- *)

EndPass1 ==
    /\ stage = "pass1" /\ todo = {}
    /\ SaveCheckpoint
    /\ stage' = "pass2"
    /\ UNCHANGED <<world, target, tables, bundle, mode, known, listedLocal, listedPerm, work,
                   todo, memberPass, acted, healed, warned, report, budget>>

(* The group's row and its checkpoint entry are written again. *)
Amend(g, action) ==
    LET k == <<"group", g>>
    IN  /\ rows' = [rows EXCEPT ![k] = Recorded(@, action, Fp(k), g)]
        /\ pending' = [pending EXCEPT ![k] =
                         [action |-> action, fp |-> Fp(k), tid |-> g, typed |-> FALSE]]

ApplyMembers(g) ==
    /\ stage = "pass2" /\ g \in memberPass
    /\ memberPass' = memberPass \ {g}
    /\ \/ SyncMembers(g) /\ Amend(g, SyncOutcome(g, "created")) /\ CallWorks
       \/ CallFails /\ Amend(g, "created_with_warning") /\ UNCHANGED members
    /\ UNCHANGED <<world, present, local, account, perm, object, grants, nextId, idmap, saved,
                   savedIdmap, cp, run, known, listedLocal, listedPerm, work, todo, acted,
                   healed, warned, report, runs, crashes, people>>

(* The importer writes its checkpoint, then the runner the tables; the next phase
   takes its work list from the rows.                                          *)
EnterPhase(next, keys, wanted) ==
    /\ SaveCheckpoint /\ SaveState
    /\ stage' = next
    /\ work' = wanted /\ todo' = keys
    /\ UNCHANGED <<world, target, rows, idmap, bundle, mode, known, listedLocal, listedPerm,
                   memberPass, acted, healed, warned, runs, faults, crashes, people>>

EndIdentity ==
    /\ stage = "pass2" /\ memberPass = {}
    /\ EnterPhase("objects", ObjectKeys, WorkList(ObjectKeys, rows))
    /\ UNCHANGED report

(* --- the objects' own families ----------------------------------------------------- *)

InPhase(phase, k) ==
    /\ stage = phase /\ k \in todo
    /\ UNCHANGED <<world, present, local, account, members, perm, idmap, saved, savedIdmap, cp,
                   run, known, listedLocal, listedPerm, work, memberPass, warned, report, runs,
                   crashes, people>>

SetAside(k) ==
    /\ k \notin work /\ todo' = todo \ {k}
    /\ UNCHANGED <<rows, pending>>

Restore(k) ==
    /\ k \in work /\ Resumable(k)
    /\ rows' = [rows EXCEPT ![k] =
                  Recorded(@, cp[k].action, IF cp[k].action = "failed" THEN None ELSE Fp(k),
                           cp[k].tid)]
    /\ todo' = todo \ {k} /\ UNCHANGED pending

Acted == {"created", "created_with_warning", "updated", "adopted"}

Acts(o) == acted' = acted \cup {o} /\ healed' = healed \cup {o}

ImportObject(o) ==
    LET k == <<"object", o>>
    IN  /\ InPhase("objects", k)
        /\ \/ SetAside(k) /\ CallWorks /\ UNCHANGED <<object, grants, nextId, acted, healed>>
           \/ /\ Restore(k) /\ CallWorks /\ UNCHANGED <<object, grants, nextId, healed>>
              /\ acted' = IF cp[k].action \in Acted THEN acted \cup {o} ELSE acted
           \/ /\ k \in work /\ ~Resumable(k) /\ Exists(k) /\ CallWorks
              /\ Conclude(k, IF Decide(k) = "skip" THEN "skipped"
                             ELSE IF Decide(k) = "update" THEN "updated" ELSE "adopted", object[o])
              /\ IF Decide(k) = "skip" THEN UNCHANGED <<acted, healed>> ELSE Acts(o)
              /\ UNCHANGED <<object, grants, nextId>>
           \/ /\ k \in work /\ ~Resumable(k) /\ ~Exists(k) /\ CallWorks /\ nextId \in Ids
              /\ object' = [object EXCEPT ![o] = nextId] /\ nextId' = nextId + 1
              /\ Conclude(k, "created", nextId)
              /\ Acts(o) /\ UNCHANGED grants
           \/ /\ k \in work /\ ~Resumable(k) /\ CallFails
              /\ Conclude(k, "failed", object[o])
              /\ UNCHANGED <<object, grants, nextId, acted, healed>>

(* Defect: a retry of the ACLs takes the failed ones only. *)
FollowingNone == {}

(* The ACLs of the objects this run healed join a retry. *)
Following == {<<"acl", o>> : o \in acted}

EndObjects ==
    /\ stage = "objects" /\ todo = {}
    /\ EnterPhase("acls", AclKeys, WorkList(AclKeys, rows) \cup Following)
    /\ UNCHANGED report

(* --- ACLs ----------------------------------------------------------------------------- *)

(* A service principal is written under its mapped name, and left out if it has none. *)
Resolvable(p) == p \in SPs => p \in idmap
Body(o) == {p \in Source.grants[o] : Resolvable(p)}

(* The object as this import's rows know it; a call on a deleted one is refused. *)
TargetObject(o) == rows[<<"object", o>>].tid
Live(id) == \E o \in Objects : object[o] = id

PutFails(o) == ~Live(TargetObject(o)) \/ ~(Body(o) \subseteq present)

(* One declarative PUT; nothing is sent when no grant is left to send. *)
Put(k, clean) ==
    LET o == k[2]
    IN  IF Body(o) = {} THEN Conclude(k, clean, TargetObject(o)) /\ UNCHANGED <<grants, faults>>
        ELSE \/ /\ ~PutFails(o) /\ CallWorks
                /\ grants' = [grants EXCEPT ![TargetObject(o)] = Body(o)]
                /\ Conclude(k, clean, TargetObject(o))
             \/ /\ \/ PutFails(o) /\ CallWorks
                   \/ CallFails
                /\ Conclude(k, "failed", ExistingId(k)) /\ UNCHANGED grants

(* An update treats a missing object as a failure. *)
ApplyAcl(k) ==
    LET missing == IF Decide(k) = "update" THEN "failed" ELSE "skipped_no_object"
    IN  IF TargetObject(k[2]) = None
        THEN Conclude(k, missing, ExistingId(k)) /\ UNCHANGED <<grants, faults>>
        ELSE Put(k, IF Decide(k) = "update" THEN "updated" ELSE "created")

ImportAcl(o) ==
    LET k == <<"acl", o>>
    IN  /\ InPhase("acls", k)
        /\ UNCHANGED <<object, nextId, acted, healed>>
        /\ \/ SetAside(k) /\ UNCHANGED <<grants, faults>>
           \/ Restore(k) /\ UNCHANGED <<grants, faults>>
           \/ /\ k \in work /\ ~Resumable(k) /\ Decide(k) = "skip"
              /\ Conclude(k, "skipped", ExistingId(k)) /\ UNCHANGED <<grants, faults>>
           \/ k \in work /\ ~Resumable(k) /\ Decide(k) # "skip" /\ ApplyAcl(k)

(* Defect: only the objects whose ACL was taken up in this run are verified. *)
ToVerifyApplied(o) == pending[<<"acl", o>>].action \in {"created", "updated"}

(* Every object with a recorded ACL is read again, whether or not this run wrote it. *)
ToVerify(o) == rows[<<"acl", o>>].tid # None

Verdict(o) ==
    LET id == rows[<<"acl", o>>].tid
        missing == Source.grants[o] \ grants[id]
        extra == grants[id] \ Source.grants[o]
    IN  IF ~Live(id) THEN "unverified"
        ELSE IF missing = {} THEN IF extra = {} THEN "match" ELSE "extra_on_target"
        ELSE IF extra = {} THEN "missing_on_target" ELSE "both"

EndAcls ==
    /\ stage = "acls" /\ todo = {}
    /\ EnterPhase("done", {}, {})
    /\ report' = [o \in Objects |-> IF ToVerify(o) THEN Verdict(o) ELSE None]

Leave ==
    /\ stage = "done" /\ stage' = "idle"
    /\ UNCHANGED <<world, target, tables, cp, bundle, mode, memory, budget>>

(* --- batches, crashes, people ------------------------------------------------------------ *)

Working == stage \in {"pass1", "pass2", "objects", "acls"}

(* Bound: when a batch is written tells nothing unless a crash can follow. *)
CrashAhead == Working /\ Trouble /\ crashes < MaxCrashes

CheckpointBatch ==
    /\ CrashAhead /\ pending # NothingPending
    /\ SaveCheckpoint
    /\ UNCHANGED <<world, target, tables, run, known, listedLocal, listedPerm, work, todo,
                   memberPass, acted, healed, warned, report, budget>>

StateBatch ==
    /\ CrashAhead /\ <<rows, idmap>> # <<saved, savedIdmap>>
    /\ SaveState
    /\ UNCHANGED <<world, target, rows, idmap, cp, run, memory, budget>>

Crash ==
    /\ CrashAhead /\ crashes' = crashes + 1
    /\ stage' = "idle"
    /\ rows' = saved /\ idmap' = savedIdmap
    /\ pending' = NothingPending /\ todo' = {} /\ memberPass' = {}
    /\ UNCHANGED <<world, target, saved, savedIdmap, cp, bundle, mode, known, listedLocal,
                   listedPerm, work, acted, healed, warned, report, runs, faults, people>>

PeopleAct == stage # "done" /\ Trouble /\ people < MaxPeople /\ people' = people + 1

(* An account admin provisions a group that was missing. *)
Provision(g) ==
    /\ PeopleAct /\ Class(g) = "account" /\ g \notin account
    /\ account' = account \cup {g}
    /\ UNCHANGED <<world, present, local, members, perm, object, grants, nextId, tables, cp, run,
                   memory, runs, faults, crashes>>

(* The import of another pair assigns a principal of the account to this workspace. *)
AssignElsewhere(p) ==
    /\ PeopleAct /\ stage = "pass1" /\ p \in Racing \ present
    /\ present' = present \cup {p} /\ perm' = [perm EXCEPT ![p] = "USER"]
    /\ UNCHANGED <<world, local, account, members, object, grants, nextId, tables, cp, run,
                   memory, runs, faults, crashes>>

DeleteObject(o) ==
    /\ PeopleAct /\ stage = "idle" /\ o \in Deletable /\ object[o] # None
    /\ object' = [object EXCEPT ![o] = None]
    /\ UNCHANGED <<world, present, local, account, members, perm, grants, nextId, tables, cp,
                   run, memory, runs, faults, crashes>>

Next ==
    \/ StartRun
    \/ \E k \in IdentityKeys : ImportIdentity(k) \/ CreateLocalGroup(k)
    \/ EndPass1 \/ EndIdentity \/ EndObjects \/ EndAcls \/ Leave
    \/ \E g \in Groups : ApplyMembers(g) \/ Provision(g)
    \/ \E o \in Objects : ImportObject(o) \/ ImportAcl(o) \/ DeleteObject(o)
    \/ \E p \in Users \cup SPs : AssignElsewhere(p)
    \/ CheckpointBatch \/ StateBatch \/ Crash

Spec == Init /\ [][Next]_vars

(* --- properties ------------------------------------------------------------------------------ *)

AccessTypeOK ==
    /\ present \subseteq Principals /\ local \subseteq Groups
    /\ known \subseteq present /\ acted \subseteq Objects
    /\ \A g \in DOMAIN members : members[g] \subseteq present
    /\ \A o \in Objects : object[o] \in Ids \cup {None}
    /\ idmap \subseteq SPs /\ savedIdmap \subseteq SPs
    /\ todo \subseteq Keys /\ work \subseteq Keys /\ memberPass \subseteq Groups

(* The import never makes a workspace-local group under the name of an account
   group (or of one nobody could classify), and never takes one it finds there for
   the account group, whatever was listed, resumed or retried.                   *)
ShadowsAreNeitherMadeNorUsed ==
    /\ \A g \in local \ world.local : Class(g) = "workspace_local"
    /\ \A g \in local : Class(g) = "account" => rows[<<"group", g>>].tid = None

(* When the two passes are over, a group that this run made and calls `created` has
   all the members it has on the source, in whatever order the groups came.       *)
MembersDoNotDependOnOrder ==
    stage \in {"objects", "acls", "done"} =>
        \A g \in local \ world.local :
            LET row == rows[<<"group", g>>]
            IN  row.action = "created" /\ row.run = bundle /\ crashes = 0 =>
                    Source.members[g] \subseteq members[g]

PermissionDue(p) ==
    LET k == IF p \in Users THEN <<"user", p>> ELSE IF p \in SPs THEN <<"sp", p>> ELSE <<"group", p>>
    IN  /\ k \in work \cap IdentityKeys /\ ~NotAttempted(k)
        /\ rows[k].action \in Success \ {"created_with_warning"}

(* A principal that the phase concluded without a warning of its own has the
   workspace permission it has on the source, or a run of this bundle has said that
   it could not be given.                                                        *)
AdminsStayAdmins ==
    stage = "pass2" =>
        \A p \in (Users \cup SPs \cup Groups) \ local :
            PermissionDue(p) => perm[p] = Wanted(p) \/ p \in warned

(* "this covers every path that does NOT create" (the hook after the base flow): so a
   principal that was found and updated has its permission as well, though members
   were left out of the update; false, an update with a warning is recorded as
   `created_with_warning`, which the hook takes for a creation (ConvertedOnly).   *)
UpdatedPrincipalsHaveTheirPermission ==
    stage = "pass2" =>
        \A g \in (Groups \ local) \cap present :
            LET k == <<"group", g>>
            IN  /\ k \in work /\ ~NotAttempted(k)
                /\ rows[k].action = "created_with_warning"
                => perm[g] = Wanted(g) \/ g \in warned

Unapplied(o) == rows[<<"acl", o>>].action \in {"failed", "skipped_no_object", None}

(* Parity is evidence: when a run is over, every object either has exactly the
   explicit grants it has on the source, or is not reported as matching; and an
   object that lacks one is reported, or its own ACL unit is outstanding.         *)
MissingAccessIsReported ==
    stage = "done" =>
        \A o \in Objects : object[o] # None =>
            LET missing == Source.grants[o] \ grants[object[o]]
            IN  /\ report[o] = "match" => Source.grants[o] = grants[object[o]]
                /\ missing # {} =>
                     report[o] \in {"missing_on_target", "both", "unverified"} \/ Unapplied(o)

(* An object that a run makes or heals comes back with its grants, in a full run as
   in a retry, whatever its ACL was before: without one, applied, failed, or set
   aside because there was no object.  Excepted: an ACL whose call fails, one that is
   unchanged since it was applied, and one recorded for an object that is gone.   *)
HealedObjectsHaveTheirGrants ==
    stage = "done" =>
        \A o \in healed :
            LET row == rows[<<"acl", o>>]
            IN  \/ row.action \in {"failed", "skipped"}
                \/ row.tid \notin {None, object[o]}
                \/ Body(o) \subseteq grants[object[o]]

(* "a healed object comes back with its grants" (retry_keys_following): also one
   that was deleted after its ACL had been applied; false, its ACL is unchanged
   (SteadyOnly).                                                                 *)
RecreatedObjectsHaveTheirGrants ==
    stage = "done" =>
        \A o \in healed : Body(o) \subseteq grants[object[o]] \/ Unapplied(o)

(* "anything lost with an unflushed batch is replayed" (recovery_replay): a service
   principal whose unit is done is in the identity map when the ACLs need it; false
   after a crash (NestedOnly).                                                    *)
ConcludedPrincipalsAreMapped ==
    stage = "acls" => \A p \in SPs : rows[<<"sp", p>>].action \in Success => p \in idmap
=============================================================================
