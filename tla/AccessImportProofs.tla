------------------------- MODULE AccessImportProofs --------------------------
(* AccessImport's six invariants, for every set of principals and objects, every source
   and target workspace and every number of runs, faults, crashes and people.

   Typed       the shape of the state, and the types.  What a step of one unit leaves
               alone (Quietly, Outside, Apart, Books) is summed up here, once per kind
               of step, for all that follows.
   ShadowInv   no outcome, in memory, stored, pending or in the checkpoint, ties an
               account group to the workspace-local group of its name.
   MemberInv   while nothing has crashed, books that call a group `created` stand for a
               group that has its members or waits for the second pass.
   PermInv     an outcome vouches for the permission of whom it names; the listing that
               spares a PUT is never better than the target.
   OwnInv      no outcome names another object's id.
   RowInv, HealInv   an outcome that a full run could resume for the ACL of a healed
               object is about another object.                                      *)
EXTENDS AccessImport, TLAPS

(* --- keys ------------------------------------------------------------------------ *)

Named == Users \cup SPs \cup Groups
Obj(o) == <<"object", o>>
Acl(o) == <<"acl", o>>

LEMMA IdentityKeyIs ==
    ASSUME NEW k \in IdentityKeys
    PROVE  /\ k = <<k[1], k[2]>> /\ k \in Keys
           /\ \/ k[1] = "user" /\ k[2] \in Users
              \/ k[1] = "sp" /\ k[2] \in SPs
              \/ k[1] = "group" /\ k[2] \in Groups
              \/ k[1] = "membership" /\ k[2] = Admins
  BY DEF IdentityKeys, Keys

LEMMA KeysOfGroups ==
    ASSUME NEW g \in Groups
    PROVE  <<"group", g>> \in IdentityKeys /\ <<"group", g>> \in Keys
  BY DEF IdentityKeys, Keys

LEMMA KeysOfObjects ==
    ASSUME NEW o \in Objects
    PROVE  /\ Obj(o) \in ObjectKeys /\ Obj(o) \in Keys /\ Obj(o) \notin IdentityKeys
           /\ Acl(o) \in AclKeys /\ Acl(o) \in Keys /\ Acl(o) \notin IdentityKeys
           /\ \A p \in Objects : Obj(o) # Acl(p) /\ (Obj(o) = Obj(p) => o = p)
                                 /\ (Acl(o) = Acl(p) => o = p)
           /\ Obj(o)[1] = "object" /\ Obj(o)[2] = o /\ Acl(o)[1] = "acl" /\ Acl(o)[2] = o
           /\ Obj(o) \notin AclKeys /\ Acl(o) \notin ObjectKeys
  BY DEF Obj, Acl, ObjectKeys, AclKeys, IdentityKeys, Keys

(* --- shape and types --------------------------------------------------------------- *)

Stages == {"idle", "pass1", "pass2", "objects", "acls", "done"}

Shape ==
    /\ world \in Worlds /\ stage \in Stages /\ mode \in {"full", "failed_only"}
    /\ bundle \in 1..MaxBundles /\ runs \in Nat /\ crashes \in Nat
    /\ account \subseteq Groups /\ listedLocal \subseteq Groups
    /\ DOMAIN members = Groups \cup {Admins} /\ DOMAIN perm = Principals
    /\ DOMAIN object = Objects /\ DOMAIN grants = Ids
    /\ DOMAIN rows = Keys /\ DOMAIN saved = Keys
    /\ DOMAIN cp = Keys /\ DOMAIN pending = Keys

Typed == Shape /\ AccessTypeOK

LEMMA TypedInit == Init => Typed
<1> SUFFICES ASSUME Init
             PROVE  Typed
  OBVIOUS
<1>1. Shape
  BY BoundsAssumption, WorldsAssumption DEF Init, Shape, Stages
<1>2. AccessTypeOK
  BY WorldsAssumption DEF Init, AccessTypeOK, Principals
<1> QED BY <1>1, <1>2 DEF Typed

(* What any step of the first pass leaves alone, and what it may only add to. *)
Outside ==
    /\ world' = world /\ account' = account /\ object' = object /\ grants' = grants
    /\ nextId' = nextId /\ saved' = saved /\ savedIdmap' = savedIdmap /\ cp' = cp
    /\ stage' = stage /\ bundle' = bundle /\ mode' = mode /\ listedLocal' = listedLocal
    /\ listedPerm' = listedPerm /\ work' = work /\ acted' = acted /\ healed' = healed
    /\ report' = report /\ runs' = runs /\ crashes' = crashes

Grows(k) ==
    /\ stage = "pass1" /\ k \in todo /\ todo' = todo \ {k}
    /\ present \subseteq present' /\ present' \subseteq present \cup {k[2]}
    /\ known \subseteq known' /\ known' \subseteq known \cup {k[2]} /\ known' \subseteq present'
    /\ local \subseteq local' /\ idmap' \subseteq SPs /\ warned \subseteq warned'
    /\ memberPass' \subseteq Groups

Books(k) ==
    /\ DOMAIN rows' = Keys /\ DOMAIN pending' = Keys
    /\ \A j \in Keys \ {k} : rows'[j] = rows[j] /\ pending'[j] = pending[j]

Rights(k) ==
    /\ DOMAIN perm' = Principals
    /\ \A p \in Principals \ {k[2]} : perm'[p] = perm[p]

Gains ==
    /\ DOMAIN members' = Groups \cup {Admins}
    /\ \A g \in Groups \cup {Admins} : members[g] \subseteq members'[g] /\ members'[g] \subseteq present'

LEMMA RecordedIs ==
    ASSUME NEW row, NEW action, NEW fp, NEW tid
    PROVE  /\ Recorded(row, action, fp, tid).action = action
           /\ Recorded(row, action, fp, tid).fp = IF fp = None THEN row.fp ELSE fp
           /\ Recorded(row, action, fp, tid).tid = IF tid = None THEN row.tid ELSE tid
           /\ Recorded(row, action, fp, tid).run = bundle
  BY DEF Recorded

LEMMA ConcludeBooks ==
    ASSUME Typed, NEW k \in Keys, NEW action, NEW tid, Conclude(k, action, tid)
    PROVE  /\ Books(k)
           /\ rows'[k] = Recorded(rows[k], action, IF action = "failed" THEN None ELSE Fp(k), tid)
           /\ pending'[k] = [action |-> action, fp |-> Fp(k), tid |-> tid, typed |-> TRUE]
           /\ todo' = todo \ {k}
           /\ rows'[k].action = action /\ rows'[k].run = bundle
           /\ rows'[k].tid = IF tid = None THEN rows[k].tid ELSE tid
           /\ pending'[k].action = action /\ pending'[k].tid = tid
<1>1. /\ Books(k)
      /\ rows'[k] = Recorded(rows[k], action, IF action = "failed" THEN None ELSE Fp(k), tid)
      /\ pending'[k] = [action |-> action, fp |-> Fp(k), tid |-> tid, typed |-> TRUE]
      /\ todo' = todo \ {k}
  BY DEF Conclude, Books, Typed, Shape
<1> QED BY <1>1, RecordedIs

LEMMA AfterBaseRights ==
    ASSUME Typed, NEW k \in IdentityKeys, NEW action, NEW tid, AfterBase(k, action, tid)
    PROVE  Rights(k) /\ idmap' \subseteq SPs /\ warned \subseteq warned'
<1>1. idmap \subseteq SPs /\ (k[1] = "sp" => k[2] \in SPs)
  BY IdentityKeyIs DEF Typed, AccessTypeOK
<1>2. idmap' \subseteq SPs
  BY <1>1 DEF AfterBase, MapRow
<1> QED BY <1>2 DEF AfterBase, EnsureAssignment, Rights, Typed, Shape

LEMMA SyncGains ==
    ASSUME Typed, NEW g \in Groups \cup {Admins}, SyncMembers(g), present \subseteq present'
    PROVE  Gains
  BY DEF SyncMembers, Resolved, Gains, Typed, Shape, AccessTypeOK

Quietly(k) == Grows(k) /\ Books(k) /\ Rights(k) /\ Gains

(* The bookkeeping of an outcome with nothing done on the target. *)
LEMMA ConcludedQuietly ==
    ASSUME Typed, NEW k \in IdentityKeys, stage = "pass1", k \in todo,
           NEW action, NEW tid, Conclude(k, action, tid),
           NotChanging, local' = local, UNCHANGED <<idmap, perm, warned>>
    PROVE  Quietly(k)
<1>1. Books(k) /\ todo' = todo \ {k}
  BY ConcludeBooks, IdentityKeyIs
<1> QED BY <1>1 DEF Quietly, Grows, Rights, Gains, NotChanging, Typed, Shape, AccessTypeOK

LEMMA AttemptQuietly ==
    ASSUME Typed, NEW k \in IdentityKeys, stage = "pass1", k \in todo,
           Decided(k), Decide(k) # "skip", ~(IsLocalGroup(k) /\ Decide(k) = "create"),
           Attempt(k), local' = local
    PROVE  Quietly(k)
<1> USE IdentityKeyIs
<1>0. Typed /\ (Decide(k) # "create" => k[2] \in known)
  BY DEF Decide, Exists
<1>1. CASE AddBuiltinMembers(k) /\ k[1] = "membership"
  <2>0. \E action : Conclude(k, action, Admins) /\ AfterBase(k, action, Admins)
    BY <1>1 DEF AddBuiltinMembers
  <2>1. Books(k) /\ todo' = todo \ {k}
    BY <2>0, ConcludeBooks
  <2>2. Rights(k) /\ idmap' \subseteq SPs /\ warned \subseteq warned'
    BY <2>0, AfterBaseRights
  <2>3. Gains
    BY <1>1, SyncGains DEF AddBuiltinMembers
  <2> QED BY <1>1, <2>1, <2>2, <2>3 DEF AddBuiltinMembers, Quietly, Grows, Typed, AccessTypeOK
<1>2. CASE Adopt(k)
  <2>1. Books(k) /\ todo' = todo \ {k}
    BY <1>2, ConcludeBooks DEF Adopt
  <2>2. Rights(k) /\ idmap' \subseteq SPs /\ warned \subseteq warned'
    BY <1>2, AfterBaseRights DEF Adopt
  <2>3. Gains
    BY <1>2 DEF Adopt, NotChanging, Gains, Typed, Shape, AccessTypeOK
  <2> QED BY <1>2, <2>1, <2>2, <2>3 DEF Adopt, NotChanging, Quietly, Grows, Typed, AccessTypeOK
<1>3. CASE UpdateInPlace(k)
  <2>0. \E action : Conclude(k, action, k[2]) /\ AfterBase(k, action, k[2])
    BY <1>3 DEF UpdateInPlace
  <2>1. Books(k) /\ todo' = todo \ {k}
    BY <2>0, ConcludeBooks
  <2>2. Rights(k) /\ idmap' \subseteq SPs /\ warned \subseteq warned'
    BY <2>0, AfterBaseRights
  <2>3. Gains
    <3>1. CASE k[1] = "group" /\ Class(k[2]) = "workspace_local"
      BY <1>3, <3>1, SyncGains DEF UpdateInPlace
    <3>2. CASE ~(k[1] = "group" /\ Class(k[2]) = "workspace_local")
      BY <1>3, <3>2 DEF UpdateInPlace, Gains, Typed, Shape, AccessTypeOK
    <3> QED BY <3>1, <3>2
  <2> QED BY <1>3, <2>1, <2>2, <2>3 DEF UpdateInPlace, Quietly, Grows, Typed, AccessTypeOK
<1>4. CASE CreatePrincipal(k) /\ k[1] \in {"user", "sp"}
  <2>1. Books(k) /\ todo' = todo \ {k}
    BY <1>4, ConcludeBooks DEF CreatePrincipal
  <2>2. Rights(k) /\ warned \subseteq warned'
    BY <1>4 DEF CreatePrincipal, EnsureAssignment, Rights, Typed, Shape
  <2>3. idmap' \subseteq SPs
    BY <1>4 DEF CreatePrincipal, MapRow, Typed, AccessTypeOK
  <2>4. Gains
    BY <1>4 DEF CreatePrincipal, Gains, Typed, Shape, AccessTypeOK
  <2> QED BY <1>4, <2>1, <2>2, <2>3, <2>4 DEF CreatePrincipal, Quietly, Grows, Typed, AccessTypeOK
<1>5. CASE AssignAccountGroup(k) /\ k[1] = "group"
  <2>0. \E action, tid : Conclude(k, action, tid)
    BY <1>5 DEF AssignAccountGroup
  <2>1. Books(k) /\ todo' = todo \ {k}
    BY <2>0, ConcludeBooks
  <2>2. Rights(k)
    BY <1>5 DEF AssignAccountGroup, Rights, Typed, Shape
  <2>3. Gains
    BY <1>5 DEF AssignAccountGroup, Gains, Typed, Shape, AccessTypeOK
  <2>4. present \subseteq present' /\ present' \subseteq present \cup {k[2]}
        /\ known \subseteq known' /\ known' \subseteq known \cup {k[2]} /\ known' \subseteq present'
    BY <1>5 DEF AssignAccountGroup, Typed, AccessTypeOK
  <2> QED BY <1>5, <2>1, <2>2, <2>3, <2>4 DEF AssignAccountGroup, Quietly, Grows, Typed, AccessTypeOK
<1> QED BY <1>1, <1>2, <1>3, <1>4, <1>5 DEF Attempt

LEMMA IdentityQuietly ==
    ASSUME Typed, NEW k \in IdentityKeys, ImportIdentity(k)
    PROVE  Quietly(k) /\ Outside /\ local' = local
<1> USE IdentityKeyIs
<1>0. /\ Outside /\ local' = local /\ stage = "pass1" /\ k \in todo
  BY DEF ImportIdentity, InPass1, Turn, Outside, run
<1>1. CASE NotInRetry(k)
  BY <1>0, <1>1 DEF NotInRetry, NotChanging, Quietly, Grows, Books, Rights, Gains, Typed, Shape,
     AccessTypeOK
<1>2. CASE RefuseShadow(k)
  BY <1>0, <1>2, ConcludedQuietly DEF RefuseShadow
<1>3. CASE Pass(k)
  <2>1. \E action : Conclude(k, action, None)
    BY <1>3 DEF Pass
  <2> QED BY <1>0, <1>3, <2>1, ConcludedQuietly DEF Pass
<1>4. CASE Resume(k)
  <2>1. Books(k) /\ todo' = todo \ {k}
    BY <1>4 DEF Resume, Books, Typed, Shape
  <2>2. Rights(k) /\ idmap' \subseteq SPs /\ warned \subseteq warned'
    BY <1>4, AfterBaseRights DEF Resume
  <2>3. Gains
    BY <1>4 DEF Resume, NotChanging, Gains, Typed, Shape, AccessTypeOK
  <2> QED BY <1>0, <1>4, <2>1, <2>2, <2>3 DEF Resume, NotChanging, Quietly, Grows, Typed, AccessTypeOK
<1>5. CASE Unchanged(k)
  <2>1. Books(k) /\ todo' = todo \ {k}
    BY <1>5, ConcludeBooks DEF Unchanged
  <2>2. Rights(k) /\ idmap' \subseteq SPs /\ warned \subseteq warned'
    BY <1>5, AfterBaseRights DEF Unchanged
  <2>3. Gains
    BY <1>5 DEF Unchanged, NotChanging, Gains, Typed, Shape, AccessTypeOK
  <2> QED BY <1>0, <1>5, <2>1, <2>2, <2>3 DEF Unchanged, NotChanging, Quietly, Grows, Typed, AccessTypeOK
<1>6. CASE Fails(k)
  BY <1>0, <1>6, ConcludedQuietly DEF Fails
<1>7. CASE /\ Decided(k) /\ Decide(k) # "skip" /\ ~(IsLocalGroup(k) /\ Decide(k) = "create")
           /\ Attempt(k)
  BY <1>0, <1>7, AttemptQuietly
<1> QED BY <1>0, <1>1, <1>2, <1>3, <1>4, <1>5, <1>6, <1>7 DEF ImportIdentity

LEMMA GroupQuietly ==
    ASSUME Typed, NEW k \in IdentityKeys, CreateLocalGroup(k)
    PROVE  /\ Quietly(k) /\ Outside /\ k[1] = "group" /\ k[2] \in Groups
           /\ local' = local \cup {k[2]} /\ Class(k[2]) = "workspace_local"
<1>0. /\ Outside /\ stage = "pass1" /\ k \in todo /\ k[1] = "group" /\ k[2] \in Groups
      /\ Class(k[2]) = "workspace_local"
  BY IdentityKeyIs DEF CreateLocalGroup, Turn, Outside, run, IsLocalGroup
<1>1. Books(k) /\ todo' = todo \ {k}
  BY IdentityKeyIs, ConcludeBooks DEF CreateLocalGroup, CreateGroup
<1>2. Rights(k) /\ Gains
  BY DEF CreateLocalGroup, CreateGroup, Rights, Gains, Typed, Shape, AccessTypeOK
<1> QED BY <1>0, <1>1, <1>2 DEF CreateLocalGroup, CreateGroup, Quietly, Grows, Typed, AccessTypeOK

(* A step of one object's or one ACL's unit. *)
Apart(k) ==
    /\ world' = world /\ present' = present /\ local' = local /\ account' = account
    /\ members' = members /\ perm' = perm /\ idmap' = idmap /\ saved' = saved
    /\ savedIdmap' = savedIdmap /\ cp' = cp /\ stage' = stage /\ bundle' = bundle
    /\ mode' = mode /\ known' = known /\ listedLocal' = listedLocal
    /\ listedPerm' = listedPerm /\ work' = work /\ memberPass' = memberPass
    /\ warned' = warned /\ report' = report /\ runs' = runs /\ crashes' = crashes
    /\ k \in todo /\ todo' = todo \ {k}
    /\ Books(k)

LEMMA ObjectApart ==
    ASSUME Typed, NEW o \in Objects, ImportObject(o)
    PROVE  /\ Apart(Obj(o)) /\ stage = "objects"
           /\ object' = object \/ (object' = [object EXCEPT ![o] = nextId] /\ nextId \in Ids)
           /\ grants' = grants /\ acted' \subseteq acted \cup {o}
<1> DEFINE k == Obj(o)
<1>0. k = <<"object", o>> /\ k \in Keys
  BY KeysOfObjects DEF Obj
<1>1. Books(k) /\ todo' = todo \ {k}
  <2>1. CASE SetAside(k)
    BY <2>1 DEF SetAside, Books, Typed, Shape
  <2>2. CASE Restore(k)
    BY <1>0, <2>2 DEF Restore, Books, Typed, Shape
  <2>3. CASE \E action, tid : Conclude(k, action, tid)
    BY <1>0, <2>3, ConcludeBooks
  <2> HIDE DEF k
  <2> QED BY <1>0, <2>1, <2>2, <2>3 DEF ImportObject
<1> HIDE DEF k
<1>2. /\ stage = "objects" /\ InPhase("objects", k)
      /\ object' = object \/ (object' = [object EXCEPT ![o] = nextId] /\ nextId \in Ids)
      /\ grants' = grants /\ acted' \subseteq acted \cup {o}
  BY <1>0 DEF ImportObject, InPhase, Acts
<1> QED BY <1>1, <1>2 DEF InPhase, Apart, run, k

LEMMA AclApart ==
    ASSUME Typed, NEW o \in Objects, ImportAcl(o)
    PROVE  /\ Apart(Acl(o)) /\ stage = "acls" /\ object' = object /\ nextId' = nextId
           /\ acted' = acted /\ healed' = healed /\ DOMAIN grants' = Ids
<1> DEFINE k == Acl(o)
<1>0. k = <<"acl", o>> /\ k \in Keys
  BY KeysOfObjects DEF Acl
<1>a. /\ InPhase("acls", k) /\ UNCHANGED <<object, nextId, acted, healed>>
      /\ \/ SetAside(k) /\ UNCHANGED <<grants, faults>>
         \/ Restore(k) /\ UNCHANGED <<grants, faults>>
         \/ \E tid : Conclude(k, "skipped", tid) /\ UNCHANGED <<grants, faults>>
         \/ ApplyAcl(k)
  BY <1>0 DEF ImportAcl
<1> HIDE DEF k
<1>b. ASSUME ApplyAcl(k)
      PROVE  (\E action, tid : Conclude(k, action, tid)) /\ DOMAIN grants' = Ids
  BY <1>b DEF ApplyAcl, Put, Typed, Shape
<1>1. Books(k) /\ todo' = todo \ {k}
  <2>1. CASE SetAside(k)
    BY <2>1 DEF SetAside, Books, Typed, Shape
  <2>2. CASE Restore(k)
    BY <1>0, <2>2 DEF Restore, Books, Typed, Shape
  <2>3. CASE \E action, tid : Conclude(k, action, tid)
    BY <1>0, <2>3, ConcludeBooks
  <2> QED BY <1>a, <1>b, <2>1, <2>2, <2>3
<1>2. DOMAIN grants' = Ids
  BY <1>a, <1>b DEF Typed, Shape
<1> QED BY <1>a, <1>1, <1>2 DEF InPhase, Apart, run, k

LEMMA MembersApplied ==
    ASSUME Typed, NEW g \in Groups, ApplyMembers(g)
    PROVE  /\ stage = "pass2" /\ g \in memberPass /\ memberPass' = memberPass \ {g}
           /\ Books(<<"group", g>>) /\ Gains
           /\ \E action : Amend(g, action)
<1>1. PICK action : Amend(g, action)
  BY DEF ApplyMembers
<1>2. Books(<<"group", g>>)
  BY <1>1, KeysOfGroups DEF Amend, Books, Typed, Shape
<1>3. Gains
  <2>1. CASE SyncMembers(g)
    BY <2>1, SyncGains DEF ApplyMembers
  <2>2. CASE UNCHANGED members
    BY <2>2 DEF ApplyMembers, Gains, Typed, Shape, AccessTypeOK
  <2> QED BY <2>1, <2>2 DEF ApplyMembers
<1> QED BY <1>1, <1>2, <1>3 DEF ApplyMembers

LEMMA SavedShape ==
    ASSUME Typed
    PROVE  /\ DOMAIN Overlaid(cp, pending) = Keys
           /\ DOMAIN NothingPending = Keys
           /\ \A k \in Keys : NothingPending[k] = NoOutcome
           /\ \A k \in Keys : Overlaid(cp, pending)[k] =
                 IF pending[k] = NoOutcome THEN cp[k] ELSE pending[k]
  BY DEF Overlaid, NothingPending

(* Between runs. *)
LEMMA StartTyped == Typed /\ StartRun => Typed'
<1> SUFFICES ASSUME Typed, StartRun
             PROVE  Typed'
  OBVIOUS
<1>1. bundle' \in 1..MaxBundles
  BY BoundsAssumption DEF StartRun, Typed, Shape
<1>2. DOMAIN rows' = Keys /\ DOMAIN saved' = Keys
  BY DEF StartRun, Typed, Shape
<1>3. DOMAIN cp' = Keys /\ DOMAIN pending' = Keys
  BY SavedShape DEF StartRun, Typed, Shape
<1>4. todo' \subseteq Keys /\ work' \subseteq Keys /\ memberPass' = {} /\ acted' = {}
  BY DEF StartRun, Keys, Retry
<1>5. /\ world' = world /\ stage' = "pass1" /\ mode' \in {"full", "failed_only"}
      /\ runs' = runs + 1 /\ crashes' = crashes /\ known' = present /\ listedLocal' = local
      /\ UNCHANGED <<target, savedIdmap>> /\ idmap' = savedIdmap
  BY DEF StartRun
<1> QED BY <1>1, <1>2, <1>3, <1>4, <1>5 DEF target, Typed, Shape, AccessTypeOK, Stages

LEMMA TypedStep == Typed /\ [Next]_vars => Typed'
<1> SUFFICES ASSUME Typed, [Next]_vars
             PROVE  Typed'
  OBVIOUS
<1>1. CASE StartRun
  BY <1>1, StartTyped
<1>2. ASSUME NEW k \in IdentityKeys, ImportIdentity(k) \/ CreateLocalGroup(k)
      PROVE  Typed'
  <2>1. /\ Quietly(k) /\ Outside /\ local' \subseteq Groups
        /\ k[2] \in Principals
    BY <1>2, IdentityQuietly, GroupQuietly, IdentityKeyIs DEF Principals, Typed, AccessTypeOK
  <2> QED BY <2>1 DEF Quietly, Grows, Books, Rights, Gains, Outside, Typed, Shape, AccessTypeOK
<1>3. CASE EndPass1
  BY <1>3, SavedShape DEF EndPass1, SaveCheckpoint, target, tables, budget, Typed, Shape,
     AccessTypeOK, Stages
<1>4. CASE EndIdentity \/ EndObjects \/ EndAcls
  <2>1. PICK next \in Stages, keys \in SUBSET Keys, wanted \in SUBSET Keys :
            EnterPhase(next, keys, wanted)
    BY <1>4 DEF EndIdentity, EndObjects, EndAcls, Stages, WorkList, Retry, Following, Keys,
       AclKeys, Typed, AccessTypeOK
  <2> QED BY <2>1, SavedShape DEF EnterPhase, SaveCheckpoint, SaveState, target, Typed, Shape,
       AccessTypeOK
<1>5. CASE Leave
  BY <1>5 DEF Leave, target, tables, memory, budget, Typed, Shape, AccessTypeOK, Stages
<1>6. ASSUME NEW g \in Groups, ApplyMembers(g)
      PROVE  Typed'
  <2>1. Books(<<"group", g>>) /\ Gains /\ memberPass' \subseteq Groups
    BY <1>6, MembersApplied DEF Typed, AccessTypeOK
  <2> QED BY <1>6, <2>1 DEF ApplyMembers, run, Books, Gains, Typed, Shape, AccessTypeOK
<1>7. ASSUME NEW g \in Groups, Provision(g)
      PROVE  Typed'
  BY <1>7 DEF Provision, tables, run, memory, Typed, Shape, AccessTypeOK
<1>8. ASSUME NEW o \in Objects, ImportObject(o)
      PROVE  Typed'
  <2>1. /\ Apart(Obj(o))
        /\ object' = object \/ (object' = [object EXCEPT ![o] = nextId] /\ nextId \in Ids)
        /\ grants' = grants /\ acted' \subseteq acted \cup {o}
    BY <1>8, ObjectApart
  <2> QED BY <2>1 DEF Apart, Books, Typed, Shape, AccessTypeOK
<1>9. ASSUME NEW o \in Objects, ImportAcl(o)
      PROVE  Typed'
  <2>1. /\ Apart(Acl(o)) /\ object' = object /\ acted' = acted /\ DOMAIN grants' = Ids
    BY <1>9, AclApart
  <2> QED BY <2>1 DEF Apart, Books, Typed, Shape, AccessTypeOK
<1>10. ASSUME NEW o \in Objects, DeleteObject(o)
      PROVE  Typed'
  BY <1>10 DEF DeleteObject, tables, run, memory, Typed, Shape, AccessTypeOK
<1>11. ASSUME NEW p \in Users \cup SPs, AssignElsewhere(p)
      PROVE  Typed'
  BY <1>11 DEF AssignElsewhere, tables, run, memory, Typed, Shape, AccessTypeOK, Principals
<1>12. CASE CheckpointBatch
  BY <1>12, SavedShape DEF CheckpointBatch, SaveCheckpoint, target, tables, run, budget, Typed,
     Shape, AccessTypeOK
<1>13. CASE StateBatch
  BY <1>13 DEF StateBatch, SaveState, target, run, memory, budget, Typed, Shape, AccessTypeOK
<1>14. CASE Crash
  BY <1>14, SavedShape DEF Crash, target, Typed, Shape, AccessTypeOK, Stages
<1>15. CASE UNCHANGED vars
  BY <1>15 DEF vars, target, tables, run, memory, budget, Typed, Shape, AccessTypeOK
<1> QED BY <1>1, <1>2, <1>3, <1>4, <1>5, <1>6, <1>7, <1>8, <1>9, <1>10, <1>11, <1>12, <1>13,
      <1>14, <1>15 DEF Next

(* Principals, groups' members and the ids of objects stay what they are, whatever is
   resumed, restored or replayed: _process_one, _resume_from_checkpoint.          *)
THEOREM AccessIsTyped == Spec => []AccessTypeOK
<1>1. Typed => AccessTypeOK
  BY DEF Typed
<1> QED BY <1>1, TypedInit, TypedStep, PTL DEF Spec

(* --- shadows ----------------------------------------------------------------------- *)

(* No outcome ties an account group to the workspace-local group of its name. *)
Untaken(out) ==
    \A g \in Groups : g \in world.local /\ Class(g) = "account" => out[<<"group", g>>].tid = None

ShadowInv ==
    /\ world.local \subseteq local
    /\ stage # "idle" => world.local \subseteq listedLocal
    /\ \A g \in local \ world.local : Class(g) = "workspace_local"
    /\ \A g \in memberPass : g \in local /\ Class(g) = "workspace_local"
    /\ Untaken(rows) /\ Untaken(saved) /\ Untaken(cp) /\ Untaken(pending)

LEMMA ShadowInit == Init => ShadowInv
  BY KeysOfGroups DEF Init, ShadowInv, Untaken, NoRow, NoOutcome

LEMMA StartShadow == Typed /\ ShadowInv /\ StartRun => ShadowInv'
<1> SUFFICES ASSUME Typed, ShadowInv, StartRun
             PROVE  ShadowInv'
  OBVIOUS
<1>0. /\ world' = world /\ local' = local /\ listedLocal' = local /\ memberPass' = {}
      /\ saved' = rows' /\ pending' = NothingPending
      /\ cp' = cp \/ cp' = NothingPending
  BY DEF StartRun, target
<1>1. \A g : Class(g)' = Class(g)
  BY <1>0 DEF Class
<1>2. Untaken(NothingPending)
  BY KeysOfGroups, SavedShape DEF Untaken, NoOutcome
<1>3. Untaken(rows')
  <2> SUFFICES ASSUME NEW g \in Groups, g \in world.local, Class(g) = "account"
               PROVE  rows'[<<"group", g>>].tid = None
    BY DEF Untaken
  <2>1. saved[<<"group", g>>].tid = None /\ cp[<<"group", g>>].tid = None
    BY DEF ShadowInv, Untaken
  <2>2. CASE rows' = saved
    BY <2>1, <2>2
  <2>3. CASE rows' = [k \in Keys |-> IF Replayed(k)
                        THEN Recorded(saved[k], cp[k].action, cp[k].fp, cp[k].tid)
                        ELSE saved[k]]
    BY <2>1, <2>3, KeysOfGroups DEF Recorded
  <2> QED BY <2>2, <2>3 DEF StartRun
<1>4. Untaken(cp)
  BY DEF ShadowInv
<1> QED BY <1>0, <1>1, <1>2, <1>3, <1>4 DEF ShadowInv, Untaken

LEMMA IdentityShadow ==
    ASSUME Typed, ShadowInv, NEW k \in IdentityKeys, ImportIdentity(k) \/ CreateLocalGroup(k)
    PROVE  ShadowInv'
<1>0. /\ Quietly(k) /\ Outside
      /\ \/ local' = local /\ ImportIdentity(k)
         \/ local' = local \cup {k[2]} /\ Class(k[2]) = "workspace_local" /\ CreateLocalGroup(k)
            /\ k[1] = "group"
  BY IdentityQuietly, GroupQuietly
<1>1. \A g : Class(g)' = Class(g)
  BY <1>0 DEF Outside, Class
<1>2. ASSUME NEW g \in Groups, g \in world.local, Class(g) = "account"
      PROVE  rows'[<<"group", g>>].tid = None /\ pending'[<<"group", g>>].tid = None
  <2>0. rows[<<"group", g>>].tid = None /\ pending[<<"group", g>>].tid = None
    BY <1>2 DEF ShadowInv, Untaken
  <2>1. CASE k = <<"group", g>>
    <3>1. Shadowed(k)
      BY <1>0, <1>2, <2>1 DEF Shadowed, ShadowInv, Quietly, Grows
    <3>2. RefuseShadow(k)
      BY <1>0, <1>2, <2>1, <3>1 DEF ImportIdentity, Decided
    <3>3. Conclude(k, "failed", None) /\ k \in Keys
      BY <3>2, IdentityKeyIs DEF RefuseShadow
    <3>4. rows'[k].tid = IF None = None THEN rows[k].tid ELSE None
      BY <3>3, ConcludeBooks
    <3>5. pending'[k].tid = None
      BY <3>3, ConcludeBooks
    <3> QED BY <2>0, <2>1, <3>4, <3>5
  <2>2. CASE k # <<"group", g>>
    BY <1>0, <2>0, <2>2, KeysOfGroups DEF Quietly, Books
  <2> QED BY <2>1, <2>2
<1>3. \/ memberPass' = memberPass
      \/ /\ memberPass' = memberPass \cup {k[2]} /\ k[2] \in local'
         /\ Class(k[2]) = "workspace_local"
  <2>1. CASE CreateLocalGroup(k)
    BY <2>1, GroupQuietly DEF CreateLocalGroup, CreateGroup
  <2>2. CASE ImportIdentity(k)
    BY <2>2 DEF ImportIdentity, NotInRetry, RefuseShadow, Pass, Resume, Unchanged, Fails, Attempt,
       NotChanging, AddBuiltinMembers, Adopt, UpdateInPlace, CreatePrincipal, AssignAccountGroup
  <2> QED BY <2>1, <2>2
<1>4. \A g \in memberPass' : g \in local' /\ Class(g) = "workspace_local"
  BY <1>0, <1>3 DEF ShadowInv, Quietly, Grows
<1>5. Untaken(rows') /\ Untaken(pending')
  BY <1>2 DEF Untaken
<1> QED BY <1>0, <1>1, <1>4, <1>5 DEF Outside, ShadowInv, Untaken

LEMMA SavedShadow ==
    ASSUME Typed, ShadowInv
    PROVE  Untaken(Overlaid(cp, pending)) /\ Untaken(NothingPending)
  BY SavedShape, KeysOfGroups DEF ShadowInv, Untaken, NoOutcome

LEMMA ShadowStep == Typed /\ ShadowInv /\ [Next]_vars => ShadowInv'
<1> SUFFICES ASSUME Typed, ShadowInv, [Next]_vars
             PROVE  ShadowInv'
  OBVIOUS
<1> USE SavedShadow
<1>1. CASE StartRun
  BY <1>1, StartShadow
<1>2. ASSUME NEW k \in IdentityKeys, ImportIdentity(k) \/ CreateLocalGroup(k)
      PROVE  ShadowInv'
  BY <1>2, IdentityShadow
<1>3. CASE EndPass1
  BY <1>3 DEF EndPass1, SaveCheckpoint, target, tables, budget, ShadowInv, Untaken, Class
<1>4. CASE EndIdentity \/ EndObjects \/ EndAcls
  <2>1. PICK next, keys, wanted :
            EnterPhase(next, keys, wanted) /\ stage # "idle"
    BY <1>4 DEF EndIdentity, EndObjects, EndAcls
  <2> QED BY <2>1 DEF EnterPhase, SaveCheckpoint, SaveState, target, ShadowInv, Untaken, Class
<1>5. CASE Leave
  BY <1>5 DEF Leave, target, tables, memory, budget, ShadowInv, Untaken, Class
<1>6. ASSUME NEW g \in Groups, ApplyMembers(g)
      PROVE  ShadowInv'
  <2>1. /\ Books(<<"group", g>>) /\ memberPass' = memberPass \ {g} /\ g \in memberPass
        /\ world' = world /\ local' = local /\ listedLocal' = listedLocal /\ stage' = stage
        /\ saved' = saved /\ cp' = cp
    BY <1>6, MembersApplied DEF ApplyMembers, run
  <2>2. Class(g) # "account"
    BY <2>1 DEF ShadowInv
  <2>3. ASSUME NEW h \in Groups, h \in world.local, Class(h) = "account"
        PROVE  rows'[<<"group", h>>].tid = None /\ pending'[<<"group", h>>].tid = None
    <3>1. <<"group", h>> # <<"group", g>>
      BY <2>2, <2>3
    <3>2. rows[<<"group", h>>].tid = None /\ pending[<<"group", h>>].tid = None
      BY <2>3 DEF ShadowInv, Untaken
    <3> QED BY <2>1, <3>1, <3>2, KeysOfGroups DEF Books
  <2>4. Untaken(rows') /\ Untaken(pending')
    BY <2>3 DEF Untaken
  <2> QED BY <2>1, <2>4 DEF ShadowInv, Untaken, Class
<1>7. ASSUME NEW g \in Groups, Provision(g)
      PROVE  ShadowInv'
  BY <1>7 DEF Provision, tables, run, memory, ShadowInv, Untaken, Class
<1>8. ASSUME NEW k \in ObjectKeys \cup AclKeys, Apart(k)
      PROVE  ShadowInv'
  <2>1. \A g \in Groups : rows'[<<"group", g>>] = rows[<<"group", g>>]
                          /\ pending'[<<"group", g>>] = pending[<<"group", g>>]
    <3>0. \A g \in Groups : <<"group", g>> \notin ObjectKeys \cup AclKeys
      BY DEF ObjectKeys, AclKeys
    <3>1. \A g \in Groups : <<"group", g>> \in Keys \ {k}
      BY <3>0, KeysOfGroups
    <3> QED BY <1>8, <3>1 DEF Apart, Books
  <2> QED BY <1>8, <2>1 DEF Apart, ShadowInv, Untaken, Class
<1>9. ASSUME NEW o \in Objects, ImportObject(o) \/ ImportAcl(o)
      PROVE  ShadowInv'
  BY <1>8, <1>9, ObjectApart, AclApart, KeysOfObjects
<1>10. ASSUME NEW o \in Objects, DeleteObject(o)
      PROVE  ShadowInv'
  BY <1>10 DEF DeleteObject, tables, run, memory, ShadowInv, Untaken, Class
<1>11. ASSUME NEW p \in Users \cup SPs, AssignElsewhere(p)
      PROVE  ShadowInv'
  BY <1>11 DEF AssignElsewhere, tables, run, memory, ShadowInv, Untaken, Class
<1>12. CASE CheckpointBatch
  BY <1>12 DEF CheckpointBatch, SaveCheckpoint, target, tables, run, budget, ShadowInv, Untaken,
     Class
<1>13. CASE StateBatch
  BY <1>13 DEF StateBatch, SaveState, target, run, memory, budget, ShadowInv, Untaken, Class
<1>14. CASE Crash
  BY <1>14 DEF Crash, target, ShadowInv, Untaken, Class
<1>15. CASE UNCHANGED vars
  BY <1>15 DEF vars, target, tables, run, memory, budget, ShadowInv, Untaken, Class
<1> QED BY <1>1, <1>2, <1>3, <1>4, <1>5, <1>6, <1>7, <1>9, <1>10, <1>11, <1>12, <1>13,
      <1>14, <1>15 DEF Next

(* The group that an account group's assignment is blocked by is never taken for it,
   and the import makes no other such group: _process_one, _create_group.         *)
THEOREM NoShadows == Spec => []ShadowsAreNeitherMadeNorUsed
<1>1. Typed /\ ShadowInv => ShadowsAreNeitherMadeNorUsed
  BY DEF Typed, AccessTypeOK, ShadowInv, Untaken, ShadowsAreNeitherMadeNorUsed
<1> QED BY <1>1, TypedInit, TypedStep, ShadowInit, ShadowStep, PTL DEF Spec

(* --- members ------------------------------------------------------------------------- *)

Complete(g) ==
    \/ Source.members[g] \subseteq members[g]
    \/ stage \in {"pass1", "pass2"} /\ g \in memberPass

(* What a checkpoint written now would say. *)
Latest(k) == Overlaid(cp, pending)[k]

(* This bundle's books say that the group was created with nothing amiss. *)
Attested(g) ==
    LET k == <<"group", g>>
    IN  \/ rows[k].action = "created" /\ rows[k].run = bundle
        \/ Latest(k).action = "created"

(* Without a crash the tables and the checkpoint agree at the start of every run, so
   that nothing is replayed and a group's `created` is resumed for what it was.    *)
Uncrashed ==
    /\ stage \notin {"pass1", "pass2"} => memberPass = {}
    /\ stage \in {"idle", "done"} => saved = rows /\ \A k \in Keys : pending[k] = NoOutcome
    /\ stage = "pass1" => \A k \in todo \cap IdentityKeys : pending[k] = NoOutcome
    /\ \A k \in Keys : rows[k].run \in 0..bundle /\ saved[k].run \in 0..bundle
    /\ \A k \in Keys : cp[k] # NoOutcome \/ pending[k] # NoOutcome => rows[k].run = bundle
    /\ \A g \in local \ world.local : Attested(g) => Complete(g)

MemberInv == crashes = 0 => Uncrashed

Marked(k) ==
    \/ rows'[k] = rows[k] /\ pending'[k] = pending[k]
    \/ rows'[k].run = bundle

LEMMA LatestIs ==
    ASSUME Typed, NEW k \in Keys
    PROVE  /\ Latest(k) = IF pending[k] = NoOutcome THEN cp[k] ELSE pending[k]
           /\ Latest(k)' = IF pending'[k] = NoOutcome THEN cp'[k] ELSE pending'[k]
  BY DEF Latest, Overlaid

LEMMA AttemptConcludes ==
    ASSUME NEW k, Attempt(k)
    PROVE  \E action, tid : Conclude(k, action, tid)
<1>1. CASE AddBuiltinMembers(k)
  BY <1>1 DEF AddBuiltinMembers
<1>2. CASE Adopt(k)
  BY <1>2 DEF Adopt
<1>3. CASE UpdateInPlace(k)
  BY <1>3 DEF UpdateInPlace
<1>4. CASE CreatePrincipal(k)
  BY <1>4 DEF CreatePrincipal
<1>5. CASE AssignAccountGroup(k)
  BY <1>5 DEF AssignAccountGroup
<1> QED BY <1>1, <1>2, <1>3, <1>4, <1>5 DEF Attempt

LEMMA IdentityMarked ==
    ASSUME Typed, NEW k \in IdentityKeys, ImportIdentity(k) \/ CreateLocalGroup(k)
    PROVE  Marked(k)
<1> USE IdentityKeyIs DEF Marked
<1>1. CASE NotInRetry(k)
  BY <1>1 DEF NotInRetry
<1>2. CASE \E action, tid : Conclude(k, action, tid)
  BY <1>2, ConcludeBooks
<1>3. CASE Resume(k)
  BY <1>3, RecordedIs DEF Resume, Typed, Shape
<1>4. CASE CreateLocalGroup(k)
  BY <1>2, <1>4 DEF CreateLocalGroup, CreateGroup
<1>5. CASE ImportIdentity(k)
  BY <1>1, <1>2, <1>3, <1>5, AttemptConcludes
  DEF ImportIdentity, RefuseShadow, Pass, Unchanged, Fails
<1> QED BY <1>4, <1>5

LEMMA UnitMarked ==
    ASSUME Typed, NEW k \in Keys,
           SetAside(k) \/ Restore(k) \/ ApplyAcl(k) \/ \E action, tid : Conclude(k, action, tid)
    PROVE  Marked(k)
<1>1. CASE SetAside(k)
  BY <1>1 DEF SetAside, Marked
<1>2. CASE Restore(k)
  BY <1>2, RecordedIs DEF Restore, Marked, Typed, Shape
<1>3. CASE \E action, tid : Conclude(k, action, tid)
  BY <1>3, ConcludeBooks DEF Marked
<1>4. CASE ApplyAcl(k)
  BY <1>3, <1>4 DEF ApplyAcl, Put
<1> QED BY <1>1, <1>2, <1>3, <1>4

LEMMA ObjectMarked ==
    ASSUME Typed, NEW o \in Objects, ImportObject(o)
    PROVE  Marked(Obj(o))
<1>1. PICK k \in Keys : k = Obj(o) /\ k = <<"object", o>>
  BY KeysOfObjects DEF Obj
<1>2. SetAside(k) \/ Restore(k) \/ \E action, tid : Conclude(k, action, tid)
  BY <1>1 DEF ImportObject
<1> QED BY <1>1, <1>2, UnitMarked

LEMMA AclMarked ==
    ASSUME Typed, NEW o \in Objects, ImportAcl(o)
    PROVE  Marked(Acl(o))
<1>1. PICK k \in Keys : k = Acl(o) /\ k = <<"acl", o>>
  BY KeysOfObjects DEF Acl
<1>2. SetAside(k) \/ Restore(k) \/ ApplyAcl(k) \/ \E action, tid : Conclude(k, action, tid)
  BY <1>1 DEF ImportAcl
<1> QED BY <1>1, <1>2, UnitMarked

LEMMA MemberInit == Init => MemberInv
<1> SUFFICES ASSUME Init
             PROVE  Uncrashed
  BY DEF MemberInv
<1>1. /\ bundle = 1 /\ stage = "idle" /\ memberPass = {} /\ saved = rows /\ local = world.local
      /\ \A k \in Keys : /\ rows[k] = NoRow /\ saved[k] = NoRow /\ cp[k] = NoOutcome
                         /\ pending[k] = NoOutcome
  BY DEF Init
<1> QED BY <1>1 DEF Uncrashed, NoRow

(* What the group's books said before a step they still say, and it has lost nobody. *)
LEMMA CompleteKept ==
    ASSUME NEW g \in Groups, Complete(g), Gains, world' = world, bundle' = bundle,
           \/ stage' = stage /\ (g \in memberPass => g \in memberPass')
           \/ stage' \in {"pass1", "pass2"} /\ memberPass' = memberPass
    PROVE  Complete(g)'
<1>1. Source' = Source
  BY DEF Source
<1>2. members[g] \subseteq members'[g]
  BY DEF Gains
<1> QED BY <1>1, <1>2 DEF Complete

LEMMA AttestedKept ==
    ASSUME Typed, NEW g \in Groups, bundle' = bundle, cp' = cp,
           rows'[<<"group", g>>] = rows[<<"group", g>>],
           pending'[<<"group", g>>] = pending[<<"group", g>>],
           Attested(g)'
    PROVE  Attested(g)
  BY LatestIs, KeysOfGroups DEF Attested

LEMMA StartMembers == Typed /\ Uncrashed /\ StartRun => Uncrashed'
<1> SUFFICES ASSUME Typed, Uncrashed, StartRun
             PROVE  Uncrashed'
  OBVIOUS
<1>0. /\ stage = "idle" /\ saved = rows /\ memberPass = {} /\ stage' = "pass1"
      /\ memberPass' = {} /\ world' = world /\ local' = local /\ members' = members
      /\ saved' = rows' /\ pending' = NothingPending
      /\ \A k \in Keys : pending[k] = NoOutcome
  BY DEF StartRun, target, Uncrashed
<1>1. \A k \in Keys : pending'[k] = NoOutcome
  BY <1>0, SavedShape
<1>2. CASE bundle' = bundle /\ cp' = cp
  <2>1. \A k \in Keys : ~Replayed(k)
    BY <1>0, <1>2 DEF Replayed, Uncrashed
  <2>2. \A k \in Keys : rows'[k] = rows[k]
    BY <1>0, <1>2, <2>1 DEF StartRun
  <2>3. ASSUME NEW g \in local \ world.local, Attested(g)'
        PROVE  Source.members[g] \subseteq members[g]
    <3>1. g \in Groups
      BY DEF Typed, AccessTypeOK
    <3>2. Attested(g)
      BY <1>0, <1>1, <1>2, <2>2, <2>3, <3>1, AttestedKept, KeysOfGroups
    <3> QED BY <1>0, <3>2 DEF Uncrashed, Complete
  <2>4. Source' = Source
    BY <1>0, <1>2 DEF Source
  <2>5. \A g \in local' \ world'.local : Attested(g)' => Complete(g)'
    BY <1>0, <2>3, <2>4 DEF Complete
  <2> QED BY <1>0, <1>1, IdentityKeyIs, <1>2, <2>2, <2>5 DEF Uncrashed
<1>3. CASE bundle' = bundle + 1 /\ cp' = NothingPending
  <2>1. \A k \in Keys : cp'[k] = NoOutcome /\ rows'[k] = rows[k]
    BY <1>0, <1>3, SavedShape DEF StartRun, Typed, Shape
  <2>2. \A k \in Keys : rows'[k].run \in 0..bundle /\ saved'[k].run \in 0..bundle
    BY <1>0, <2>1 DEF Uncrashed
  <2>3. bundle \in Nat
    BY BoundsAssumption DEF Typed, Shape
  <2>4. \A k \in Keys : rows'[k].run # bundle' /\ rows'[k].run \in 0..bundle'
    BY <1>3, <2>2, <2>3
  <2>5. \A k \in Keys : Latest(k)' = NoOutcome
    BY <1>1, <2>1, LatestIs
  <2>6. NoOutcome.action # "created"
    BY NoneAssumption DEF NoOutcome, Actions, Success
  <2>7. \A g \in local' \ world'.local : ~Attested(g)'
    BY <1>0, <2>4, <2>5, <2>6, KeysOfGroups DEF Attested, Typed, AccessTypeOK
  <2> QED BY <1>0, <1>1, IdentityKeyIs, <2>1, <2>4, <2>7 DEF Uncrashed
<1> QED BY <1>2, <1>3 DEF StartRun

(* A group that is there already is not called `created` unless it was before. *)
LEMMA IdentityAttests ==
    ASSUME Typed, ShadowInv, Uncrashed, NEW g \in local \ world.local, g \in Groups,
           ImportIdentity(<<"group", g>>), Attested(g)'
    PROVE  Attested(g)
<1> DEFINE k == <<"group", g>>
<1>0. /\ k \in IdentityKeys /\ k \in Keys /\ k[1] = "group" /\ k[2] = g
      /\ Class(g) = "workspace_local" /\ IsLocalGroup(k)
  BY KeysOfGroups DEF ShadowInv, IsLocalGroup
<1>1. /\ Quietly(k) /\ Outside /\ stage = "pass1" /\ k \in todo /\ pending[k] = NoOutcome
  BY <1>0, IdentityQuietly DEF Quietly, Grows, Uncrashed
<1>2. Latest(k) = cp[k] /\ Latest(k)' = IF pending'[k] = NoOutcome THEN cp[k] ELSE pending'[k]
  BY <1>0, <1>1, LatestIs DEF Outside
<1> HIDE DEF k
<1>3. ASSUME NEW action, NEW tid, Conclude(k, action, tid), action # "created"
      PROVE  Attested(g)
  <2>1. rows'[k].action = action /\ pending'[k].action = action
    BY <1>0, <1>3, ConcludeBooks
  <2>2. Latest(k)'.action = "created"
    BY <1>3, <2>1 DEF Attested, k
  <2>3. pending'[k] = NoOutcome
    BY <1>2, <1>3, <2>1, <2>2
  <2> QED BY <1>2, <2>2, <2>3 DEF Attested, k
<1>4. CASE NotInRetry(k)
  BY <1>0, <1>1, <1>2, <1>4 DEF NotInRetry, Attested, Outside, k
<1>5. CASE RefuseShadow(k)
  BY <1>0, <1>5 DEF RefuseShadow, Shadowed
<1>6. CASE Pass(k)
  BY <1>0, <1>6 DEF Pass, NotAttempted
<1>7. CASE Resume(k)
  <2>1. rows'[k].action = cp[k].action /\ pending'[k] = NoOutcome
    BY <1>0, <1>1, <1>7, RecordedIs DEF Resume, Typed, Shape
  <2> QED BY <1>2, <2>1 DEF Attested, k
<1>8. CASE Unchanged(k)
  BY <1>3, <1>8 DEF Unchanged
<1>9. CASE Fails(k)
  BY <1>3, <1>9 DEF Fails
<1>10. CASE Attempt(k) /\ ~(IsLocalGroup(k) /\ Decide(k) = "create") /\ Decide(k) # "skip"
  <2>1. Adopt(k) \/ UpdateInPlace(k)
    BY <1>0, <1>10 DEF Attempt, Decide
  <2>2. CASE Adopt(k)
    BY <1>3, <2>2 DEF Adopt
  <2>3. CASE UpdateInPlace(k)
    BY <1>3, <2>3 DEF UpdateInPlace, SyncOutcome
  <2> QED BY <2>1, <2>2, <2>3
<1>11. ImportIdentity(k)
  BY DEF k
<1> QED BY <1>4, <1>5, <1>6, <1>7, <1>8, <1>9, <1>10, <1>11 DEF ImportIdentity

LEMMA IdentityMembers ==
    ASSUME Typed, ShadowInv, Uncrashed, NEW k \in IdentityKeys,
           ImportIdentity(k) \/ CreateLocalGroup(k)
    PROVE  Uncrashed'
<1>0. /\ Quietly(k) /\ Outside
      /\ \/ local' = local /\ ImportIdentity(k)
         \/ local' = local \cup {k[2]} /\ k[2] \in Groups /\ k[1] = "group" /\ CreateLocalGroup(k)
      /\ k = <<k[1], k[2]>> /\ k \in Keys
  BY IdentityQuietly, GroupQuietly, IdentityKeyIs
<1>1. memberPass \subseteq memberPass'
  <2>1. CASE CreateLocalGroup(k)
    BY <2>1 DEF CreateLocalGroup, CreateGroup
  <2>2. CASE ImportIdentity(k)
    BY <2>2 DEF ImportIdentity, NotInRetry, RefuseShadow, Pass, Resume, Unchanged, Fails, Attempt,
       NotChanging, AddBuiltinMembers, Adopt, UpdateInPlace, CreatePrincipal, AssignAccountGroup
  <2> QED BY <1>0, <2>1, <2>2
<1>2. ASSUME NEW g \in Groups, Complete(g)
      PROVE  Complete(g)'
  BY <1>0, <1>1, <1>2, CompleteKept DEF Quietly, Outside
<1>3. ASSUME NEW g \in local' \ world'.local, Attested(g)'
      PROVE  Complete(g)'
  <2>0. g \in Groups /\ world' = world
    BY <1>0, IdentityKeyIs DEF Outside, Typed, AccessTypeOK
  <2>1. CASE k # <<"group", g>>
    <3>1. Attested(g)
      BY <1>0, <1>3, <2>0, <2>1, AttestedKept, KeysOfGroups DEF Quietly, Books, Outside
    <3>2. g \in local \ world.local
      BY <1>0, <1>3, <2>0, <2>1
    <3> QED BY <1>2, <2>0, <3>1, <3>2 DEF Uncrashed
  <2>2. CASE k = <<"group", g>> /\ ImportIdentity(k) /\ local' = local
    <3>1. Attested(g)
      BY <1>3, <2>0, <2>2, IdentityAttests
    <3> QED BY <1>2, <1>3, <2>0, <2>2, <3>1 DEF Uncrashed
  <2>3. CASE k = <<"group", g>> /\ CreateLocalGroup(k)
    <3>1. Source.members[g] = {} \/ g \in memberPass'
      BY <2>3 DEF CreateLocalGroup, CreateGroup
    <3>2. Source' = Source /\ stage' = "pass1"
      BY <1>0 DEF Source, Outside, Quietly, Grows
    <3> QED BY <3>1, <3>2 DEF Complete
  <2> QED BY <1>0, <2>1, <2>2, <2>3
<1>4. Marked(k)
  BY IdentityMarked
<1>5. bundle \in 0..bundle
  BY BoundsAssumption DEF Typed, Shape
<1>6. \A j \in Keys : \/ rows'[j].run = bundle
                      \/ rows'[j] = rows[j] /\ pending'[j] = pending[j]
  BY <1>0, <1>4 DEF Marked, Quietly, Books
<1>8. \A j \in Keys : rows'[j].run \in 0..bundle
  BY <1>5, <1>6 DEF Uncrashed
<1>7. \A j \in todo' \cap IdentityKeys : pending'[j] = NoOutcome
  BY <1>0, IdentityKeyIs DEF Quietly, Books, Grows, Uncrashed
<1> QED BY <1>0, <1>3, <1>6, <1>7, <1>8 DEF Quietly, Grows, Outside, Uncrashed

(* A step that leaves the groups, their members and the outcomes of every unit alone,
   or writes the outcomes out.                                                   *)
Still ==
    /\ UNCHANGED <<world, local, members, bundle, memberPass, rows>>
    /\ \A k \in Keys : Latest(k)' = Latest(k)

LEMMA AttestationsStand ==
    ASSUME Typed, Uncrashed, Still,
           stage' = stage \/ memberPass = {} \/ stage' \in {"pass1", "pass2"}
    PROVE  \A g \in local' \ world'.local : Attested(g)' => Complete(g)'
<1> SUFFICES ASSUME NEW g \in local \ world.local, Attested(g)'
             PROVE  Complete(g)'
  BY DEF Still
<1>1. g \in Groups
  BY DEF Typed, AccessTypeOK
<1>2. Attested(g)
  BY <1>1, KeysOfGroups DEF Attested, Still
<1>3. Source' = Source
  BY DEF Still, Source
<1> QED BY <1>2, <1>3 DEF Uncrashed, Complete, Still

LEMMA WrittenOut ==
    ASSUME Typed, SaveCheckpoint
    PROVE  /\ \A k \in Keys : Latest(k)' = Latest(k) /\ pending'[k] = NoOutcome
           /\ \A k \in Keys : cp'[k] # NoOutcome => cp[k] # NoOutcome \/ pending[k] # NoOutcome
<1>1. \A k \in Keys : pending'[k] = NoOutcome /\ cp'[k] = Overlaid(cp, pending)[k]
  BY SavedShape DEF SaveCheckpoint
<1>2. \A k \in Keys : Latest(k)' = Latest(k)
  BY <1>1, LatestIs DEF Latest
<1> QED BY <1>1, <1>2, SavedShape

LEMMA NothingWritten ==
    ASSUME Typed, cp' = cp, pending' = pending
    PROVE  \A k \in Keys : Latest(k)' = Latest(k)
  BY LatestIs

LEMMA ApplyKeepsMembers ==
    ASSUME Typed, Uncrashed, NEW g \in Groups, ApplyMembers(g)
    PROVE  Uncrashed'
<1> DEFINE k == <<"group", g>>
<1>0. k \in Keys
  BY KeysOfGroups
<1> HIDE DEF k
<1>1. /\ stage = "pass2" /\ g \in memberPass /\ memberPass' = memberPass \ {g}
      /\ Books(k) /\ Gains
      /\ UNCHANGED <<world, local, bundle, stage, saved, cp, todo>>
  BY MembersApplied DEF ApplyMembers, run, k
<1>2. PICK action : /\ Amend(g, action)
                    /\ action = "created" => Source.members[g] \subseteq members'[g]
  <2>1. CASE SyncMembers(g) /\ Amend(g, SyncOutcome(g, "created"))
    <3>1. members'[g] = members[g] \cup Resolved(Source.members[g])
      BY <2>1 DEF SyncMembers, Typed, Shape
    <3>2. SyncOutcome(g, "created") = "created" => Source.members[g] \subseteq members'[g]
      BY <3>1 DEF SyncOutcome, Resolved, Unresolved
    <3> QED BY <2>1, <3>2
  <2>2. CASE Amend(g, "created_with_warning")
    BY <2>2
  <2> QED BY <2>1, <2>2 DEF ApplyMembers
<1>3. /\ rows'[k] = Recorded(rows[k], action, Fp(k), g)
      /\ pending'[k] = [action |-> action, fp |-> Fp(k), tid |-> g, typed |-> FALSE]
  BY <1>0, <1>2 DEF Amend, k, Typed, Shape
<1>4. rows'[k].action = action /\ rows'[k].run = bundle
  BY <1>3, RecordedIs
<1>5. pending'[k] # NoOutcome /\ pending'[k].action = action
  BY <1>3 DEF NoOutcome
<1>6. bundle \in 0..bundle
  BY BoundsAssumption DEF Typed, Shape
<1>7. \A j \in Keys : \/ rows'[j].run = bundle
                      \/ rows'[j] = rows[j] /\ pending'[j] = pending[j]
  BY <1>1, <1>4 DEF Books
<1>8. \A j \in Keys : rows'[j].run \in 0..bundle
  BY <1>6, <1>7 DEF Uncrashed
<1>9. Source' = Source
  BY <1>1 DEF Source
<1>10. ASSUME NEW h \in local' \ world'.local, Attested(h)'
       PROVE  Complete(h)'
  <2>0. h \in Groups /\ h \in local \ world.local
    BY <1>1, <1>10 DEF Typed, AccessTypeOK
  <2>1. CASE h = g
    <3>1. Latest(k)' = pending'[k]
      BY <1>0, <1>5, LatestIs
    <3>2. action = "created"
      BY <1>4, <1>5, <1>10, <2>1, <3>1 DEF Attested, k
    <3> QED BY <1>2, <1>9, <2>1, <3>2 DEF Complete
  <2>2. CASE h # g
    <3>1. Attested(h)
      BY <1>1, <1>10, <2>0, <2>2, AttestedKept, KeysOfGroups DEF Books, k
    <3>2. Complete(h)
      BY <2>0, <3>1 DEF Uncrashed
    <3> QED BY <1>1, <2>0, <2>2, <3>2, CompleteKept
  <2> QED BY <2>1, <2>2
<1> QED BY <1>1, <1>7, <1>8, <1>10 DEF Uncrashed

LEMMA MemberStep == Typed /\ ShadowInv /\ MemberInv /\ [Next]_vars => MemberInv'
<1> SUFFICES ASSUME Typed, ShadowInv, MemberInv, [Next]_vars, crashes' = 0
             PROVE  Uncrashed'
  BY DEF MemberInv
<1>0. CASE crashes # 0
  <2>1. crashes' \in {crashes, crashes + 1} /\ crashes \in Nat
    <3>1. ASSUME NEW k \in IdentityKeys, ImportIdentity(k) \/ CreateLocalGroup(k)
          PROVE  crashes' = crashes
      BY <3>1, IdentityQuietly, GroupQuietly DEF Outside
    <3>2. ASSUME NEW o \in Objects, ImportObject(o) \/ ImportAcl(o)
          PROVE  crashes' = crashes
      BY <3>2, ObjectApart, AclApart DEF Apart
    <3>3. ASSUME EndIdentity \/ EndObjects \/ EndAcls
          PROVE  crashes' = crashes
      BY <3>3 DEF EndIdentity, EndObjects, EndAcls, EnterPhase
    <3> QED BY <3>1, <3>2, <3>3 DEF Next, vars, budget, StartRun, EndPass1, Leave, ApplyMembers,
         Provision, DeleteObject, AssignElsewhere, CheckpointBatch, StateBatch, Crash, Typed, Shape
  <2> QED BY <1>0, <2>1
<1> SUFFICES ASSUME Uncrashed
             PROVE  Uncrashed'
  BY <1>0 DEF MemberInv
<1>1. CASE StartRun
  BY <1>1, StartMembers
<1>2. ASSUME NEW k \in IdentityKeys, ImportIdentity(k) \/ CreateLocalGroup(k)
      PROVE  Uncrashed'
  BY <1>2, IdentityMembers
<1>3. CASE EndPass1
  <2>1. Still
    BY <1>3, WrittenOut DEF EndPass1, Still, target, tables
  <2> QED BY <1>3, <2>1, AttestationsStand, WrittenOut DEF EndPass1, tables, Uncrashed
<1>4. CASE EndIdentity \/ EndObjects \/ EndAcls
  <2>1. PICK next, keys, wanted :
            /\ EnterPhase(next, keys, wanted) /\ memberPass = {}
            /\ next \notin {"idle", "pass1", "pass2"}
    BY <1>4 DEF EndIdentity, EndObjects, EndAcls, Uncrashed
  <2>2. Still /\ stage' = next /\ saved' = rows
    BY <2>1, WrittenOut DEF EnterPhase, SaveState, Still, target
  <2> QED BY <2>1, <2>2, AttestationsStand, WrittenOut DEF EnterPhase, Still, Uncrashed
<1>5. CASE Leave
  <2>1. Still
    BY <1>5, NothingWritten DEF Leave, Still, target, tables, memory
  <2> QED BY <1>5, <2>1, AttestationsStand DEF Leave, tables, memory, Uncrashed
<1>6. ASSUME NEW g \in Groups, ApplyMembers(g)
      PROVE  Uncrashed'
  BY <1>6, ApplyKeepsMembers
<1>7. ASSUME NEW g \in Groups, Provision(g)
      PROVE  Uncrashed'
  <2>1. Still
    BY <1>7, NothingWritten DEF Provision, Still, tables, run, memory
  <2> QED BY <1>7, <2>1, AttestationsStand DEF Provision, tables, run, memory, Uncrashed
<1>8. ASSUME NEW k \in ObjectKeys \cup AclKeys, Apart(k), Marked(k), k \in Keys, memberPass = {},
             stage \in {"objects", "acls"}
      PROVE  Uncrashed'
  <2>1. \A g \in Groups : <<"group", g>> # k
    BY DEF ObjectKeys, AclKeys
  <2>2. \A g \in local \ world.local : Attested(g)' => Attested(g)
    BY <1>8, <2>1, AttestedKept, KeysOfGroups DEF Apart, Books, Typed, AccessTypeOK
  <2>3. Source' = Source
    BY <1>8 DEF Apart, Source
  <2>4. \A g \in local' \ world'.local : Attested(g)' => Complete(g)'
    BY <1>8, <2>2, <2>3 DEF Apart, Complete, Uncrashed
  <2>5. bundle \in 0..bundle
    BY BoundsAssumption DEF Typed, Shape
  <2>6. \A j \in Keys : \/ rows'[j].run = bundle
                        \/ rows'[j] = rows[j] /\ pending'[j] = pending[j]
    BY <1>8 DEF Apart, Books, Marked
  <2>7. \A j \in Keys : rows'[j].run \in 0..bundle
    BY <2>5, <2>6 DEF Uncrashed
  <2>8. \A j \in todo' \cap IdentityKeys : pending'[j] = NoOutcome \/ stage # "pass1"
    <3>1. k \notin IdentityKeys
      BY DEF ObjectKeys, AclKeys, IdentityKeys
    <3> QED BY <1>8, <3>1, IdentityKeyIs DEF Apart, Books, Uncrashed
  <2> QED BY <1>8, <2>4, <2>6, <2>7, <2>8 DEF Apart, Uncrashed
<1>9. ASSUME NEW o \in Objects, ImportObject(o) \/ ImportAcl(o)
      PROVE  Uncrashed'
  <2>1. PICK k \in ObjectKeys \cup AclKeys : /\ k \in Keys /\ Apart(k) /\ Marked(k)
                                          /\ stage \in {"objects", "acls"}
    BY <1>9, ObjectApart, AclApart, ObjectMarked, AclMarked, KeysOfObjects
  <2>2. memberPass = {}
    BY <1>9, ObjectApart, AclApart DEF Uncrashed
  <2> QED BY <1>8, <2>1, <2>2
<1>10. ASSUME NEW o \in Objects, DeleteObject(o)
       PROVE  Uncrashed'
  <2>1. Still
    BY <1>10, NothingWritten DEF DeleteObject, Still, tables, run, memory
  <2> QED BY <1>10, <2>1, AttestationsStand DEF DeleteObject, tables, run, memory, Uncrashed
<1>11. ASSUME NEW p \in Users \cup SPs, AssignElsewhere(p)
       PROVE  Uncrashed'
  <2>1. Still
    BY <1>11, NothingWritten DEF AssignElsewhere, Still, tables, run, memory
  <2> QED BY <1>11, <2>1, AttestationsStand DEF AssignElsewhere, tables, run, memory, Uncrashed
<1>12. CASE CheckpointBatch
  <2>1. Still
    BY <1>12, WrittenOut DEF CheckpointBatch, Still, target, tables, run
  <2> QED BY <1>12, <2>1, AttestationsStand, WrittenOut, IdentityKeyIs
       DEF CheckpointBatch, CrashAhead, Working, tables, run, Uncrashed
<1>13. CASE StateBatch
  <2>1. Still
    BY <1>13, NothingWritten DEF StateBatch, Still, target, run, memory
  <2> QED BY <1>13, <2>1, AttestationsStand
       DEF StateBatch, SaveState, CrashAhead, Working, run, memory, Uncrashed
<1>14. CASE Crash
  BY <1>14 DEF Crash, Typed, Shape
<1>15. CASE UNCHANGED vars
  <2>1. Still
    BY <1>15, NothingWritten DEF vars, Still, target, tables, run, memory
  <2> QED BY <1>15, <2>1, AttestationsStand DEF vars, target, tables, run, memory, Uncrashed
<1> QED BY <1>1, <1>2, <1>3, <1>4, <1>5, <1>6, <1>7, <1>9, <1>10, <1>11, <1>12, <1>13,
      <1>14, <1>15 DEF Next

(* A group that this run made and calls `created` has its source members, those that
   were created after it among them: _apply_members_second_pass.                  *)
THEOREM MembersInAnyOrder == Spec => []MembersDoNotDependOnOrder
<1>1. Typed /\ MemberInv => MembersDoNotDependOnOrder
  BY DEF Typed, AccessTypeOK, MemberInv, Uncrashed, Attested, Complete, MembersDoNotDependOnOrder
<1> QED BY <1>1, TypedInit, TypedStep, ShadowInit, ShadowStep, MemberInit, MemberStep, PTL DEF Spec

(* --- permissions ------------------------------------------------------------------------ *)

KeyOf(p) ==
    IF p \in Users THEN <<"user", p>> ELSE IF p \in SPs THEN <<"sp", p>> ELSE <<"group", p>>

Right(p) == perm[p] = Wanted(p) \/ p \in warned

(* An outcome names only a principal that is there; a success that is not a group set
   aside names one; and `created` was created with its permission, or a warning.     *)
Vouched(out) ==
    \A p \in Named :
        /\ out[KeyOf(p)].tid # None => p \in present
        /\ out[KeyOf(p)].action \in Success /\ ~NotAttempted(KeyOf(p)) => out[KeyOf(p)].tid # None
        /\ out[KeyOf(p)].action = "created" /\ p \notin local => p \in present /\ Right(p)

(* The listing of permissions stays good where it shows what is wanted: nobody takes
   such a permission away.                                                         *)
PermInv ==
    /\ \A p \in Named \ present : perm[p] = "none"
    /\ stage = "pass1" /\ listedPerm # None =>
           \A p \in Named : listedPerm[p] = Wanted(p) => perm[p] = Wanted(p)
    /\ stage = "pass1" => present \cap SPs \subseteq known
    /\ stage = "pass2" => todo = {}
    /\ memberPass \subseteq present
    /\ Vouched(cp) /\ Vouched(pending)
    /\ stage \in {"pass1", "pass2"} =>
           \A p \in Named \ local :
               KeyOf(p) \notin todo /\ PermissionDue(p) => p \in present /\ Right(p)

LEMMA KeyOfIs ==
    ASSUME NEW p \in Named
    PROVE  /\ KeyOf(p) \in IdentityKeys /\ KeyOf(p) \in Keys /\ KeyOf(p)[2] = p
           /\ KeyOf(p)[1] \in {"user", "sp", "group"}
           /\ p \in SPs <=> KeyOf(p)[1] = "sp"
           /\ p \in Groups <=> KeyOf(p)[1] = "group"
           /\ p \in Groups => KeyOf(p) = <<"group", p>>
           /\ \A q \in Named : KeyOf(q) = KeyOf(p) => q = p
           /\ p \in Principals /\ p # None /\ KeyOf(p) # <<"membership", Admins>>
           /\ PermissionDue(p) <=> /\ KeyOf(p) \in work /\ ~NotAttempted(KeyOf(p))
                                   /\ rows[KeyOf(p)].action \in Success \ {"created_with_warning"}
<1>1. \/ p \in Users /\ p \notin SPs /\ p \notin Groups /\ KeyOf(p) = <<"user", p>>
      \/ p \notin Users /\ p \in SPs /\ p \notin Groups /\ KeyOf(p) = <<"sp", p>>
      \/ p \notin Users /\ p \notin SPs /\ p \in Groups /\ KeyOf(p) = <<"group", p>>
  BY PrincipalsAssumption DEF Named, KeyOf
<1>2. KeyOf(p) \in IdentityKeys /\ KeyOf(p) \in Keys /\ KeyOf(p)[2] = p
  BY <1>1 DEF IdentityKeys, Keys
<1>3. \A q \in Named : KeyOf(q)[2] = q
  BY DEF KeyOf
<1>4. p \in Principals /\ p # None
  BY NoneAssumption DEF Principals, Named
<1>5. PermissionDue(p) <=> /\ KeyOf(p) \in work /\ ~NotAttempted(KeyOf(p))
                           /\ rows[KeyOf(p)].action \in Success \ {"created_with_warning"}
  BY <1>2 DEF PermissionDue, KeyOf
<1> QED BY <1>1, <1>2, <1>3, <1>4, <1>5

(* A principal's key is an identity key of its own; the only other is the built-in group's. *)
LEMMA KeysAreNamed ==
    ASSUME NEW k \in IdentityKeys
    PROVE  k = <<"membership", Admins>> \/ \E p \in Named : k = KeyOf(p)
<1>1. CASE k[1] = "membership"
  BY <1>1, IdentityKeyIs
<1>2. CASE k[1] # "membership"
  <2>1. k[2] \in Named /\ k = KeyOf(k[2])
    BY <1>2, IdentityKeyIs, PrincipalsAssumption DEF Named, KeyOf
  <2> QED BY <2>1
<1> QED BY <1>1, <1>2

LEMMA WantedIs ==
    ASSUME Typed, NEW p \in Named
    PROVE  Wanted(p) \in {"USER", "ADMIN"}
  BY WorldsAssumption DEF Typed, Shape, Named, Wanted, Source

LEMMA PermInit == Init => PermInv
<1> SUFFICES ASSUME Init
             PROVE  PermInv
  OBVIOUS
<1>1. /\ stage = "idle" /\ memberPass = {}
      /\ \A k \in Keys : cp[k] = NoOutcome /\ pending[k] = NoOutcome
      /\ \A p \in Principals : p \notin present => perm[p] = "none"
  BY DEF Init
<1>2. None \notin Success
  BY NoneAssumption DEF Actions
<1>3. "created" \in Success
  BY DEF Success
<1>4. Vouched(cp) /\ Vouched(pending)
  BY <1>1, <1>2, <1>3, KeyOfIs DEF Vouched, NoOutcome
<1> QED BY <1>1, <1>4, KeyOfIs DEF PermInv

(* What a step of p's own unit in the first pass leaves behind. *)
Given(p) ==
    LET k == KeyOf(p)
    IN  /\ perm'[p] = perm[p] \/ (perm'[p] = Wanted(p) /\ p \in present')
        /\ pending'[k].tid # None => p \in present'
        /\ pending'[k].action \in Success /\ ~NotAttempted(k) => pending'[k].tid # None
        /\ pending'[k].action = "created" /\ p \notin local' =>
               p \in present' /\ (perm'[p] = Wanted(p) \/ p \in warned')
        /\ /\ k \in work /\ ~NotAttempted(k) /\ p \notin local'
           /\ rows'[k].action \in Success \ {"created_with_warning"}
           => p \in present' /\ (perm'[p] = Wanted(p) \/ p \in warned')

LEMMA Ensured ==
    ASSUME Typed, PermInv, stage = "pass1", NEW p \in Named, EnsureAssignment(p)
    PROVE  /\ perm'[p] = Wanted(p) \/ p \in warned'
           /\ perm'[p] = perm[p] \/ perm'[p] = Wanted(p)
<1>1. p \in Principals
  BY KeyOfIs
<1>2. listedPerm # None /\ listedPerm[p] = Wanted(p) => perm[p] = Wanted(p)
  BY DEF PermInv
<1> QED BY <1>1, <1>2 DEF EnsureAssignment, Typed, Shape

LEMMA AfterBaseGives ==
    ASSUME Typed, PermInv, stage = "pass1", NEW p \in Named, NEW action, NEW tid,
           AfterBase(KeyOf(p), action, tid)
    PROVE  /\ perm'[p] = perm[p] \/ (perm'[p] = Wanted(p) /\ tid # None)
           /\ action \notin {"created", "created_with_warning", "failed"} /\ tid # None =>
                  perm'[p] = Wanted(p) \/ p \in warned'
<1>1. KeyOf(p)[2] = p /\ KeyOf(p)[1] # "membership"
  BY KeyOfIs
<1>2. CASE action \in {"created", "created_with_warning", "failed"} \/ tid = None
  BY <1>2 DEF AfterBase
<1>3. CASE ~(action \in {"created", "created_with_warning", "failed"} \/ tid = None)
  <2>1. EnsureAssignment(p)
    BY <1>1, <1>3 DEF AfterBase
  <2> QED BY <1>3, <2>1, Ensured
<1> QED BY <1>2, <1>3

(* An outcome with an id for a success, and its permission unless it is one the import
   does not vouch for.                                                            *)
LEMMA Giving ==
    ASSUME Typed, NEW p \in Named, NEW action, NEW tid, Conclude(KeyOf(p), action, tid),
           perm'[p] = perm[p] \/ (perm'[p] = Wanted(p) /\ p \in present'),
           tid # None => p \in present',
           action \in Success => tid # None,
           action \in Success \ {"created_with_warning"} =>
               p \in local' \/ perm'[p] = Wanted(p) \/ p \in warned'
    PROVE  Given(p)
<1>0. KeyOf(p) \in Keys
  BY KeyOfIs
<1>1. /\ rows'[KeyOf(p)].action = action /\ pending'[KeyOf(p)].action = action
      /\ pending'[KeyOf(p)].tid = tid
  BY <1>0, ConcludeBooks
<1>2. "created" \in Success \ {"created_with_warning"}
  BY DEF Success
<1> QED BY <1>1, <1>2 DEF Given

LEMMA AttemptGives ==
    ASSUME Typed, PermInv, Racing \subseteq Users, stage = "pass1", NEW p \in Named,
           present \subseteq present', Decided(KeyOf(p)), Decide(KeyOf(p)) # "skip",
           ~(IsLocalGroup(KeyOf(p)) /\ Decide(KeyOf(p)) = "create"), Attempt(KeyOf(p))
    PROVE  Given(p)
<1> DEFINE k == KeyOf(p)
<1>0. /\ k[2] = p /\ k[1] \in {"user", "sp", "group"} /\ p # None
      /\ (p \in SPs <=> k[1] = "sp") /\ (p \in Groups <=> k[1] = "group")
  BY KeyOfIs
<1> HIDE DEF k
<1>1. Decide(k) # "create" => p \in known
  BY <1>0 DEF Decide, Exists
<1>2. known \subseteq present'
  BY DEF Typed, AccessTypeOK
<1>3. CASE Adopt(k) /\ Decide(k) = "adopt"
  <2>1. Conclude(k, "adopted", p) /\ AfterBase(k, "adopted", p)
    BY <1>0, <1>3 DEF Adopt
  <2>2. /\ perm'[p] = perm[p] \/ (perm'[p] = Wanted(p) /\ p # None)
        /\ perm'[p] = Wanted(p) \/ p \in warned'
    BY <1>0, <2>1, AfterBaseGives DEF k
  <2> QED BY <1>0, <1>1, <1>2, <1>3, <2>1, <2>2, Giving DEF k
<1>4. CASE UpdateInPlace(k) /\ Decide(k) = "update"
  <2>1. PICK action \in {"updated", "created_with_warning"} :
            Conclude(k, action, p) /\ AfterBase(k, action, p)
    BY <1>0, <1>4 DEF UpdateInPlace, SyncOutcome
  <2>2. /\ perm'[p] = perm[p] \/ (perm'[p] = Wanted(p) /\ p # None)
        /\ action = "updated" => perm'[p] = Wanted(p) \/ p \in warned'
    BY <1>0, <2>1, AfterBaseGives DEF k
  <2> QED BY <1>0, <1>1, <1>2, <1>4, <2>1, <2>2, Giving DEF k
<1>5. CASE CreatePrincipal(k) /\ k[1] \in {"user", "sp"} /\ Decide(k) = "create"
  <2>1. p \notin known
    BY <1>0, <1>5 DEF Decide, Exists
  <2>2. ~(k[1] = "sp" /\ p \in present)
    BY <1>0, <2>1 DEF PermInv
  <2>3. Conclude(k, "created", p) /\ p \in present' /\ EnsureAssignment(p)
    BY <1>0, <1>5, <2>2 DEF CreatePrincipal
  <2> QED BY <1>0, <2>3, Ensured, Giving DEF k
<1>6. CASE AssignAccountGroup(k)
  <2>1. CASE p \in account
    <3>1. Conclude(k, "created", p) /\ p \in present' /\ perm' = [perm EXCEPT ![p] = Wanted(p)]
      BY <1>0, <1>6, <2>1 DEF AssignAccountGroup
    <3>2. perm'[p] = Wanted(p)
      BY <3>1, KeyOfIs DEF Typed, Shape
    <3> QED BY <1>0, <3>1, <3>2, Giving DEF k
  <2>2. CASE p \notin account
    <3>1. Conclude(k, "failed", None) /\ perm' = perm
      BY <1>0, <1>6, <2>2 DEF AssignAccountGroup
    <3>2. "failed" \notin Success
      BY DEF Success
    <3> QED BY <3>1, <3>2, Giving DEF k
  <2> QED BY <2>1, <2>2
<1>7. Attempt(k) /\ Decide(k) # "skip"
  BY DEF k
<1>8. \/ Adopt(k) /\ Decide(k) = "adopt"
      \/ UpdateInPlace(k) /\ Decide(k) = "update"
      \/ CreatePrincipal(k) /\ k[1] \in {"user", "sp"} /\ Decide(k) = "create"
      \/ AssignAccountGroup(k)
  <2>1. Decide(k) \in {"create", "adopt", "skip", "update"}
    BY DEF Decide
  <2> QED BY <1>0, <1>7, <2>1 DEF Attempt
<1> QED BY <1>3, <1>4, <1>5, <1>6, <1>8

LEMMA IdentityGives ==
    ASSUME Typed, PermInv, Racing \subseteq Users, NEW p \in Named,
           ImportIdentity(KeyOf(p)) \/ CreateLocalGroup(KeyOf(p))
    PROVE  Given(p)
<1> DEFINE k == KeyOf(p)
<1>0. /\ k[2] = p /\ k[1] \in {"user", "sp", "group"} /\ p # None /\ k \in IdentityKeys
      /\ k \in Keys
  BY KeyOfIs
<1>1. Quietly(k) /\ Outside
  BY <1>0, IdentityQuietly, GroupQuietly
<1>2. /\ stage = "pass1" /\ present \subseteq present' /\ local \subseteq local'
      /\ warned \subseteq warned' /\ cp' = cp /\ known \subseteq present
  BY <1>1 DEF Quietly, Grows, Outside, Typed, AccessTypeOK
<1>3. ImportIdentity(k) \/ CreateLocalGroup(k)
  OBVIOUS
<1>a. /\ "failed" \notin Success
      /\ None \notin Success /\ None # "created"
  BY NoneAssumption DEF Success, Actions
<1>b. Exists(k) => p \in present'
  BY <1>0, <1>2 DEF Exists
<1>c. ExistingId(k) # None => Exists(k)
  BY DEF ExistingId
<1>d. Vouched(pending) /\ Vouched(cp)
  BY DEF PermInv
<1>e. /\ pending[k].tid # None => p \in present
      /\ pending[k].action \in Success /\ ~NotAttempted(k) => pending[k].tid # None
      /\ pending[k].action = "created" /\ p \notin local => p \in present /\ Right(p)
  BY <1>d DEF Vouched
<1>f. /\ cp[k].tid # None => p \in present
      /\ cp[k].action \in Success /\ ~NotAttempted(k) => cp[k].tid # None
      /\ cp[k].action = "created" /\ p \notin local => p \in present /\ Right(p)
  BY <1>d DEF Vouched
<1> HIDE DEF k
<1>4. CASE NotInRetry(k)
  <2>1. rows' = rows /\ pending' = pending /\ perm' = perm /\ warned' = warned /\ k \notin work
    BY <1>4 DEF NotInRetry
  <2> QED BY <1>2, <1>e, <2>1 DEF Given, Right, k
<1>5. CASE RefuseShadow(k)
  <2>1. Conclude(k, "failed", None) /\ perm' = perm
    BY <1>5 DEF RefuseShadow
  <2> QED BY <1>a, <2>1, Giving DEF k
<1>6. CASE Pass(k)
  <2>1. PICK action \in {"manual", "skipped"} : Conclude(k, action, None)
    BY <1>6 DEF Pass
  <2>2. /\ rows'[k].action = action /\ pending'[k].action = action
        /\ pending'[k].tid = None /\ NotAttempted(k) /\ perm' = perm
    BY <1>0, <1>6, <2>1, ConcludeBooks DEF Pass
  <2> QED BY <2>1, <2>2 DEF Given, k
<1>7. CASE Resume(k)
  <2>1. rows'[k].action = cp[k].action /\ pending' = pending
    BY <1>0, <1>7, RecordedIs DEF Resume, Typed, Shape
  <2>2. AfterBase(k, cp[k].action, cp[k].tid)
    BY <1>7 DEF Resume
  <2>3. /\ perm'[p] = perm[p] \/ (perm'[p] = Wanted(p) /\ cp[k].tid # None)
        /\ cp[k].action \notin {"created", "created_with_warning", "failed"} /\ cp[k].tid # None =>
               perm'[p] = Wanted(p) \/ p \in warned'
    BY <1>2, <2>2, AfterBaseGives DEF k
  <2>4. Right(p) => perm'[p] = Wanted(p) \/ p \in warned'
    BY <1>2, <2>3 DEF Right
  <2> QED BY <1>2, <1>a, <1>e, <1>f, <2>1, <2>3, <2>4 DEF Given, k
<1>8. CASE Unchanged(k) /\ Decide(k) = "skip"
  <2>1. Exists(k)
    BY <1>8 DEF Decide
  <2>2. ExistingId(k) = p
    BY <1>0, <2>1 DEF ExistingId
  <2>3. Conclude(k, "skipped", p) /\ AfterBase(k, "skipped", p)
    BY <1>8, <2>2 DEF Unchanged
  <2>4. /\ perm'[p] = perm[p] \/ (perm'[p] = Wanted(p) /\ p # None)
        /\ perm'[p] = Wanted(p) \/ p \in warned'
    BY <1>0, <1>2, <2>3, AfterBaseGives DEF k
  <2> QED BY <1>0, <1>b, <2>1, <2>3, <2>4, Giving DEF k
<1>9. CASE Fails(k)
  <2>1. Conclude(k, "failed", ExistingId(k)) /\ perm' = perm
    BY <1>9 DEF Fails
  <2> QED BY <1>a, <1>b, <1>c, <2>1, Giving DEF k
<1>10. CASE /\ Decided(k) /\ Decide(k) # "skip"
            /\ ~(IsLocalGroup(k) /\ Decide(k) = "create") /\ Attempt(k)
  BY <1>2, <1>10, AttemptGives DEF k
<1>11. CASE CreateLocalGroup(k)
  <2>1. Conclude(k, "created", p) /\ p \in present' /\ p \in local' /\ perm' = perm
    BY <1>0, <1>11 DEF CreateLocalGroup, CreateGroup
  <2> QED BY <1>0, <2>1, Giving DEF k
<1> QED BY <1>3, <1>4, <1>5, <1>6, <1>7, <1>8, <1>9, <1>10, <1>11 DEF ImportIdentity

(* A principal keeps what it has right as long as nobody comes to have less. *)
LEMMA VouchedKept ==
    ASSUME PermInv, UNCHANGED <<world, bundle>>, present \subseteq present', local \subseteq local',
           warned \subseteq warned',
           \A p \in Named : p \in present => perm'[p] = perm[p] \/ perm'[p] = Wanted(p)
    PROVE  /\ \A p \in Named : p \in present /\ Right(p) => p \in present' /\ Right(p)'
           /\ \A p \in Named : Wanted(p)' = Wanted(p)
           /\ \A k : NotAttempted(k)' = NotAttempted(k)
<1>1. /\ \A p \in Named : Wanted(p)' = Wanted(p)
      /\ \A k : NotAttempted(k)' = NotAttempted(k)
  BY DEF Wanted, Source, NotAttempted, Class
<1> QED BY <1>1 DEF Right

LEMMA IdentityRights ==
    ASSUME Typed, PermInv, Racing \subseteq Users, NEW k \in IdentityKeys,
           ImportIdentity(k) \/ CreateLocalGroup(k)
    PROVE  PermInv'
<1>0. /\ Quietly(k) /\ Outside /\ local \subseteq local'
      /\ \A p \in Named : p # k[2] => KeyOf(p) # k
  BY IdentityQuietly, GroupQuietly, KeyOfIs
<1>1. /\ stage = "pass1" /\ stage' = stage /\ UNCHANGED <<world, bundle, cp, work, listedPerm>>
      /\ present \subseteq present' /\ present' \subseteq present \cup {k[2]}
      /\ known \subseteq known' /\ warned \subseteq warned'
      /\ todo' = todo \ {k}
  BY <1>0 DEF Quietly, Grows, Outside
<1>2. \A p \in Named : p = k[2] => k = KeyOf(p) /\ Given(p)
  <2> SUFFICES ASSUME NEW p \in Named, p = k[2]
               PROVE  k = KeyOf(p) /\ Given(p)
    OBVIOUS
  <2>1. k = KeyOf(p)
    BY KeysAreNamed, KeyOfIs, PrincipalsAssumption DEF Named
  <2> QED BY <2>1, IdentityGives
<1>3. ASSUME NEW p \in Named, p # k[2]
      PROVE  /\ perm'[p] = perm[p] /\ rows'[KeyOf(p)] = rows[KeyOf(p)]
             /\ pending'[KeyOf(p)] = pending[KeyOf(p)]
             /\ KeyOf(p) \in todo' <=> KeyOf(p) \in todo
             /\ p \in present' <=> p \in present
  BY <1>0, <1>1, <1>3, KeyOfIs DEF Quietly, Books, Rights
<1>4. \A p \in Named : p \in present => perm'[p] = perm[p] \/ perm'[p] = Wanted(p)
  BY <1>2, <1>3 DEF Given
<1>5. /\ \A p \in Named : p \in present /\ Right(p) => p \in present' /\ Right(p)'
      /\ \A p \in Named : Wanted(p)' = Wanted(p)
      /\ \A j : NotAttempted(j)' = NotAttempted(j)
  BY <1>0, <1>1, <1>4, VouchedKept
<1>6. \A p \in Named : Right(p)' <=> perm'[p] = Wanted(p) \/ p \in warned'
  BY <1>5 DEF Right
<1>7. ASSUME NEW p \in Named \ present'
      PROVE  perm'[p] = "none"
  BY <1>1, <1>2, <1>3, <1>7 DEF Given, PermInv
<1>8. ASSUME listedPerm' # None, NEW p \in Named, listedPerm'[p] = Wanted(p)'
      PROVE  perm'[p] = Wanted(p)'
  BY <1>1, <1>2, <1>3, <1>5, <1>8 DEF Given, PermInv
<1>9. present' \cap SPs \subseteq known'
  <2>1. CASE CreateLocalGroup(k)
    BY <1>1, <2>1 DEF CreateLocalGroup, CreateGroup, PermInv
  <2>2. CASE ImportIdentity(k)
    <3>1. present' \ present \subseteq known'
      BY <2>2 DEF ImportIdentity, NotInRetry, RefuseShadow, Pass, Resume, Unchanged, Fails, Attempt,
         NotChanging, AddBuiltinMembers, Adopt, UpdateInPlace, CreatePrincipal, AssignAccountGroup
    <3> QED BY <1>1, <3>1 DEF PermInv
  <2> QED BY <2>1, <2>2
<1>10. memberPass' \subseteq present'
  <2>1. CASE CreateLocalGroup(k)
    BY <1>1, <2>1 DEF CreateLocalGroup, CreateGroup, PermInv
  <2>2. CASE ImportIdentity(k)
    <3>1. memberPass' = memberPass
      BY <2>2 DEF ImportIdentity, NotInRetry, RefuseShadow, Pass, Resume, Unchanged, Fails, Attempt,
         NotChanging, AddBuiltinMembers, Adopt, UpdateInPlace, CreatePrincipal, AssignAccountGroup
    <3> QED BY <1>1, <3>1 DEF PermInv
  <2> QED BY <2>1, <2>2
<1>11. Vouched(cp)'
  <2> SUFFICES ASSUME NEW p \in Named
               PROVE  /\ cp[KeyOf(p)].tid # None => p \in present'
                      /\ cp[KeyOf(p)].action \in Success /\ ~NotAttempted(KeyOf(p)) =>
                             cp[KeyOf(p)].tid # None
                      /\ cp[KeyOf(p)].action = "created" /\ p \notin local' =>
                             p \in present' /\ Right(p)'
    BY <1>1, <1>5 DEF Vouched, KeyOf
  <2> QED BY <1>0, <1>1, <1>5 DEF PermInv, Vouched
<1>12. Vouched(pending)'
  <2> SUFFICES ASSUME NEW p \in Named
               PROVE  /\ pending'[KeyOf(p)].tid # None => p \in present'
                      /\ pending'[KeyOf(p)].action \in Success /\ ~NotAttempted(KeyOf(p)) =>
                             pending'[KeyOf(p)].tid # None
                      /\ pending'[KeyOf(p)].action = "created" /\ p \notin local' =>
                             p \in present' /\ Right(p)'
    BY <1>5 DEF Vouched, KeyOf
  <2>1. CASE p = k[2]
    BY <1>2, <1>6, <2>1 DEF Given
  <2>2. CASE p # k[2]
    BY <1>0, <1>1, <1>3, <1>5, <2>2 DEF PermInv, Vouched
  <2> QED BY <2>1, <2>2
<1>13. ASSUME NEW p \in Named \ local', KeyOf(p) \notin todo', PermissionDue(p)'
       PROVE  p \in present' /\ Right(p)'
  <2>1. /\ KeyOf(p) \in work /\ ~NotAttempted(KeyOf(p))
        /\ rows'[KeyOf(p)].action \in Success \ {"created_with_warning"}
    BY <1>1, <1>5, <1>13, KeyOfIs DEF PermissionDue, KeyOf
  <2>2. CASE p = k[2]
    BY <1>2, <1>6, <1>13, <2>1, <2>2 DEF Given
  <2>3. CASE p # k[2]
    <3>1. PermissionDue(p) /\ KeyOf(p) \notin todo /\ p \in Named \ local
      BY <1>0, <1>3, <1>13, <2>1, <2>3, KeyOfIs
    <3> QED BY <1>1, <1>5, <3>1 DEF PermInv
  <2> QED BY <2>2, <2>3
<1> QED BY <1>1, <1>7, <1>8, <1>9, <1>10, <1>11, <1>12, <1>13 DEF PermInv, KeyOf

LEMMA SavedRights ==
    ASSUME Typed, PermInv
    PROVE  Vouched(Overlaid(cp, pending)) /\ Vouched(NothingPending)
<1>1. Vouched(cp) /\ Vouched(pending)
  BY DEF PermInv
<1>2. NoOutcome.action \notin Success /\ "created" \in Success /\ NoOutcome.tid = None
  BY NoneAssumption DEF NoOutcome, Actions, Success
<1> QED BY <1>1, <1>2, SavedShape, KeyOfIs DEF Vouched

(* Outside the first pass, as far as permissions go. *)
Rightly ==
    /\ UNCHANGED <<world, bundle, present, local, perm>> /\ warned \subseteq warned'
    /\ (cp' = cp \/ cp' = Overlaid(cp, pending) \/ cp' = NothingPending)

LEMMA RightlyVouched ==
    ASSUME Typed, PermInv, Rightly
    PROVE  /\ Vouched(cp)'
           /\ \A p \in Named : Right(p) => Right(p)'
           /\ \A p \in Named : Wanted(p)' = Wanted(p)
           /\ \A k : NotAttempted(k)' = NotAttempted(k)
           /\ pending' = pending \/ pending' = NothingPending => Vouched(pending)'
<1>1. /\ \A p \in Named : Wanted(p)' = Wanted(p)
      /\ \A k : NotAttempted(k)' = NotAttempted(k)
  BY DEF Rightly, Wanted, Source, NotAttempted, Class
<1>2. \A p \in Named : Right(p) => Right(p)'
  BY <1>1 DEF Right, Rightly
<1>3. Vouched(cp) /\ Vouched(pending) /\ Vouched(Overlaid(cp, pending)) /\ Vouched(NothingPending)
  BY SavedRights DEF PermInv
<1>4. Vouched(cp)'
  <2>1. CASE cp' = cp
    BY <1>1, <1>2, <1>3, <2>1 DEF Vouched, Rightly, KeyOf
  <2>2. CASE cp' = Overlaid(cp, pending)
    BY <1>1, <1>2, <1>3, <2>2 DEF Vouched, Rightly, KeyOf
  <2>3. CASE cp' = NothingPending
    BY <1>1, <1>2, <1>3, <2>3 DEF Vouched, Rightly, KeyOf
  <2> QED BY <2>1, <2>2, <2>3 DEF Rightly
<1>5. ASSUME pending' = pending
      PROVE  Vouched(pending)'
  BY <1>1, <1>2, <1>3, <1>5 DEF Vouched, Rightly, KeyOf
<1>6. ASSUME pending' = NothingPending
      PROVE  Vouched(pending)'
  BY <1>1, <1>2, <1>3, <1>6 DEF Vouched, Rightly, KeyOf
<1> QED BY <1>1, <1>2, <1>4, <1>5, <1>6

(* A step that is in the same stage as before, and one out of the two passes. *)
LEMMA RightlyKept ==
    ASSUME Typed, PermInv, Rightly, pending' = pending \/ pending' = NothingPending,
           UNCHANGED <<known, memberPass, listedPerm, work, todo, rows, stage>>
    PROVE  PermInv'
<1>1. \A p \in Named : PermissionDue(p)' <=> PermissionDue(p)
  BY RightlyVouched, KeyOfIs DEF PermissionDue
<1> QED BY <1>1, RightlyVouched DEF PermInv, Rightly, KeyOf

LEMMA RightlyLeft ==
    ASSUME Typed, PermInv, Rightly, pending' = pending \/ pending' = NothingPending,
           memberPass' \subseteq memberPass, stage' \notin {"pass1", "pass2"}
    PROVE  PermInv'
  BY RightlyVouched DEF PermInv, Rightly

LEMMA StartRights == Typed /\ PermInv /\ StartRun => PermInv'
<1> SUFFICES ASSUME Typed, PermInv, StartRun
             PROVE  PermInv'
  OBVIOUS
<1>0. /\ UNCHANGED <<world, present, local, perm>> /\ stage' = "pass1" /\ known' = present
      /\ todo' = IdentityKeys /\ memberPass' = {} /\ pending' = NothingPending
      /\ listedPerm' \in {perm, None}
      /\ \/ bundle' = bundle /\ cp' = cp /\ warned' = warned
         \/ cp' = NothingPending
  BY DEF StartRun, target
<1>1. \A p \in Named : KeyOf(p) \in todo'
  BY <1>0, KeyOfIs
<1>2. NoOutcome.action \notin Success /\ "created" \in Success /\ NoOutcome.tid = None
  BY NoneAssumption DEF NoOutcome, Actions, Success
<1>3. Vouched(NothingPending)'
  <2>1. \A p \in Named : NothingPending[KeyOf(p)] = NoOutcome
    BY SavedShape, KeyOfIs
  <2>2. (NothingPending)' = NothingPending /\ \A p \in Named : KeyOf(p)' = KeyOf(p)
    BY DEF NothingPending, KeyOf
  <2> QED BY <1>2, <2>1, <2>2 DEF Vouched
<1>4. Vouched(pending)'
  BY <1>0, <1>3 DEF Vouched, NothingPending
<1>5. Vouched(cp)'
  <2>1. CASE bundle' = bundle /\ cp' = cp /\ warned' = warned
    <3>1. Rightly
      BY <1>0, <2>1 DEF Rightly
    <3> QED BY <3>1, RightlyVouched
  <2>2. CASE cp' = NothingPending
    BY <1>3, <2>2 DEF Vouched, NothingPending
  <2> QED BY <1>0, <2>1, <2>2
<1>6. \A p \in Named : listedPerm' # None => listedPerm'[p] = perm'[p]
  BY <1>0
<1>7. \A p \in Named \ present' : perm'[p] = "none"
  BY <1>0 DEF PermInv
<1>8. \A p \in Named \ local' :
          (KeyOf(p) \notin todo' /\ PermissionDue(p)') => p \in present' /\ Right(p)'
  BY <1>1
<1> QED BY <1>0, <1>4, <1>5, <1>6, <1>7, <1>8 DEF PermInv, KeyOf

LEMMA PermStep == Racing \subseteq Users /\ Typed /\ ShadowInv /\ PermInv /\ [Next]_vars => PermInv'
<1> SUFFICES ASSUME Racing \subseteq Users, Typed, ShadowInv, PermInv, [Next]_vars
             PROVE  PermInv'
  OBVIOUS
<1>1. CASE StartRun
  BY <1>1, StartRights
<1>2. ASSUME NEW k \in IdentityKeys, ImportIdentity(k) \/ CreateLocalGroup(k)
      PROVE  PermInv'
  BY <1>2, IdentityRights
<1>3. CASE EndPass1
  <2>1. Rightly /\ pending' = NothingPending
    BY <1>3 DEF EndPass1, SaveCheckpoint, Rightly, target
  <2>2. \A p \in Named : PermissionDue(p)' <=> PermissionDue(p)
    BY <1>3, <2>1, RightlyVouched, KeyOfIs DEF EndPass1, tables, PermissionDue
  <2> QED BY <1>3, <2>1, <2>2, RightlyVouched DEF EndPass1, PermInv, Rightly, KeyOf
<1>4. CASE EndIdentity \/ EndObjects \/ EndAcls
  <2>1. PICK next, keys, wanted :
            EnterPhase(next, keys, wanted) /\ next \notin {"pass1", "pass2"}
    BY <1>4 DEF EndIdentity, EndObjects, EndAcls
  <2>2. Rightly /\ pending' = NothingPending
    BY <2>1 DEF EnterPhase, SaveCheckpoint, Rightly, target
  <2> QED BY <2>1, <2>2, RightlyLeft DEF EnterPhase
<1>5. CASE Leave
  BY <1>5, RightlyLeft DEF Leave, target, memory, Rightly
<1>6. ASSUME NEW g \in Groups, ApplyMembers(g)
      PROVE  PermInv'
  <2>1. /\ Rightly /\ stage = "pass2" /\ stage' = stage /\ cp' = cp /\ warned' = warned
        /\ UNCHANGED <<known, listedPerm, work, todo>> /\ memberPass' \subseteq memberPass
        /\ Books(<<"group", g>>) /\ g \in local /\ g \in present
    BY <1>6, MembersApplied DEF ApplyMembers, run, Rightly, ShadowInv, PermInv
  <2>2. ASSUME NEW p \in Named, p # g
        PROVE  rows'[KeyOf(p)] = rows[KeyOf(p)] /\ pending'[KeyOf(p)] = pending[KeyOf(p)]
    <3>1. KeyOf(g) = <<"group", g>> /\ KeyOf(p) # KeyOf(g)
      BY <2>2, KeyOfIs DEF Named
    <3> QED BY <2>1, <3>1, KeyOfIs DEF Books
  <2>3. pending'[<<"group", g>>].tid = g /\ g # None
    <3>1. PICK action : Amend(g, action)
      BY <1>6, MembersApplied
    <3>2. pending'[<<"group", g>>] = [action |-> action, fp |-> Fp(<<"group", g>>),
                                      tid |-> g, typed |-> FALSE]
      BY <3>1, KeysOfGroups DEF Amend, Typed, Shape
    <3>3. g # None
      BY KeyOfIs DEF Named
    <3> QED BY <3>2, <3>3
  <2>4. Vouched(pending)'
    <3> SUFFICES ASSUME NEW p \in Named
                 PROVE  /\ pending'[KeyOf(p)].tid # None => p \in present
                        /\ pending'[KeyOf(p)].action \in Success /\ ~NotAttempted(KeyOf(p)) =>
                               pending'[KeyOf(p)].tid # None
                        /\ pending'[KeyOf(p)].action = "created" /\ p \notin local =>
                               p \in present /\ Right(p)'
      BY <2>1, RightlyVouched DEF Vouched, KeyOf, Rightly
    <3>1. CASE p = g
      BY <2>1, <2>3, <3>1, KeyOfIs DEF Named
    <3>2. CASE p # g
      BY <2>1, <2>2, <3>2, RightlyVouched DEF PermInv, Vouched
    <3> QED BY <3>1, <3>2
  <2>5. \A p \in Named \ local' : PermissionDue(p)' <=> PermissionDue(p)
    BY <2>1, <2>2, RightlyVouched, KeyOfIs DEF Rightly, PermissionDue, KeyOf
  <2> QED BY <2>1, <2>4, <2>5, RightlyVouched DEF PermInv, Rightly, KeyOf
<1>7. ASSUME NEW g \in Groups, Provision(g)
      PROVE  PermInv'
  BY <1>7, RightlyKept DEF Provision, tables, run, memory, Rightly
<1>8. ASSUME NEW k \in ObjectKeys \cup AclKeys, Apart(k), stage \notin {"pass1", "pass2"}
      PROVE  PermInv'
  <2>1. Rightly
    BY <1>8 DEF Apart, Rightly
  <2>2. \A p \in Named : pending'[KeyOf(p)] = pending[KeyOf(p)]
    <3>1. \A p \in Named : KeyOf(p) # k
      BY KeyOfIs DEF ObjectKeys, AclKeys
    <3> QED BY <1>8, <3>1, KeyOfIs DEF Apart, Books
  <2>3. Vouched(pending)'
    BY <2>1, <2>2, RightlyVouched DEF PermInv, Vouched, Rightly, KeyOf
  <2> QED BY <1>8, <2>1, <2>3, RightlyVouched DEF Apart, PermInv, Rightly
<1>9. ASSUME NEW o \in Objects, ImportObject(o) \/ ImportAcl(o)
      PROVE  PermInv'
  BY <1>8, <1>9, ObjectApart, AclApart, KeysOfObjects
<1>10. ASSUME NEW o \in Objects, DeleteObject(o)
       PROVE  PermInv'
  BY <1>10, RightlyKept DEF DeleteObject, tables, run, memory, Rightly
<1>11. ASSUME NEW p \in Users \cup SPs, AssignElsewhere(p)
       PROVE  PermInv'
  <2>0. /\ p \in Users /\ p \in Named /\ p \notin present /\ p \notin SPs
        /\ present' = present \cup {p} /\ perm' = [perm EXCEPT ![p] = "USER"]
        /\ UNCHANGED <<world, local, cp, stage, bundle, rows, known, listedPerm, work, todo,
                       memberPass, pending, warned>>
    BY <1>11, PrincipalsAssumption DEF AssignElsewhere, tables, run, memory, Named
  <2>1. \A q \in Named : q # p => perm'[q] = perm[q]
    BY <2>0 DEF Typed, Shape
  <2>2. /\ \A q \in Named : q \in present /\ Right(q) => q \in present' /\ Right(q)'
        /\ \A q \in Named : Wanted(q)' = Wanted(q)
        /\ \A k : NotAttempted(k)' = NotAttempted(k)
    BY <2>0, <2>1, VouchedKept
  <2>3. perm[p] = "none"
    BY <2>0 DEF PermInv
  <2>4. stage = "pass1" /\ listedPerm # None => listedPerm[p] # Wanted(p)
    BY <2>0, <2>3, WantedIs DEF PermInv
  <2>5. Vouched(cp)' /\ Vouched(pending)'
    BY <2>0, <2>2 DEF PermInv, Vouched, KeyOf
  <2>6. \A q \in Named : PermissionDue(q)' <=> PermissionDue(q)
    BY <2>0, <2>2 DEF PermissionDue
  <2> QED BY <2>0, <2>1, <2>2, <2>4, <2>5, <2>6 DEF PermInv, KeyOf
<1>12. CASE CheckpointBatch
  BY <1>12, RightlyKept DEF CheckpointBatch, SaveCheckpoint, target, tables, run, Rightly
<1>13. CASE StateBatch
  BY <1>13, RightlyKept DEF StateBatch, target, run, memory, Rightly
<1>14. CASE Crash
  BY <1>14, RightlyLeft DEF Crash, target, Rightly
<1>15. CASE UNCHANGED vars
  BY <1>15, RightlyKept DEF vars, target, tables, run, memory, Rightly
<1> QED BY <1>1, <1>2, <1>3, <1>4, <1>5, <1>6, <1>7, <1>9, <1>10, <1>11, <1>12, <1>13,
      <1>14, <1>15 DEF Next

(* Whoever the phase concluded has the permission it has on the source, or a warning
   says so (_ensure_assignment).  Provided that nobody else assigns a service principal
   meanwhile: one that the POST finds assigned already keeps what it was given.      *)
THEOREM PermissionsFollow ==
    ASSUME Racing \subseteq Users
    PROVE  Spec => []AdminsStayAdmins
<1>1. Typed /\ PermInv => AdminsStayAdmins
  BY KeyOfIs DEF PermInv, AdminsStayAdmins, Right, Named
<1> QED BY <1>1, TypedInit, TypedStep, ShadowInit, ShadowStep, PermInit, PermStep, PTL DEF Spec

(* --- parity ----------------------------------------------------------------------------- *)

(* An id that o may go by: one that was given out and that no other object has. *)
Own(o, t, objs, next) ==
    t = None \/ (t \in 1..(next - 1) /\ \A p \in Objects : objs[p] = t => p = o)

(* An ACL's outcome without an object is one that leaves the ACL outstanding. *)
Answered(outcome) ==
    outcome.tid = None => outcome.action \in {"failed", "skipped_no_object", None}

Tied(out, objs, next) ==
    \A o \in Objects :
        /\ Own(o, out[Obj(o)].tid, objs, next) /\ Own(o, out[Acl(o)].tid, objs, next)
        /\ Answered(out[Acl(o)])

(* Outcomes never name another object's id: ids are given out once.  The parity report
   is made of the rows that the run ends with.                                     *)
OwnInv ==
    /\ nextId \in Nat \ {0} /\ \A o \in Objects : Own(o, object[o], object, nextId)
    /\ Tied(rows, object, nextId) /\ Tied(saved, object, nextId)
    /\ Tied(cp, object, nextId) /\ Tied(pending, object, nextId)
    /\ stage = "done" =>
           \A o \in Objects : report[o] = IF ToVerify(o) THEN Verdict(o) ELSE None

(* Objects are made under fresh ids, and deleted. *)
Later(objs, next, objs2, next2) ==
    /\ next \in Nat /\ next2 \in Nat /\ next <= next2
    /\ \A p \in Objects : objs2[p] \in {objs[p], None, next}

LEMMA OwnLater ==
    ASSUME NEW objs, NEW next, NEW objs2, NEW next2, Later(objs, next, objs2, next2),
           NEW o, NEW t, Own(o, t, objs, next)
    PROVE  Own(o, t, objs2, next2)
<1>1. CASE t = None
  BY <1>1 DEF Own
<1>2. CASE t # None
  <2>1. t \in 1..(next - 1) /\ \A p \in Objects : objs[p] = t => p = o
    BY <1>2 DEF Own
  <2>2. t \in 1..(next2 - 1) /\ t # next
    BY <2>1 DEF Later
  <2>3. \A p \in Objects : objs2[p] = t => objs[p] = t
    BY <1>2, <2>2 DEF Later
  <2> QED BY <2>1, <2>2, <2>3 DEF Own
<1> QED BY <1>1, <1>2

LEMMA TiedLater ==
    ASSUME NEW objs, NEW next, NEW objs2, NEW next2, Later(objs, next, objs2, next2),
           NEW out, Tied(out, objs, next)
    PROVE  Tied(out, objs2, next2)
  BY OwnLater DEF Tied

LEMMA TiedNothing ==
    ASSUME NEW objs, NEW next
    PROVE  Tied(NothingPending, objs, next)
  BY KeysOfObjects DEF Tied, Own, Answered, NothingPending, NoOutcome

LEMMA TiedOverlaid ==
    ASSUME NEW objs, NEW next, NEW old, NEW new, Tied(old, objs, next), Tied(new, objs, next)
    PROVE  Tied(Overlaid(old, new), objs, next)
<1>1. \A k \in Keys : Overlaid(old, new)[k] \in {old[k], new[k]}
  BY DEF Overlaid
<1> SUFFICES ASSUME NEW o \in Objects
             PROVE  /\ Own(o, Overlaid(old, new)[Obj(o)].tid, objs, next)
                    /\ Own(o, Overlaid(old, new)[Acl(o)].tid, objs, next)
                    /\ Answered(Overlaid(old, new)[Acl(o)])
  BY DEF Tied
<1>2. /\ Overlaid(old, new)[Obj(o)] \in {old[Obj(o)], new[Obj(o)]}
      /\ Overlaid(old, new)[Acl(o)] \in {old[Acl(o)], new[Acl(o)]}
  BY <1>1, KeysOfObjects
<1> QED BY <1>2 DEF Tied

(* A table in which one unit's outcome is another. *)
LEMMA TiedBut ==
    ASSUME NEW objs, NEW next, NEW out, NEW out2, NEW o \in Objects, NEW k \in {Obj(o), Acl(o)},
           Tied(out, objs, next), \A j \in Keys \ {k} : out2[j] = out[j],
           Own(o, out2[k].tid, objs, next), k = Acl(o) => Answered(out2[k])
    PROVE  Tied(out2, objs, next)
<1> SUFFICES ASSUME NEW p \in Objects
             PROVE  /\ Own(p, out2[Obj(p)].tid, objs, next) /\ Own(p, out2[Acl(p)].tid, objs, next)
                    /\ Answered(out2[Acl(p)])
  BY DEF Tied
<1>1. /\ Own(p, out[Obj(p)].tid, objs, next) /\ Own(p, out[Acl(p)].tid, objs, next)
      /\ Answered(out[Acl(p)])
  BY DEF Tied
<1>2. Obj(p) = k \/ out2[Obj(p)] = out[Obj(p)]
  BY KeysOfObjects
<1>3. Acl(p) = k \/ out2[Acl(p)] = out[Acl(p)]
  BY KeysOfObjects
<1>4. Obj(p) = k => p = o
  BY KeysOfObjects
<1>5. Acl(p) = k => p = o /\ k = Acl(o)
  BY KeysOfObjects
<1> QED BY <1>1, <1>2, <1>3, <1>4, <1>5

(* What the steps of other units leave alone. *)
LEMMA TiedAside ==
    ASSUME NEW k \in IdentityKeys, Books(k), UNCHANGED <<object, nextId, saved, cp>>,
           OwnInv
    PROVE  /\ Tied(rows, object, nextId)' /\ Tied(saved, object, nextId)'
           /\ Tied(cp, object, nextId)' /\ Tied(pending, object, nextId)'
<1>1. \A o \in Objects : /\ rows'[Obj(o)] = rows[Obj(o)] /\ rows'[Acl(o)] = rows[Acl(o)]
                         /\ pending'[Obj(o)] = pending[Obj(o)]
                         /\ pending'[Acl(o)] = pending[Acl(o)]
  BY KeysOfObjects DEF Books
<1> QED BY <1>1 DEF OwnInv, Tied

LEMMA OwnInit == Init => OwnInv
<1> SUFFICES ASSUME Init
             PROVE  OwnInv
  OBVIOUS
<1>1. /\ stage = "idle" /\ nextId = 1 /\ \A o \in Objects : object[o] = None
      /\ \A k \in Keys : /\ rows[k] = NoRow /\ saved[k] = NoRow /\ cp[k] = NoOutcome
                         /\ pending[k] = NoOutcome
  BY DEF Init
<1> QED BY <1>1, KeysOfObjects DEF OwnInv, Tied, Own, Answered, NoRow, NoOutcome

LEMMA StartOwn == Typed /\ OwnInv /\ StartRun => OwnInv'
<1> SUFFICES ASSUME Typed, OwnInv, StartRun
             PROVE  OwnInv'
  OBVIOUS
<1>0. /\ UNCHANGED <<object, nextId>> /\ stage' = "pass1" /\ saved' = rows'
      /\ pending' = NothingPending /\ (cp' = cp \/ cp' = NothingPending)
  BY DEF StartRun, target
<1>1. Tied(rows', object, nextId)
  <2>1. CASE rows' = saved
    BY <2>1 DEF OwnInv
  <2>2. CASE rows' = [k \in Keys |-> IF Replayed(k)
                        THEN Recorded(saved[k], cp[k].action, cp[k].fp, cp[k].tid)
                        ELSE saved[k]]
    <3>1. ASSUME NEW k \in Keys
          PROVE  \/ rows'[k] = saved[k]
                 \/ /\ rows'[k].tid = IF cp[k].tid = None THEN saved[k].tid ELSE cp[k].tid
                    /\ rows'[k].action = cp[k].action
      BY <2>2, <3>1 DEF Recorded
    <3> SUFFICES ASSUME NEW o \in Objects
                 PROVE  /\ Own(o, rows'[Obj(o)].tid, object, nextId)
                        /\ Own(o, rows'[Acl(o)].tid, object, nextId)
                        /\ Answered(rows'[Acl(o)])
      BY DEF Tied
    <3>2. /\ Own(o, saved[Obj(o)].tid, object, nextId) /\ Own(o, cp[Obj(o)].tid, object, nextId)
          /\ Own(o, saved[Acl(o)].tid, object, nextId) /\ Own(o, cp[Acl(o)].tid, object, nextId)
          /\ Answered(saved[Acl(o)]) /\ Answered(cp[Acl(o)])
      BY DEF OwnInv, Tied
    <3>3. Own(o, rows'[Obj(o)].tid, object, nextId) /\ Own(o, rows'[Acl(o)].tid, object, nextId)
      BY <3>1, <3>2, KeysOfObjects
    <3>4. Answered(rows'[Acl(o)])
      BY <3>1, <3>2, KeysOfObjects DEF Answered
    <3> QED BY <3>3, <3>4
  <2> QED BY <2>1, <2>2 DEF StartRun
<1>2. Tied(cp', object, nextId) /\ Tied(pending', object, nextId)
  BY <1>0, TiedNothing DEF OwnInv
<1> QED BY <1>0, <1>1, <1>2 DEF OwnInv

LEMMA ObjectOwn ==
    ASSUME Typed, OwnInv, NEW o \in Objects, ImportObject(o)
    PROVE  OwnInv'
<1> DEFINE k == Obj(o)
<1>0. k = <<"object", o>> /\ k \in Keys
  BY KeysOfObjects DEF Obj
<1>1. Apart(k) /\ stage = "objects"
  BY ObjectApart
<1> HIDE DEF k
<1>2. Own(o, object[o], object, nextId) /\ Own(o, rows[k].tid, object, nextId)
      /\ Own(o, cp[k].tid, object, nextId) /\ nextId \in Nat
  BY DEF OwnInv, Tied, k
<1>3. /\ Later(object, nextId, object', nextId')
      /\ Own(o, object'[o], object', nextId')
      /\ Own(o, rows'[k].tid, object', nextId')
      /\ pending'[k] = pending[k] \/ Own(o, pending'[k].tid, object', nextId')
  <2>1. CASE UNCHANGED <<object, nextId>>
    <3>1. Later(object, nextId, object', nextId') /\ Own(o, object'[o], object', nextId')
      BY <1>2, <2>1 DEF Later
    <3>2. CASE SetAside(k)
      BY <1>2, <2>1, <3>1, <3>2 DEF SetAside
    <3>3. CASE Restore(k)
      <4>1. rows'[k].tid = IF cp[k].tid = None THEN rows[k].tid ELSE cp[k].tid
        BY <1>0, <3>3, RecordedIs DEF Restore, Typed, Shape
      <4> QED BY <1>2, <2>1, <3>1, <3>3, <4>1 DEF Restore
    <3>4. CASE \E action : Conclude(k, action, object[o])
      <4>1. /\ rows'[k].tid = IF object[o] = None THEN rows[k].tid ELSE object[o]
            /\ pending'[k].tid = object[o]
        <5>1. PICK action, tid : Conclude(k, action, tid) /\ tid = object[o]
          BY <3>4
        <5>2. k \in Keys
          BY <1>0
        <5>3. Conclude(k, action, tid)
          BY <5>1
        <5>4. /\ rows'[k].tid = IF tid = None THEN rows[k].tid ELSE tid
              /\ pending'[k].tid = tid
          BY <5>2, <5>3, ConcludeBooks
        <5> QED BY <5>1, <5>4
      <4> QED BY <1>2, <2>1, <3>1, <4>1
    <3>5. CASE Conclude(k, "created", nextId) /\ nextId' = nextId + 1
      BY <1>2, <2>1, <3>5
    <3> QED BY <1>0, <3>2, <3>3, <3>4, <3>5 DEF ImportObject
  <2>2. CASE /\ Conclude(k, "created", nextId) /\ nextId' = nextId + 1 /\ nextId \in Ids
             /\ object' = [object EXCEPT ![o] = nextId]
    <3>1. /\ rows'[k].tid = IF nextId = None THEN rows[k].tid ELSE nextId
          /\ pending'[k].tid = nextId
      BY <1>0, <2>2, ConcludeBooks
    <3>2. nextId # None
      BY <1>2, NoneAssumption
    <3>3. \A p \in Objects : object'[p] = IF p = o THEN nextId ELSE object[p]
      BY <2>2 DEF Typed, Shape
    <3>4. \A p \in Objects : object[p] # nextId
      <4>1. \A p \in Objects : object[p] = None \/ object[p] \in 1..(nextId - 1)
        BY DEF OwnInv, Own
      <4> QED BY <1>2, <3>2, <4>1
    <3>5. Later(object, nextId, object', nextId')
      BY <1>2, <2>2, <3>3 DEF Later
    <3>6. nextId \in 1..(nextId' - 1)
      BY <2>2, <1>2 DEF OwnInv, Ids
    <3>7. Own(o, nextId, object', nextId')
      BY <3>3, <3>4, <3>6 DEF Own
    <3> QED BY <3>1, <3>2, <3>3, <3>5, <3>7
  <2> QED BY <1>0, <2>1, <2>2 DEF ImportObject
<1>4. nextId' \in Nat \ {0}
  <2>1. nextId \in Nat \ {0}
    BY DEF OwnInv
  <2> QED BY <1>3, <2>1 DEF Later
<1>5. /\ Tied(rows, object', nextId') /\ Tied(saved, object', nextId')
      /\ Tied(cp, object', nextId') /\ Tied(pending, object', nextId')
  BY <1>3, TiedLater DEF OwnInv
<1>6. k \in {Obj(o), Acl(o)} /\ k # Acl(o)
  BY KeysOfObjects DEF k
<1>7. Tied(rows', object', nextId')
  BY <1>1, <1>3, <1>5, <1>6, TiedBut DEF Apart, Books
<1>8. Tied(pending', object', nextId')
  <2>1. Own(o, pending[k].tid, object', nextId')
    BY <1>5 DEF Tied, k
  <2> QED BY <1>1, <1>3, <1>5, <1>6, <2>1, TiedBut DEF Apart, Books
<1>9. \A p \in Objects : Own(p, object'[p], object', nextId')
  <2> SUFFICES ASSUME NEW p \in Objects, p # o
               PROVE  Own(p, object'[p], object', nextId')
    BY <1>3
  <2>1. object'[p] = object[p]
    BY ObjectApart DEF Typed, Shape
  <2>2. Own(p, object[p], object, nextId)
    BY DEF OwnInv
  <2> QED BY <1>3, <2>1, <2>2, OwnLater
<1>10. /\ Tied(saved', object', nextId') /\ Tied(cp', object', nextId') /\ stage' # "done"
  BY <1>1, <1>5 DEF Apart
<1> QED BY <1>4, <1>7, <1>8, <1>9, <1>10 DEF OwnInv

LEMMA AclIds ==
    ASSUME NEW o \in Objects, NEW k, k = Acl(o)
    PROVE  /\ k[1] = "acl" /\ k[2] = o /\ TargetObject(o) = rows[Obj(o)].tid
           /\ Exists(k) <=> rows[k].tid # None
           /\ ExistingId(k) = rows[k].tid
<1>1. k[1] = "acl" /\ k[2] = o
  BY DEF Acl
<1>2. Exists(k) <=> rows[k].tid # None
  BY <1>1 DEF Exists
<1>3. ExistingId(k) = rows[k].tid
  BY <1>1, <1>2 DEF ExistingId
<1> QED BY <1>1, <1>2, <1>3 DEF TargetObject, Obj

(* An ACL is concluded under its object's id, or under the one that it had; and it is
   taken up only if there is one.                                                  *)
LEMMA AclConcludes ==
    ASSUME NEW o \in Objects, NEW k, k = Acl(o),
           \/ Decide(k) = "skip" /\ Conclude(k, "skipped", ExistingId(k))
           \/ ApplyAcl(k)
    PROVE  \E action, tid :
              /\ action \in Actions
              /\ Conclude(k, action, tid)
              /\ tid \in {rows[k].tid, rows[Obj(o)].tid}
              /\ tid = None => action \in {"failed", "skipped_no_object"}
              /\ action = "skipped_no_object" \/ rows[k].tid # None \/ rows[Obj(o)].tid # None
<1>0. /\ k[1] = "acl" /\ k[2] = o /\ TargetObject(o) = rows[Obj(o)].tid
      /\ Exists(k) <=> rows[k].tid # None
      /\ ExistingId(k) = rows[k].tid
  BY AclIds
<1>a. {"skipped", "failed", "skipped_no_object", "created", "updated"} \subseteq Actions
  BY DEF Actions, Success
<1>1. CASE Decide(k) = "skip" /\ Conclude(k, "skipped", ExistingId(k))
  BY <1>0, <1>1, <1>a DEF Decide
<1>2. CASE ApplyAcl(k) /\ TargetObject(o) = None
  <2>1. PICK action \in {"failed", "skipped_no_object"} :
            /\ Conclude(k, action, ExistingId(k))
            /\ action = "skipped_no_object" \/ Decide(k) = "update"
    BY <1>0, <1>2 DEF ApplyAcl
  <2>2. Decide(k) = "update" => rows[k].tid # None
    BY <1>0 DEF Decide
  <2> QED BY <1>0, <1>a, <2>1, <2>2
<1>3. CASE ApplyAcl(k) /\ TargetObject(o) # None
  <2>1. \E clean \in {"updated", "created"} : Put(k, clean)
    BY <1>0, <1>3 DEF ApplyAcl
  <2>2. \/ \E clean \in {"updated", "created"} : Conclude(k, clean, TargetObject(o))
        \/ Conclude(k, "failed", ExistingId(k))
    BY <1>0, <2>1 DEF Put
  <2> QED BY <1>0, <1>3, <1>a, <2>2
<1> QED BY <1>1, <1>2, <1>3

LEMMA AclOwn ==
    ASSUME Typed, OwnInv, NEW o \in Objects, ImportAcl(o)
    PROVE  OwnInv'
<1>0. PICK k \in Keys : k = Acl(o)
  BY KeysOfObjects
<1>1. /\ Apart(k) /\ stage = "acls" /\ UNCHANGED <<object, nextId>>
  BY <1>0, AclApart
<1>2. /\ Own(o, rows[Obj(o)].tid, object, nextId) /\ Own(o, rows[k].tid, object, nextId)
      /\ Own(o, cp[k].tid, object, nextId)
      /\ Answered(rows[k]) /\ Answered(cp[k]) /\ Answered(pending[k])
  BY <1>0 DEF OwnInv, Tied
<1>3. /\ Own(o, rows'[k].tid, object, nextId) /\ Answered(rows'[k])
      /\ \/ pending'[k] = pending[k]
         \/ Own(o, pending'[k].tid, object, nextId) /\ Answered(pending'[k])
  <2>1. CASE SetAside(k)
    BY <1>2, <2>1 DEF SetAside
  <2>2. CASE Restore(k)
    <3>1. /\ rows'[k].tid = IF cp[k].tid = None THEN rows[k].tid ELSE cp[k].tid
          /\ rows'[k].action = cp[k].action
      BY <2>2, RecordedIs DEF Restore, Typed, Shape
    <3>2. pending'[k] = pending[k]
      BY <2>2 DEF Restore
    <3>3. Answered(rows'[k])
      BY <1>2, <3>1 DEF Answered
    <3> QED BY <1>2, <3>1, <3>2, <3>3
  <2>3. CASE \/ Decide(k) = "skip" /\ Conclude(k, "skipped", ExistingId(k))
             \/ ApplyAcl(k)
    <3>1. PICK action, tid :
              /\ action \in Actions
              /\ Conclude(k, action, tid)
              /\ tid \in {rows[k].tid, rows[Obj(o)].tid}
              /\ tid = None => action \in {"failed", "skipped_no_object"}
      BY <1>0, <2>3, AclConcludes
    <3>2. Conclude(k, action, tid)
      BY <3>1
    <3>3. /\ rows'[k].tid = IF tid = None THEN rows[k].tid ELSE tid
          /\ pending'[k].tid = tid /\ rows'[k].action = action /\ pending'[k].action = action
      BY <3>2, ConcludeBooks
    <3>4. Answered(rows'[k]) /\ Answered(pending'[k])
      BY <3>1, <3>3 DEF Answered
    <3>5. Own(o, rows'[k].tid, object, nextId) /\ Own(o, pending'[k].tid, object, nextId)
      BY <1>2, <3>1, <3>3
    <3> QED BY <3>4, <3>5
  <2>4. k = <<"acl", o>>
    BY <1>0 DEF Acl
  <2> QED BY <2>1, <2>2, <2>3, <2>4 DEF ImportAcl
<1>4. Own(o, pending[k].tid, object, nextId)
  BY <1>0 DEF OwnInv, Tied
<1>5. Tied(rows', object, nextId) /\ Tied(pending', object, nextId)
  <2>1. Tied(rows, object, nextId) /\ Tied(pending, object, nextId)
    BY DEF OwnInv
  <2>2. \A j \in Keys \ {k} : rows'[j] = rows[j] /\ pending'[j] = pending[j]
    BY <1>1 DEF Apart, Books
  <2>3. Tied(rows', object, nextId)
    BY <1>0, <1>3, <2>1, <2>2, TiedBut
  <2>4. Own(o, pending'[k].tid, object, nextId) /\ Answered(pending'[k])
    BY <1>2, <1>3, <1>4
  <2>5. Tied(pending', object, nextId)
    BY <1>0, <2>1, <2>2, <2>4, TiedBut
  <2> QED BY <2>3, <2>5
<1> QED BY <1>1, <1>5 DEF Apart, OwnInv

(* A step after which the tables, the checkpoint and the objects are as before, or the
   first two have been written out.                                                *)
Unbound ==
    /\ UNCHANGED <<nextId, rows>>
    /\ \A p \in Objects : object'[p] \in {object[p], None}
    /\ saved' \in {saved, rows} /\ pending' \in {pending, NothingPending}
    /\ cp' \in {cp, Overlaid(cp, pending)}

LEMMA UnboundOwn ==
    ASSUME Typed, OwnInv, Unbound,
           stage' = "done" => \A o \in Objects : report'[o] = IF ToVerify(o)' THEN Verdict(o)' ELSE None
    PROVE  OwnInv'
<1>1. Later(object, nextId, object', nextId')
  BY DEF Unbound, Later, OwnInv
<1>2. /\ Tied(rows, object', nextId') /\ Tied(saved, object', nextId')
      /\ Tied(cp, object', nextId') /\ Tied(pending, object', nextId')
  BY <1>1, TiedLater DEF OwnInv
<1>3. /\ Tied(rows', object', nextId') /\ Tied(saved', object', nextId')
      /\ Tied(cp', object', nextId') /\ Tied(pending', object', nextId')
  BY <1>2, TiedNothing, TiedOverlaid DEF Unbound
<1>4. ASSUME NEW o \in Objects
      PROVE  Own(o, object'[o], object', nextId')
  <2>1. Own(o, object[o], object', nextId')
    BY <1>1, OwnLater DEF OwnInv
  <2>2. Own(o, None, object', nextId')
    BY DEF Own
  <2> QED BY <2>1, <2>2 DEF Unbound
<1> QED BY <1>3, <1>4 DEF OwnInv, Unbound

LEMMA OwnStep == Typed /\ OwnInv /\ [Next]_vars => OwnInv'
<1> SUFFICES ASSUME Typed, OwnInv, [Next]_vars
             PROVE  OwnInv'
  OBVIOUS
<1>1. CASE StartRun
  BY <1>1, StartOwn
<1>2. ASSUME NEW k \in IdentityKeys, ImportIdentity(k) \/ CreateLocalGroup(k)
      PROVE  OwnInv'
  <2>1. Quietly(k) /\ Outside
    BY <1>2, IdentityQuietly, GroupQuietly
  <2>2. Books(k) /\ UNCHANGED <<object, nextId, saved, cp>> /\ stage' = stage /\ stage = "pass1"
    BY <2>1 DEF Quietly, Outside, Grows
  <2> QED BY <2>2, TiedAside DEF OwnInv
<1>3. CASE EndPass1
  BY <1>3, UnboundOwn DEF EndPass1, SaveCheckpoint, target, tables, Unbound
<1>4. CASE EndIdentity \/ EndObjects
  <2>1. PICK next, keys, wanted : EnterPhase(next, keys, wanted) /\ next # "done"
    BY <1>4 DEF EndIdentity, EndObjects
  <2> QED BY <2>1, UnboundOwn DEF EnterPhase, SaveCheckpoint, SaveState, target, Unbound
<1>5. CASE EndAcls
  <2>1. /\ Unbound /\ UNCHANGED <<world, bundle, rows, object, grants>>
        /\ report' = [o \in Objects |-> IF ToVerify(o) THEN Verdict(o) ELSE None]
    BY <1>5 DEF EndAcls, EnterPhase, SaveCheckpoint, SaveState, target, Unbound
  <2>2. \A o \in Objects : (ToVerify(o)' <=> ToVerify(o)) /\ Verdict(o)' = Verdict(o)
    BY <2>1 DEF ToVerify, Verdict, Live, Source
  <2> QED BY <2>1, <2>2, UnboundOwn
<1>6. CASE Leave
  BY <1>6, UnboundOwn DEF Leave, target, tables, memory, Unbound
<1>7. ASSUME NEW g \in Groups, ApplyMembers(g)
      PROVE  OwnInv'
  <2>1. /\ Books(<<"group", g>>) /\ UNCHANGED <<object, nextId, saved, cp, stage>>
        /\ stage = "pass2"
    BY <1>7, MembersApplied DEF ApplyMembers, run
  <2> QED BY <2>1, KeysOfGroups, TiedAside DEF OwnInv
<1>8. ASSUME NEW g \in Groups, Provision(g)
      PROVE  OwnInv'
  BY <1>8, UnboundOwn DEF Provision, PeopleAct, tables, run, memory, Unbound
<1>9. ASSUME NEW o \in Objects, ImportObject(o) \/ ImportAcl(o)
      PROVE  OwnInv'
  BY <1>9, ObjectOwn, AclOwn
<1>10. ASSUME NEW o \in Objects, DeleteObject(o)
       PROVE  OwnInv'
  <2>1. \A p \in Objects : object'[p] \in {object[p], None}
    BY <1>10 DEF DeleteObject, Typed, Shape
  <2> QED BY <1>10, <2>1, UnboundOwn DEF DeleteObject, tables, run, memory, Unbound
<1>11. ASSUME NEW p \in Users \cup SPs, AssignElsewhere(p)
       PROVE  OwnInv'
  BY <1>11, UnboundOwn DEF AssignElsewhere, PeopleAct, tables, run, memory, Unbound
<1>12. CASE CheckpointBatch
  BY <1>12, UnboundOwn
  DEF CheckpointBatch, CrashAhead, Working, SaveCheckpoint, target, tables, run, Unbound
<1>13. CASE StateBatch
  BY <1>13, UnboundOwn
  DEF StateBatch, CrashAhead, Working, SaveState, target, run, memory, Unbound
<1>14. CASE Crash
  <2>1. /\ stage' = "idle" /\ rows' = saved /\ pending' = NothingPending
        /\ UNCHANGED <<object, nextId, saved, cp>>
    BY <1>14 DEF Crash, target
  <2> QED BY <2>1, TiedNothing DEF OwnInv
<1>15. CASE UNCHANGED vars
  <2>1. Unbound /\ UNCHANGED <<world, bundle, rows, object, grants, report, stage>>
    BY <1>15 DEF vars, target, tables, run, memory, Unbound
  <2>2. \A o \in Objects : (ToVerify(o)' <=> ToVerify(o)) /\ Verdict(o)' = Verdict(o)
    BY <2>1 DEF ToVerify, Verdict, Live, Source
  <2> QED BY <2>1, <2>2, UnboundOwn DEF OwnInv
<1> QED BY <1>1, <1>2, <1>3, <1>4, <1>5, <1>6, <1>7, <1>8, <1>9, <1>10, <1>11, <1>12, <1>13,
      <1>14, <1>15 DEF Next

(* What the parity report calls a match is one, and an object that lacks a grant is in
   the report or in the work that is left: verify_post_apply.                       *)
THEOREM MissingIsReported == Spec => []MissingAccessIsReported
<1>1. ASSUME Typed, OwnInv, stage = "done", NEW o \in Objects, object[o] # None
      PROVE  LET missing == Source.grants[o] \ grants[object[o]]
             IN  /\ report[o] = "match" => Source.grants[o] = grants[object[o]]
                 /\ missing # {} =>
                      report[o] \in {"missing_on_target", "both", "unverified"} \/ Unapplied(o)
  <2>1. report[o] = IF ToVerify(o) THEN Verdict(o) ELSE None
    BY <1>1 DEF OwnInv
  <2>2. CASE ~ToVerify(o)
    <3>1. Unapplied(o)
      BY <1>1, <2>2 DEF ToVerify, OwnInv, Tied, Answered, Unapplied, Acl
    <3>2. None # "match"
      BY NoneAssumption
    <3> QED BY <2>1, <2>2, <3>1, <3>2
  <2>3. CASE ToVerify(o) /\ ~Live(rows[<<"acl", o>>].tid)
    BY <2>1, <2>3 DEF Verdict
  <2>4. CASE ToVerify(o) /\ Live(rows[<<"acl", o>>].tid)
    <3>1. rows[<<"acl", o>>].tid = object[o]
      BY <1>1, <2>4 DEF ToVerify, Live, OwnInv, Tied, Own, Acl
    <3> DEFINE missing == Source.grants[o] \ grants[object[o]]
               extra == grants[object[o]] \ Source.grants[o]
    <3>2. report[o] = IF missing = {} THEN IF extra = {} THEN "match" ELSE "extra_on_target"
                      ELSE IF extra = {} THEN "missing_on_target" ELSE "both"
      BY <2>1, <2>4, <3>1 DEF Verdict
    <3> QED BY <3>2
  <2> QED BY <2>2, <2>3, <2>4
<1>2. Typed /\ OwnInv => MissingAccessIsReported
  BY <1>1 DEF MissingAccessIsReported
<1> QED BY <1>2, TypedInit, TypedStep, OwnInit, OwnStep, PTL DEF Spec

(* --- healed objects ----------------------------------------------------------------------- *)

(* An object's row has its fingerprint once it is more than a failure, and an ACL's row
   has an id only if its object's has one.                                          *)
Made(table) ==
    \A o \in Objects :
        /\ table[Obj(o)].action \notin {"failed", None} => table[Obj(o)].fp = "object"
        /\ table[Obj(o)].action = None => table[Obj(o)].tid = None
        /\ table[Acl(o)].tid # None => table[Obj(o)].tid # None

Advances(old, new) ==
    \A o \in Objects :
        /\ old[Obj(o)].tid # None => new[Obj(o)].tid # None
        /\ old[Obj(o)].fp = "object" => new[Obj(o)].fp = "object"

Concluded(out, table) ==
    \A o \in Objects :
        /\ out[Obj(o)] # NoOutcome =>
              out[Obj(o)].fp = "object" /\ out[Obj(o)].action \notin {None, "skipped_no_object"}
        /\ out[Acl(o)] # NoOutcome => out[Acl(o)].action # None
        /\ out[Acl(o)].tid # None => table[Obj(o)].tid # None

Applied(outcome) == outcome # NoOutcome /\ outcome.action # "skipped_no_object"

(* Where an ACL was taken up and the object's own outcome is not known, as after a batch
   that was lost, the object's row says that it is up to date.                       *)
Kept(out, done, table) ==
    \A o \in Objects :
        Applied(out[Acl(o)]) /\ done[Obj(o)] = NoOutcome => table[Obj(o)].fp = "object"

Base(r, s, c, p) ==
    /\ Made(r) /\ Made(s) /\ Advances(s, r)
    /\ Concluded(c, s) /\ Concluded(p, s) /\ Kept(c, c, s) /\ Kept(p, c, s)

(* By the time the ACLs are taken up, an object that this run could not make has an
   outcome in the checkpoint.                                                      *)
RowInv ==
    /\ Base(rows, saved, cp, pending)
    /\ stage \in {"pass1", "pass2", "objects"} => \A o \in Objects : pending[Acl(o)] = NoOutcome
    /\ stage \in {"acls", "done"} => \A o \in Objects : saved[Obj(o)] = rows[Obj(o)]
    /\ stage = "objects" =>
          \A o \in Objects :
            /\ \/ Obj(o) \in todo
               \/ cp[Obj(o)] # NoOutcome \/ pending[Obj(o)] # NoOutcome
               \/ rows[Obj(o)].action # "failed"
            /\ Obj(o) \notin work => rows[Obj(o)].action # "failed"
    /\ stage = "acls" =>
          \A o \in Objects : cp[Obj(o)] # NoOutcome \/ rows[Obj(o)].action # "failed"

Granted(o) ==
    LET row == rows[<<"acl", o>>]
    IN  \/ row.action \in {"failed", "skipped"}
        \/ row.tid \notin {None, object[o]}
        \/ Body(o) \subseteq grants[object[o]]

(* A healed object's ACL is taken up in the same run, and a full run that resumes an
   outcome for it resumes one about another object than the one it healed.           *)
HealInv ==
    /\ healed \subseteq acted
    /\ stage \in {"pass1", "pass2"} => acted = {}
    /\ stage \in {"objects", "acls", "done"} =>
          \A o \in healed : object[o] # None /\ rows[Obj(o)].tid = object[o]
    /\ stage = "objects" => \A o \in healed : Obj(o) \notin todo
    /\ stage = "acls" =>
          /\ \A o \in healed : Acl(o) \in work
          /\ \A o \in Objects : Acl(o) \in todo => pending[Acl(o)] = NoOutcome
    /\ stage \in {"objects", "acls"} /\ mode = "full" =>
          \A o \in healed :
             (stage = "acls" => Acl(o) \in todo) /\ Applied(cp[Acl(o)]) =>
                 cp[Acl(o)].tid # object[o]
    /\ stage \in {"acls", "done"} => \A o \in healed : Acl(o) \notin todo => Granted(o)

LEMMA KeptApart ==
    /\ NoOutcome.action = None /\ NoOutcome.fp = None /\ NoOutcome.tid = None
    /\ ~Applied(NoOutcome) /\ None # "object" /\ None \notin Actions
    /\ \A o \in Objects : NothingPending[Obj(o)] = NoOutcome /\ NothingPending[Acl(o)] = NoOutcome
  BY KeysOfObjects, NoneAssumption DEF NoOutcome, Applied, NothingPending

LEMMA BaseAdvances ==
    ASSUME NEW r, NEW s, NEW c, NEW p, NEW t, Base(r, s, c, p), Advances(s, t), Made(t)
    PROVE  Base(t, t, c, p)
  BY DEF Base, Advances, Concluded, Kept

LEMMA BaseForgets ==
    ASSUME NEW r, NEW s, NEW c, NEW p, Base(r, s, c, p)
    PROVE  Base(r, s, c, NothingPending) /\ Base(r, s, NothingPending, NothingPending)
  BY KeptApart DEF Base, Concluded, Kept

LEMMA BaseWritten ==
    ASSUME NEW r, NEW s, NEW c, NEW p, Base(r, s, c, p)
    PROVE  Base(r, s, Overlaid(c, p), NothingPending)
<1>1. \A o \in Objects :
         /\ Overlaid(c, p)[Obj(o)] = IF p[Obj(o)] = NoOutcome THEN c[Obj(o)] ELSE p[Obj(o)]
         /\ Overlaid(c, p)[Acl(o)] = IF p[Acl(o)] = NoOutcome THEN c[Acl(o)] ELSE p[Acl(o)]
  BY KeysOfObjects DEF Overlaid
<1>2. Concluded(c, s) /\ Concluded(p, s) /\ Kept(c, c, s) /\ Kept(p, c, s)
  BY DEF Base
<1>3. Concluded(Overlaid(c, p), s)
  BY <1>1, <1>2 DEF Concluded
<1>4. Kept(Overlaid(c, p), Overlaid(c, p), s)
  BY <1>1, <1>2 DEF Kept
<1>5. Concluded(NothingPending, s) /\ Kept(NothingPending, Overlaid(c, p), s)
  BY KeptApart DEF Concluded, Kept
<1> QED BY <1>3, <1>4, <1>5 DEF Base

LEMMA BaseAgrees ==
    ASSUME NEW r, NEW s, NEW c, NEW p, Base(r, s, c, p), NEW r2, NEW p2,
           \A o \in Objects : /\ r2[Obj(o)] = r[Obj(o)] /\ r2[Acl(o)] = r[Acl(o)]
                              /\ p2[Obj(o)] = p[Obj(o)] /\ p2[Acl(o)] = p[Acl(o)]
    PROVE  Base(r2, s, c, p2)
<1>1. Made(r2)
  BY DEF Base, Made
<1>2. Advances(s, r2)
  BY DEF Base, Advances
<1>3. Concluded(p2, s)
  BY DEF Base, Concluded
<1>4. Kept(p2, c, s)
  BY DEF Base, Kept
<1> QED BY <1>1, <1>2, <1>3, <1>4 DEF Base

LEMMA RowInit == Init => RowInv
<1> SUFFICES ASSUME Init
             PROVE  RowInv
  OBVIOUS
<1>1. /\ stage = "idle"
      /\ \A k \in Keys : /\ rows[k] = NoRow /\ saved[k] = NoRow /\ cp[k] = NoOutcome
                         /\ pending[k] = NoOutcome
  BY DEF Init
<1>2. \A o \in Objects : /\ rows[Obj(o)] = NoRow /\ rows[Acl(o)] = NoRow
                         /\ saved[Obj(o)] = NoRow /\ saved[Acl(o)] = NoRow
                         /\ cp[Obj(o)] = NoOutcome /\ cp[Acl(o)] = NoOutcome
                         /\ pending[Obj(o)] = NoOutcome /\ pending[Acl(o)] = NoOutcome
  BY <1>1, KeysOfObjects
<1>3. NoRow.action = None /\ NoRow.tid = None
  BY DEF NoRow
<1>4. Made(rows) /\ Made(saved)
  BY <1>2, <1>3 DEF Made
<1>5. Advances(saved, rows)
  BY <1>2 DEF Advances
<1>6. Concluded(cp, saved) /\ Concluded(pending, saved)
  BY <1>2, KeptApart DEF Concluded
<1>7. Kept(cp, cp, saved) /\ Kept(pending, cp, saved)
  BY <1>2, KeptApart DEF Kept
<1> QED BY <1>1, <1>4, <1>5, <1>6, <1>7 DEF RowInv, Base

LEMMA StartRows == Typed /\ RowInv /\ StartRun => RowInv'
<1> SUFFICES ASSUME Typed, RowInv, StartRun
             PROVE  RowInv'
  OBVIOUS
<1>0. /\ stage' = "pass1" /\ saved' = rows' /\ pending' = NothingPending
      /\ Base(rows, saved, cp, pending)
  BY DEF StartRun, RowInv
<1>1. Base(saved, saved, cp, pending)
  <2>1. Made(saved)
    BY <1>0 DEF Base
  <2>2. Advances(saved, saved)
    BY DEF Advances
  <2> QED BY <1>0, <2>1, <2>2, BaseAdvances
<1>2. CASE rows' = saved /\ (cp' = cp \/ cp' = NothingPending)
  <2>1. Base(rows', saved', cp', pending')
    BY <1>0, <1>1, <1>2, BaseForgets
  <2> QED BY <1>0, <2>1, KeptApart DEF RowInv
<1>3. CASE /\ cp' = cp
           /\ rows' = [k \in Keys |-> IF Replayed(k)
                         THEN Recorded(saved[k], cp[k].action, cp[k].fp, cp[k].tid)
                         ELSE saved[k]]
  <2>1. ASSUME NEW k \in Keys
        PROVE  \/ rows'[k] = saved[k]
               \/ /\ cp[k] # NoOutcome
                  /\ rows'[k].tid = IF cp[k].tid = None THEN saved[k].tid ELSE cp[k].tid
                  /\ rows'[k].fp = IF cp[k].fp = None THEN saved[k].fp ELSE cp[k].fp
                  /\ rows'[k].action = cp[k].action
    BY <1>3, <2>1 DEF Recorded, Replayed
  <2>2. Made(saved) /\ Concluded(cp, saved)
    BY <1>0 DEF Base
  <2>3. ASSUME NEW o \in Objects
        PROVE  /\ saved[Obj(o)].tid # None => rows'[Obj(o)].tid # None
               /\ saved[Obj(o)].fp = "object" => rows'[Obj(o)].fp = "object"
               /\ rows'[Obj(o)].action \notin {"failed", None} => rows'[Obj(o)].fp = "object"
               /\ rows'[Obj(o)].action = None => rows'[Obj(o)].tid = None
    BY <2>1, <2>2, KeptApart, KeysOfObjects DEF Made, Concluded
  <2>4. ASSUME NEW o \in Objects, rows'[Acl(o)].tid # None
        PROVE  saved[Obj(o)].tid # None
    BY <2>1, <2>2, <2>4, KeysOfObjects DEF Made, Concluded
  <2>5. Made(rows') /\ Advances(saved, rows')
    BY <2>3, <2>4 DEF Made, Advances
  <2>6. Base(rows', rows', cp, pending)
    BY <1>0, <2>5, BaseAdvances
  <2>7. Base(rows', saved', cp', pending')
    BY <1>0, <1>3, <2>6, BaseForgets
  <2> QED BY <1>0, <2>7, KeptApart DEF RowInv
<1>4. bundle \in Nat
  BY BoundsAssumption DEF Typed, Shape
<1>5. bundle' # bundle => rows' = saved
  BY DEF StartRun
<1> QED BY <1>2, <1>3, <1>4, <1>5 DEF StartRun

LEMMA ObjectRows ==
    ASSUME Typed, RowInv, NEW o \in Objects, ImportObject(o)
    PROVE  RowInv'
<1>0. PICK k \in Keys : k = Obj(o) /\ k = <<"object", o>>
  BY KeysOfObjects DEF Obj
<1>1. Apart(k) /\ stage = "objects"
  BY <1>0, ObjectApart
<1>2. Base(rows, saved, cp, pending)
  BY DEF RowInv
<1>3. \A p \in Objects : /\ rows'[Acl(p)] = rows[Acl(p)] /\ pending'[Acl(p)] = pending[Acl(p)]
                         /\ p # o => rows'[Obj(p)] = rows[Obj(p)] /\ pending'[Obj(p)] = pending[Obj(p)]
  BY <1>0, <1>1, KeysOfObjects DEF Apart, Books
<1>4. /\ rows[k].action \notin {"failed", None} => rows[k].fp = "object"
      /\ rows[k].action = None => rows[k].tid = None
      /\ saved[k].tid # None => rows[k].tid # None
      /\ saved[k].fp = "object" => rows[k].fp = "object"
      /\ cp[k] # NoOutcome => cp[k].fp = "object" /\ cp[k].action \notin {None, "skipped_no_object"}
      /\ pending[k] # NoOutcome =>
             pending[k].fp = "object" /\ pending[k].action \notin {None, "skipped_no_object"}
  BY <1>0, <1>2 DEF Base, Made, Advances, Concluded
<1>5. Fp(k) = "object"
  BY <1>0 DEF Fp
<1>6. /\ rows'[k].action \notin {"failed", None} => rows'[k].fp = "object"
      /\ rows'[k].action # None \/ rows'[k] = rows[k]
      /\ rows[k].tid # None => rows'[k].tid # None
      /\ rows[k].fp = "object" => rows'[k].fp = "object"
      /\ pending'[k] # NoOutcome =>
             pending'[k].fp = "object" /\ pending'[k].action \notin {None, "skipped_no_object"}
      /\ pending[k] # NoOutcome => pending'[k] # NoOutcome
      /\ \/ cp[k] # NoOutcome \/ pending'[k] # NoOutcome
         \/ rows'[k].action # "failed"
  <2>1. CASE SetAside(k)
    <3>1. rows[k].action # "failed"
      BY <1>0, <1>1, <2>1 DEF SetAside, RowInv
    <3> QED BY <1>4, <2>1, <3>1 DEF SetAside
  <2>2. CASE Restore(k)
    <3>1. cp[k] # NoOutcome /\ pending' = pending
      BY <2>2 DEF Restore, Resumable
    <3>2. /\ rows'[k].action = cp[k].action
          /\ rows'[k].tid = IF cp[k].tid = None THEN rows[k].tid ELSE cp[k].tid
          /\ rows'[k].fp = IF (IF cp[k].action = "failed" THEN None ELSE Fp(k)) = None
                           THEN rows[k].fp ELSE (IF cp[k].action = "failed" THEN None ELSE Fp(k))
      BY <2>2, RecordedIs DEF Restore, Typed, Shape
    <3>3. rows'[k].fp = IF cp[k].action = "failed" THEN rows[k].fp ELSE "object"
      BY <1>5, <3>2, KeptApart
    <3> QED BY <1>4, <3>1, <3>2, <3>3
  <2>3. CASE \E action, tid :
                 action \in Actions \ {"skipped_no_object"} /\ Conclude(k, action, tid)
    <3>1. PICK action, tid :
              action \in Actions \ {"skipped_no_object"} /\ Conclude(k, action, tid)
      BY <2>3
    <3>2. /\ rows'[k] = Recorded(rows[k], action, IF action = "failed" THEN None ELSE Fp(k), tid)
          /\ pending'[k] = [action |-> action, fp |-> Fp(k), tid |-> tid, typed |-> TRUE]
      BY <3>1, ConcludeBooks
    <3>3. /\ rows'[k].action = action
          /\ rows'[k].tid = IF tid = None THEN rows[k].tid ELSE tid
          /\ rows'[k].fp = IF (IF action = "failed" THEN None ELSE Fp(k)) = None
                           THEN rows[k].fp ELSE (IF action = "failed" THEN None ELSE Fp(k))
      BY <3>2, RecordedIs
    <3>4. rows'[k].fp = IF action = "failed" THEN rows[k].fp ELSE "object"
      BY <1>5, <3>3, KeptApart
    <3>5. pending'[k].action = action /\ pending'[k].fp = "object" /\ action # None
      BY <1>5, <3>1, <3>2, KeptApart
    <3>6. pending'[k] # NoOutcome
      BY <3>5, KeptApart
    <3> QED BY <3>1, <3>3, <3>4, <3>5, <3>6
  <2>4. "created" \in Actions \ {"skipped_no_object"} /\ "failed" \in Actions \ {"skipped_no_object"}
        /\ "skipped" \in Actions \ {"skipped_no_object"} /\ "updated" \in Actions \ {"skipped_no_object"}
        /\ "adopted" \in Actions \ {"skipped_no_object"}
    BY DEF Actions, Success
  <2> QED BY <1>0, <2>1, <2>2, <2>3, <2>4 DEF ImportObject
<1>7. Base(rows', saved', cp', pending')
  <2>0. saved' = saved /\ cp' = cp
    BY <1>1 DEF Apart
  <2>1. Made(rows')
    <3> SUFFICES ASSUME NEW p \in Objects
                 PROVE  /\ rows'[Obj(p)].action \notin {"failed", None} => rows'[Obj(p)].fp = "object"
                        /\ rows'[Obj(p)].action = None => rows'[Obj(p)].tid = None
                        /\ rows'[Acl(p)].tid # None => rows'[Obj(p)].tid # None
      BY DEF Made
    <3>1. Made(rows)
      BY <1>2 DEF Base
    <3>2. CASE p = o
      <4>1. rows[Acl(p)].tid # None => rows[k].tid # None
        BY <1>0, <3>1, <3>2 DEF Made
      <4>2. rows'[Acl(p)] = rows[Acl(p)]
        BY <1>3
      <4> QED BY <1>0, <1>4, <1>6, <3>2, <4>1, <4>2
    <3>3. CASE p # o
      BY <1>3, <3>1, <3>3 DEF Made
    <3> QED BY <3>2, <3>3
  <2>2. Advances(saved, rows')
    BY <1>0, <1>2, <1>3, <1>4, <1>6 DEF Base, Advances
  <2>3. Concluded(pending', saved)
    <3>1. pending'[k] # NoOutcome =>
             pending'[k].fp = "object" /\ pending'[k].action \notin {None, "skipped_no_object"}
      BY <1>6
    <3>2. Concluded(pending, saved)
      BY <1>2 DEF Base
    <3> QED BY <1>0, <1>3, <3>1, <3>2 DEF Concluded
  <2>4. Kept(pending', cp, saved)
    BY <1>2, <1>3 DEF Base, Kept
  <2> QED BY <1>2, <2>0, <2>1, <2>2, <2>3, <2>4 DEF Base
<1>8. ASSUME NEW p \in Objects
      PROVE  /\ pending'[Acl(p)] = NoOutcome
             /\ \/ Obj(p) \in todo'
                \/ cp'[Obj(p)] # NoOutcome \/ pending'[Obj(p)] # NoOutcome
                \/ rows'[Obj(p)].action # "failed"
             /\ Obj(p) \notin work' => rows'[Obj(p)].action # "failed"
  <2>0. /\ cp' = cp /\ work' = work /\ todo' = todo \ {k}
    BY <1>1 DEF Apart
  <2>1. pending'[Acl(p)] = NoOutcome
    BY <1>1, <1>3 DEF RowInv
  <2>2. CASE p = o
    <3>1. k \notin work => rows'[k].action # "failed"
      <4>1. k \notin work => SetAside(k)
        BY <1>0 DEF ImportObject, Restore
      <4> QED BY <1>0, <1>1, <4>1 DEF SetAside, RowInv
    <3> QED BY <1>0, <1>6, <2>0, <2>1, <2>2, <3>1
  <2>3. CASE p # o
    <3>1. Obj(p) # k
      BY <1>0, <2>3, KeysOfObjects
    <3> QED BY <1>1, <1>3, <2>0, <2>1, <2>3, <3>1 DEF RowInv
  <2> QED BY <2>2, <2>3
<1> QED BY <1>1, <1>7, <1>8 DEF Apart, RowInv

LEMMA AclRows ==
    ASSUME Typed, RowInv, NEW o \in Objects, ImportAcl(o)
    PROVE  RowInv'
<1>0. PICK k \in Keys : k = Acl(o) /\ k = <<"acl", o>>
  BY KeysOfObjects DEF Acl
<1>1. Apart(k) /\ stage = "acls"
  BY <1>0, AclApart
<1>2. Base(rows, saved, cp, pending)
  BY DEF RowInv
<1>3. \A p \in Objects : /\ rows'[Obj(p)] = rows[Obj(p)] /\ pending'[Obj(p)] = pending[Obj(p)]
                         /\ p # o => rows'[Acl(p)] = rows[Acl(p)] /\ pending'[Acl(p)] = pending[Acl(p)]
  BY <1>0, <1>1, KeysOfObjects DEF Apart, Books
<1>4. /\ rows[k].tid # None => rows[Obj(o)].tid # None
      /\ cp[k] # NoOutcome => cp[k].action # None
      /\ cp[k].tid # None => saved[Obj(o)].tid # None
      /\ rows[Obj(o)].action = None => rows[Obj(o)].tid = None
      /\ rows[Obj(o)].action \notin {"failed", None} => rows[Obj(o)].fp = "object"
  BY <1>0, <1>2 DEF Base, Made, Concluded
<1>5. saved[Obj(o)] = rows[Obj(o)] /\ (cp[Obj(o)] # NoOutcome \/ rows[Obj(o)].action # "failed")
  BY <1>1 DEF RowInv
<1>6. /\ rows'[k].tid # None => rows[Obj(o)].tid # None
      /\ \/ pending'[k] = pending[k]
         \/ /\ pending'[k].action # None
            /\ pending'[k].tid # None => rows[Obj(o)].tid # None
            /\ Applied(pending'[k]) => rows[Obj(o)].tid # None
  <2>1. CASE SetAside(k)
    BY <1>4, <2>1 DEF SetAside
  <2>2. CASE Restore(k)
    <3>1. rows'[k].tid = IF cp[k].tid = None THEN rows[k].tid ELSE cp[k].tid
      BY <2>2, RecordedIs DEF Restore, Typed, Shape
    <3> QED BY <1>4, <1>5, <2>2, <3>1 DEF Restore
  <2>3. CASE \/ Decide(k) = "skip" /\ Conclude(k, "skipped", ExistingId(k))
             \/ ApplyAcl(k)
    <3>1. PICK action, tid :
              /\ action \in Actions
              /\ Conclude(k, action, tid)
              /\ tid \in {rows[k].tid, rows[Obj(o)].tid}
              /\ tid = None => action \in {"failed", "skipped_no_object"}
              /\ action = "skipped_no_object" \/ rows[k].tid # None \/ rows[Obj(o)].tid # None
      BY <1>0, <2>3, AclConcludes
    <3>2. Conclude(k, action, tid)
      BY <3>1
    <3>3. /\ rows'[k].tid = IF tid = None THEN rows[k].tid ELSE tid
          /\ pending'[k].tid = tid /\ pending'[k].action = action
      BY <3>2, ConcludeBooks
    <3>4. action # None
      BY <3>1, KeptApart
    <3>5. Applied(pending'[k]) => action # "skipped_no_object"
      BY <3>3 DEF Applied
    <3> QED BY <1>4, <3>1, <3>3, <3>4, <3>5
  <2> QED BY <1>0, <2>1, <2>2, <2>3 DEF ImportAcl
<1>7. Base(rows', saved', cp', pending')
  <2>0. saved' = saved /\ cp' = cp
    BY <1>1 DEF Apart
  <2>1. Made(rows')
    <3> SUFFICES ASSUME NEW p \in Objects
                 PROVE  /\ rows'[Obj(p)].action \notin {"failed", None} => rows'[Obj(p)].fp = "object"
                        /\ rows'[Obj(p)].action = None => rows'[Obj(p)].tid = None
                        /\ rows'[Acl(p)].tid # None => rows'[Obj(p)].tid # None
      BY DEF Made
    <3>1. Made(rows)
      BY <1>2 DEF Base
    <3>2. /\ rows[Obj(p)].action \notin {"failed", None} => rows[Obj(p)].fp = "object"
          /\ rows[Obj(p)].action = None => rows[Obj(p)].tid = None
          /\ rows[Acl(p)].tid # None => rows[Obj(p)].tid # None
      BY <3>1 DEF Made
    <3>3. CASE p = o
      BY <1>0, <1>3, <1>6, <3>2, <3>3
    <3>4. CASE p # o
      BY <1>3, <3>2, <3>4
    <3> QED BY <3>3, <3>4
  <2>2. Advances(saved, rows')
    BY <1>2, <1>3 DEF Base, Advances
  <2>3. Concluded(pending', saved)
    <3>1. Concluded(pending, saved)
      BY <1>2 DEF Base
    <3> SUFFICES ASSUME NEW p \in Objects
                 PROVE  /\ pending'[Obj(p)] # NoOutcome =>
                              /\ pending'[Obj(p)].fp = "object"
                              /\ pending'[Obj(p)].action \notin {None, "skipped_no_object"}
                        /\ pending'[Acl(p)] # NoOutcome => pending'[Acl(p)].action # None
                        /\ pending'[Acl(p)].tid # None => saved[Obj(p)].tid # None
      BY DEF Concluded
    <3>2. /\ pending[Obj(p)] # NoOutcome =>
                 /\ pending[Obj(p)].fp = "object"
                 /\ pending[Obj(p)].action \notin {None, "skipped_no_object"}
          /\ pending[Acl(p)] # NoOutcome => pending[Acl(p)].action # None
          /\ pending[Acl(p)].tid # None => saved[Obj(p)].tid # None
      BY <3>1 DEF Concluded
    <3>3. CASE p = o
      BY <1>0, <1>3, <1>5, <1>6, <3>2, <3>3
    <3>4. CASE p # o
      BY <1>3, <3>2, <3>4
    <3> QED BY <3>3, <3>4
  <2>4. Kept(pending', cp, saved)
    <3> SUFFICES ASSUME NEW p \in Objects, Applied(pending'[Acl(p)]), cp[Obj(p)] = NoOutcome
                 PROVE  saved[Obj(p)].fp = "object"
      BY DEF Kept
    <3>1. CASE pending'[Acl(p)] = pending[Acl(p)]
      BY <1>2, <3>1 DEF Base, Kept
    <3>2. CASE p = o /\ rows[Obj(o)].tid # None
      BY <1>4, <1>5, <3>2
    <3>3. p = o => pending'[Acl(p)] = pending[Acl(p)] \/ rows[Obj(o)].tid # None
      BY <1>0, <1>6
    <3> QED BY <1>3, <3>1, <3>2, <3>3
  <2> QED BY <1>2, <2>0, <2>1, <2>2, <2>3, <2>4 DEF Base
<1>8. \A p \in Objects : /\ saved'[Obj(p)] = rows'[Obj(p)]
                         /\ cp'[Obj(p)] # NoOutcome \/ rows'[Obj(p)].action # "failed"
  BY <1>1, <1>3 DEF Apart, RowInv
<1> QED BY <1>1, <1>7, <1>8 DEF Apart, RowInv

(* A step of another unit, in the passes or before. *)
LEMMA AsideRows ==
    ASSUME RowInv, NEW k \in IdentityKeys, Books(k), UNCHANGED <<saved, cp>>,
           stage \in {"pass1", "pass2"}, stage' = stage
    PROVE  RowInv'
<1>1. \A o \in Objects : /\ rows'[Obj(o)] = rows[Obj(o)] /\ rows'[Acl(o)] = rows[Acl(o)]
                         /\ pending'[Obj(o)] = pending[Obj(o)]
                         /\ pending'[Acl(o)] = pending[Acl(o)]
  BY KeysOfObjects DEF Books
<1>2. Base(rows, saved, cp, pending)
  BY DEF RowInv
<1>3. Base(rows', saved', cp', pending')
  BY <1>1, <1>2, BaseAgrees
<1> QED BY <1>1, <1>3 DEF RowInv

(* A step that touches neither the rows nor an outcome that was written out. *)
LEMMA SameRows ==
    ASSUME RowInv, UNCHANGED <<rows, saved, cp, pending, todo, work>>,
           stage' = stage \/ stage' = "idle"
    PROVE  RowInv'
  BY DEF RowInv

LEMMA RowStep == Typed /\ RowInv /\ [Next]_vars => RowInv'
<1> SUFFICES ASSUME Typed, RowInv, [Next]_vars
             PROVE  RowInv'
  OBVIOUS
<1>a. Base(rows, saved, cp, pending)
  BY DEF RowInv
<1>b. /\ Base(rows, rows, cp, pending)
      /\ Base(rows, rows, Overlaid(cp, pending), NothingPending)
      /\ Base(rows, saved, Overlaid(cp, pending), NothingPending)
      /\ Base(saved, saved, cp, NothingPending)
  <2>1. Made(rows) /\ Made(saved) /\ Advances(saved, rows) /\ Advances(saved, saved)
    BY <1>a DEF Base, Advances
  <2>2. Base(rows, rows, cp, pending) /\ Base(saved, saved, cp, pending)
    BY <1>a, <2>1, BaseAdvances
  <2> QED BY <1>a, <2>2, BaseForgets, BaseWritten
<1>c. \A o \in Objects :
         /\ Overlaid(cp, pending)[Obj(o)] =
               IF pending[Obj(o)] = NoOutcome THEN cp[Obj(o)] ELSE pending[Obj(o)]
         /\ NothingPending[Acl(o)] = NoOutcome
  BY KeptApart, KeysOfObjects DEF Overlaid
<1>1. CASE StartRun
  BY <1>1, StartRows
<1>2. ASSUME NEW k \in IdentityKeys, ImportIdentity(k) \/ CreateLocalGroup(k)
      PROVE  RowInv'
  <2>1. Quietly(k) /\ Outside
    BY <1>2, IdentityQuietly, GroupQuietly
  <2> QED BY <2>1, AsideRows DEF Quietly, Grows, Outside
<1>3. CASE EndPass1
  BY <1>3, <1>b, <1>c DEF EndPass1, SaveCheckpoint, tables, RowInv
<1>4. CASE EndIdentity
  <2>1. Base(rows', saved', cp', pending') /\ stage' = "objects"
    BY <1>4, <1>b DEF EndIdentity, EnterPhase, SaveCheckpoint, SaveState
  <2>2. /\ todo' = ObjectKeys /\ work' = WorkList(ObjectKeys, rows) /\ rows' = rows
        /\ pending' = NothingPending
    BY <1>4 DEF EndIdentity, EnterPhase, SaveCheckpoint
  <2>3. \A o \in Objects : Obj(o) \notin work' => rows'[Obj(o)].action # "failed"
    BY <2>2, KeysOfObjects DEF WorkList, Retry
  <2> QED BY <1>c, <2>1, <2>2, <2>3, KeysOfObjects DEF RowInv
<1>5. CASE EndObjects
  <2>1. Base(rows', saved', cp', pending') /\ stage' = "acls"
    BY <1>5, <1>b DEF EndObjects, EnterPhase, SaveCheckpoint, SaveState
  <2>2. saved' = rows' /\ rows' = rows /\ cp' = Overlaid(cp, pending) /\ stage = "objects" /\ todo = {}
    BY <1>5 DEF EndObjects, EnterPhase, SaveCheckpoint, SaveState
  <2>3. \A o \in Objects : cp'[Obj(o)] # NoOutcome \/ rows'[Obj(o)].action # "failed"
    BY <1>c, <2>2 DEF RowInv
  <2> QED BY <2>1, <2>2, <2>3 DEF RowInv
<1>6. CASE EndAcls
  BY <1>6, <1>b DEF EndAcls, EnterPhase, SaveCheckpoint, SaveState, RowInv
<1>7. CASE Leave
  BY <1>7, SameRows DEF Leave, tables, memory
<1>8. ASSUME NEW g \in Groups, ApplyMembers(g)
      PROVE  RowInv'
  <2>1. Books(<<"group", g>>) /\ UNCHANGED <<saved, cp, stage>> /\ stage = "pass2"
    BY <1>8, MembersApplied DEF ApplyMembers, run
  <2> QED BY <2>1, KeysOfGroups, AsideRows
<1>9. ASSUME NEW g \in Groups, Provision(g)
      PROVE  RowInv'
  BY <1>9, SameRows DEF Provision, tables, run, memory
<1>10. ASSUME NEW o \in Objects, ImportObject(o) \/ ImportAcl(o)
       PROVE  RowInv'
  BY <1>10, ObjectRows, AclRows
<1>11. ASSUME NEW o \in Objects, DeleteObject(o)
       PROVE  RowInv'
  BY <1>11, SameRows DEF DeleteObject, tables, run, memory
<1>12. ASSUME NEW p \in Users \cup SPs, AssignElsewhere(p)
       PROVE  RowInv'
  BY <1>12, SameRows DEF AssignElsewhere, tables, run, memory
<1>13. CASE CheckpointBatch
  <2>1. /\ UNCHANGED <<rows, saved, stage, work, todo>>
        /\ cp' = Overlaid(cp, pending) /\ pending' = NothingPending
    BY <1>13 DEF CheckpointBatch, SaveCheckpoint, tables, run
  <2> QED BY <1>b, <1>c, <2>1 DEF RowInv
<1>14. CASE StateBatch
  <2>1. UNCHANGED <<rows, cp, pending, stage, work, todo>> /\ saved' = rows
    BY <1>14 DEF StateBatch, SaveState, run, memory
  <2> QED BY <1>b, <2>1 DEF RowInv
<1>15. CASE Crash
  <2>1. rows' = saved /\ saved' = saved /\ cp' = cp /\ pending' = NothingPending /\ stage' = "idle"
    BY <1>15 DEF Crash
  <2> QED BY <1>b, <2>1 DEF RowInv
<1>16. CASE UNCHANGED vars
  BY <1>16, SameRows DEF vars, tables, run, memory
<1> QED BY <1>1, <1>2, <1>3, <1>4, <1>5, <1>6, <1>7, <1>8, <1>9, <1>10, <1>11, <1>12, <1>13,
      <1>14, <1>15, <1>16 DEF Next

LEMMA HealInit == Init => HealInv
  BY DEF Init, HealInv

LEMMA ObjectHeals ==
    ASSUME Typed, OwnInv, RowInv, HealInv, NEW o \in Objects, ImportObject(o)
    PROVE  HealInv'
<1>0. PICK k \in Keys : k = Obj(o) /\ k = <<"object", o>> /\ k \in ObjectKeys
  BY KeysOfObjects DEF Obj
<1>1. Apart(k) /\ stage = "objects"
  BY <1>0, ObjectApart
<1>2. \A p \in Objects \ {o} :
         /\ rows'[Obj(p)] = rows[Obj(p)] /\ object'[p] = object[p]
         /\ Obj(p) \in todo' <=> Obj(p) \in todo
  <2>1. \A p \in Objects \ {o} : object'[p] = object[p]
    BY ObjectApart DEF Typed, Shape
  <2> QED BY <1>0, <1>1, <2>1, KeysOfObjects DEF Apart, Books
<1>3. Own(o, cp[Acl(o)].tid, object, nextId)
  BY DEF OwnInv, Tied
<1>4. CASE healed' = healed /\ acted \subseteq acted'
  <2>1. o \notin healed
    BY <1>0, <1>1 DEF HealInv, Apart
  <2>2. \A p \in healed : p \in Objects \ {o}
    BY <2>1 DEF HealInv, Typed, AccessTypeOK
  <2> QED BY <1>1, <1>2, <1>4, <2>2 DEF Apart, HealInv
<1>5. CASE Acts(o) /\ ~Resumable(k) /\ \E action, tid :
                   /\ action \in Success /\ Conclude(k, action, tid)
                   /\ tid # None /\ object'[o] = tid
                   /\ (mode = "full" /\ Applied(cp[Acl(o)]) => cp[Acl(o)].tid # tid)
  <2>1. PICK action, tid :
            /\ Conclude(k, action, tid) /\ tid # None /\ object'[o] = tid
            /\ mode = "full" /\ Applied(cp[Acl(o)]) => cp[Acl(o)].tid # tid
    BY <1>5
  <2>2. Conclude(k, action, tid)
    BY <2>1
  <2>3. rows'[k].tid = tid
    <3>1. rows'[k].tid = IF tid = None THEN rows[k].tid ELSE tid
      BY <2>2, ConcludeBooks
    <3> QED BY <2>1, <3>1
  <2>4. healed' = healed \cup {o} /\ acted' = acted \cup {o} /\ k \notin todo'
    BY <1>1, <1>5 DEF Acts, Apart
  <2>5. \A p \in healed : p \in Objects
    BY DEF HealInv, Typed, AccessTypeOK
  <2> QED BY <1>0, <1>1, <1>2, <2>1, <2>3, <2>4, <2>5 DEF Apart, HealInv
<1>6. CASE SetAside(k) /\ UNCHANGED <<acted, healed>>
  BY <1>4, <1>6
<1>7. CASE Restore(k) /\ healed' = healed
  <2>1. acted \subseteq acted'
    BY <1>0, <1>7 DEF ImportObject, Acts
  <2> QED BY <1>4, <1>7, <2>1
<1>8. CASE UNCHANGED <<acted, healed>>
  BY <1>4, <1>8
<1>9. CASE /\ k \in work /\ ~Resumable(k) /\ Exists(k) /\ Decide(k) # "skip"
           /\ \E action \in {"updated", "adopted"} : Conclude(k, action, object[o])
           /\ Acts(o) /\ object' = object
  <2>1. object[o] # None
    BY <1>0, <1>9 DEF Exists
  <2>2. ~(mode = "full" /\ Applied(cp[Acl(o)]))
    <3> SUFFICES ASSUME mode = "full", Applied(cp[Acl(o)])
                 PROVE  FALSE
      OBVIOUS
    <3>1. Base(rows, saved, cp, pending)
      BY DEF RowInv
    <3>2. cp[k] = NoOutcome
      BY <1>0, <1>9, <3>1 DEF Resumable, Base, Concluded
    <3>3. saved[Obj(o)].fp = "object"
      BY <1>0, <3>1, <3>2 DEF Base, Kept
    <3>4. rows[k].fp = "object"
      BY <1>0, <3>1, <3>3 DEF Base, Advances
    <3>5. rows[k] # NoRow
      BY <3>4, KeptApart DEF NoRow
    <3>6. Fp(k) = "object"
      BY <1>0 DEF Fp
    <3> QED BY <1>9, <3>4, <3>5, <3>6 DEF Decide
  <2>3. "updated" \in Success /\ "adopted" \in Success
    BY DEF Success
  <2>4. PICK action \in Success : Conclude(k, action, object[o])
    BY <1>9, <2>3
  <2> QED BY <1>5, <1>9, <2>1, <2>2, <2>4
<1>10. CASE /\ ~Resumable(k) /\ nextId \in Ids /\ object' = [object EXCEPT ![o] = nextId]
            /\ Conclude(k, "created", nextId) /\ Acts(o)
  <2>1. nextId \in Nat /\ nextId # None
    BY NoneAssumption DEF OwnInv
  <2>2. object'[o] = nextId
    BY <1>10 DEF Typed, Shape
  <2>3. cp[Acl(o)].tid # nextId
    BY <1>3, <2>1 DEF Own
  <2>4. "created" \in Success
    BY DEF Success
  <2> QED BY <1>5, <1>10, <2>1, <2>2, <2>3, <2>4
<1> QED BY <1>0, <1>6, <1>7, <1>8, <1>9, <1>10 DEF ImportObject

(* The grants of one object are written to nobody else's. *)
LEMMA AclGrants ==
    ASSUME Typed, NEW o \in Objects, ImportAcl(o)
    PROVE  \/ grants' = grants
           \/ grants' = [grants EXCEPT ![rows[Obj(o)].tid] = Body(o)]
<1>1. CASE ApplyAcl(<<"acl", o>>)
  <2>1. grants' = grants \/ \E clean : Put(<<"acl", o>>, clean)
    BY <1>1 DEF ApplyAcl
  <2>2. ASSUME NEW clean, Put(<<"acl", o>>, clean)
        PROVE  grants' = grants \/ grants' = [grants EXCEPT ![rows[Obj(o)].tid] = Body(o)]
    BY <2>2 DEF Put, TargetObject, Obj
  <2> QED BY <2>1, <2>2
<1> QED BY <1>1 DEF ImportAcl

LEMMA AclHeals ==
    ASSUME Typed, OwnInv, RowInv, HealInv, NEW o \in Objects, ImportAcl(o)
    PROVE  HealInv'
<1>0. PICK k \in Keys : k = Acl(o) /\ k = <<"acl", o>>
  BY KeysOfObjects DEF Acl
<1>1. /\ Apart(k) /\ stage = "acls" /\ UNCHANGED <<object, nextId, acted, healed>>
      /\ DOMAIN grants' = Ids
  BY <1>0, AclApart
<1>2. \A p \in Objects : /\ rows'[Obj(p)] = rows[Obj(p)]
                         /\ p # o => /\ rows'[Acl(p)] = rows[Acl(p)]
                                     /\ pending'[Acl(p)] = pending[Acl(p)]
                                     /\ Acl(p) \in todo' <=> Acl(p) \in todo
  BY <1>0, <1>1, KeysOfObjects DEF Apart, Books
<1>3. \A p \in Objects : Body(p)' = Body(p)
  BY <1>1 DEF Apart, Body, Resolvable, Source
<1>4. \A p \in healed : object[p] # None /\ rows[Obj(p)].tid = object[p] /\ object[p] \in Ids
  BY <1>1 DEF HealInv, Typed, AccessTypeOK
<1>5. ASSUME NEW p \in healed, p # o
      PROVE  grants'[object[p]] = grants[object[p]]
  <2>1. rows[Obj(o)].tid # object[p]
    <3>1. Own(o, rows[Obj(o)].tid, object, nextId) /\ p \in Objects
      BY DEF OwnInv, Tied, HealInv, Typed, AccessTypeOK
    <3> QED BY <1>4, <1>5, <3>1 DEF Own
  <2> QED BY <1>4, <2>1, AclGrants DEF Typed, Shape
<1>6. ASSUME NEW p \in healed, p # o, Acl(p) \notin todo'
      PROVE  Granted(p)'
  <2>1. Granted(p)
    BY <1>1, <1>2, <1>6 DEF HealInv, Typed, AccessTypeOK
  <2>2. p \in Objects
    BY DEF HealInv, Typed, AccessTypeOK
  <2>3. rows'[<<"acl", p>>] = rows[<<"acl", p>>]
    BY <1>2, <1>6, <2>2 DEF Acl
  <2> QED BY <1>1, <1>3, <1>5, <1>6, <2>1, <2>2, <2>3 DEF Granted
<1>7. ASSUME o \in healed
      PROVE  Granted(o)'
  <2>0. /\ k \in work /\ k \in todo /\ TargetObject(o) = object[o] /\ object[o] # None
        /\ object[o] \in Ids /\ ExistingId(k) = rows[k].tid
    <3>1. TargetObject(o) = rows[Obj(o)].tid /\ ExistingId(k) = rows[k].tid
      BY <1>0, AclIds
    <3> QED BY <1>0, <1>1, <1>4, <1>7, <3>1 DEF HealInv, Apart
  <2>1. Granted(o)' <=> \/ rows'[k].action \in {"failed", "skipped"}
                        \/ rows'[k].tid \notin {None, object[o]}
                        \/ Body(o) \subseteq grants'[object[o]]
    BY <1>0, <1>1, <1>3 DEF Granted
  <2>2. CASE Restore(k)
    <3>1. /\ rows'[k].action = cp[k].action
          /\ rows'[k].tid = IF cp[k].tid = None THEN rows[k].tid ELSE cp[k].tid
      BY <2>2, RecordedIs DEF Restore, Typed, Shape
    <3>2. mode = "full" /\ Applied(cp[k])
      BY <2>2 DEF Restore, Resumable, Applied
    <3>3. cp[k].tid # object[o]
      BY <1>0, <1>1, <1>7, <2>0, <3>2 DEF HealInv
    <3>4. cp[k].tid = None => cp[k].action = "failed"
      <4>1. cp[k].action # None
        BY <1>0, <3>2 DEF RowInv, Base, Concluded, Applied
      <4>2. Answered(cp[k])
        BY <1>0 DEF OwnInv, Tied
      <4> QED BY <3>2, <4>1, <4>2 DEF Applied, Answered
    <3> QED BY <2>1, <3>1, <3>3, <3>4
  <2>3. CASE Conclude(k, "skipped", ExistingId(k))
    <3>1. rows'[k].action = "skipped"
      BY <2>3, ConcludeBooks
    <3> QED BY <2>1, <3>1
  <2>4. CASE ApplyAcl(k)
    <3>1. k[2] = o
      BY <1>0
    <3>2. PICK clean : Put(k, clean)
      BY <2>0, <2>4, <3>1 DEF ApplyAcl
    <3>3. CASE Body(o) = {}
      BY <2>1, <3>3
    <3>4. CASE grants' = [grants EXCEPT ![TargetObject(o)] = Body(o)]
      <4>1. grants'[object[o]] = Body(o)
        BY <2>0, <3>4 DEF Typed, Shape
      <4> QED BY <2>1, <4>1
    <3>5. CASE Conclude(k, "failed", ExistingId(k))
      <4>1. rows'[k].action = "failed"
        BY <3>5, ConcludeBooks
      <4> QED BY <2>1, <4>1
    <3> QED BY <3>1, <3>2, <3>3, <3>4, <3>5 DEF Put
  <2> QED BY <1>0, <2>0, <2>2, <2>3, <2>4 DEF ImportAcl, SetAside
<1>8. \A p \in healed : Acl(p) \notin todo' => Granted(p)'
  BY <1>6, <1>7
<1>9. ASSUME NEW p \in Objects, Acl(p) \in todo'
      PROVE  pending'[Acl(p)] = NoOutcome /\ p # o /\ Acl(p) \in todo
  BY <1>0, <1>1, <1>2, <1>9 DEF Apart, HealInv
<1>10. ASSUME mode' = "full", NEW p \in healed, Acl(p) \in todo', Applied(cp'[Acl(p)])
       PROVE  cp'[Acl(p)].tid # object'[p]
  BY <1>1, <1>9, <1>10 DEF Apart, HealInv, Typed, AccessTypeOK
<1> QED BY <1>1, <1>2, <1>4, <1>8, <1>9, <1>10 DEF Apart, HealInv, Typed, AccessTypeOK

(* A step that leaves the phase as it is, but for what it may write out. *)
Unhealed ==
    /\ UNCHANGED <<world, object, grants, rows, idmap, bundle, mode, work, todo, acted, healed, stage>>
    /\ \/ UNCHANGED <<cp, pending>>
       \/ cp' = Overlaid(cp, pending) /\ pending' = NothingPending

LEMMA UnhealedKept ==
    ASSUME Typed, RowInv, HealInv, Unhealed
    PROVE  HealInv'
<1>1. \A o \in Objects : Granted(o)' <=> Granted(o)
  BY DEF Unhealed, Granted, Body, Resolvable, Source
<1>2. \A o \in healed : o \in Objects
  BY DEF HealInv, Typed, AccessTypeOK
<1>3. \A o \in Objects : pending[Acl(o)] = NoOutcome =>
          pending'[Acl(o)] = NoOutcome /\ cp'[Acl(o)] = cp[Acl(o)]
  BY KeysOfObjects, KeptApart DEF Unhealed, Overlaid
<1>4. stage = "objects" => \A o \in Objects : pending[Acl(o)] = NoOutcome
  BY DEF RowInv
<1>5. stage = "acls" => \A o \in Objects : Acl(o) \in todo => pending[Acl(o)] = NoOutcome
  BY DEF HealInv
<1>6. ASSUME stage \in {"objects", "acls"}, mode = "full", NEW o \in healed,
             stage = "acls" => Acl(o) \in todo, Applied(cp'[Acl(o)])
      PROVE  cp'[Acl(o)].tid # object[o]
  <2>1. cp'[Acl(o)] = cp[Acl(o)]
    BY <1>2, <1>3, <1>4, <1>5, <1>6
  <2> QED BY <1>6, <2>1 DEF HealInv
<1> QED BY <1>1, <1>2, <1>3, <1>6 DEF Unhealed, HealInv

LEMMA HealStep == Typed /\ OwnInv /\ RowInv /\ HealInv /\ [Next]_vars => HealInv'
<1> SUFFICES ASSUME Typed, OwnInv, RowInv, HealInv, [Next]_vars
             PROVE  HealInv'
  OBVIOUS
<1>0. \A o \in healed : o \in Objects
  BY DEF HealInv, Typed, AccessTypeOK
<1>1. CASE StartRun
  BY <1>1 DEF StartRun, HealInv
<1>2. ASSUME NEW k \in IdentityKeys, ImportIdentity(k) \/ CreateLocalGroup(k)
      PROVE  HealInv'
  <2>1. Quietly(k) /\ Outside
    BY <1>2, IdentityQuietly, GroupQuietly
  <2> QED BY <2>1 DEF Quietly, Grows, Outside, HealInv
<1>3. CASE EndPass1
  BY <1>3 DEF EndPass1, HealInv
<1>4. CASE EndIdentity
  BY <1>4 DEF EndIdentity, EnterPhase, HealInv
<1>5. CASE EndObjects
  <2>1. /\ stage = "objects" /\ stage' = "acls" /\ todo = {} /\ todo' = AclKeys
        /\ work' = WorkList(AclKeys, rows) \cup Following
        /\ UNCHANGED <<object, rows, acted, healed, mode>>
        /\ cp' = Overlaid(cp, pending) /\ pending' = NothingPending
    BY <1>5 DEF EndObjects, EnterPhase, SaveCheckpoint, target
  <2>2. \A o \in Objects : pending[Acl(o)] = NoOutcome
    BY <2>1 DEF RowInv
  <2>3. \A o \in Objects : cp'[Acl(o)] = cp[Acl(o)] /\ pending'[Acl(o)] = NoOutcome
                           /\ Acl(o) \in todo'
    BY <2>1, <2>2, KeysOfObjects, KeptApart DEF Overlaid
  <2>4. \A o \in healed : Acl(o) \in work'
    BY <2>1 DEF Following, Acl, HealInv
  <2> QED BY <1>0, <2>1, <2>3, <2>4 DEF HealInv
<1>6. CASE EndAcls
  <2>1. /\ stage = "acls" /\ stage' = "done" /\ todo = {}
        /\ UNCHANGED <<world, bundle, idmap, object, grants, rows, acted, healed>>
    BY <1>6 DEF EndAcls, EnterPhase, target
  <2>2. \A o \in Objects : Granted(o)' <=> Granted(o)
    BY <2>1 DEF Granted, Body, Resolvable, Source
  <2> QED BY <1>0, <2>1, <2>2 DEF HealInv
<1>7. CASE Leave
  BY <1>7 DEF Leave, memory, HealInv
<1>8. ASSUME NEW g \in Groups, ApplyMembers(g)
      PROVE  HealInv'
  BY <1>8 DEF ApplyMembers, run, HealInv
<1>9. ASSUME NEW g \in Groups, Provision(g)
      PROVE  HealInv'
  <2>1. Unhealed
    BY <1>9 DEF Provision, tables, run, memory, Unhealed
  <2> QED BY <2>1, UnhealedKept
<1>10. ASSUME NEW o \in Objects, ImportObject(o) \/ ImportAcl(o)
       PROVE  HealInv'
  BY <1>10, ObjectHeals, AclHeals
<1>11. ASSUME NEW o \in Objects, DeleteObject(o)
       PROVE  HealInv'
  BY <1>11 DEF DeleteObject, run, memory, HealInv
<1>12. ASSUME NEW p \in Users \cup SPs, AssignElsewhere(p)
       PROVE  HealInv'
  BY <1>12 DEF AssignElsewhere, run, memory, HealInv
<1>13. CASE CheckpointBatch
  <2>1. Unhealed
    BY <1>13 DEF CheckpointBatch, SaveCheckpoint, target, tables, run, Unhealed
  <2> QED BY <2>1, UnhealedKept
<1>14. CASE StateBatch
  <2>1. Unhealed
    BY <1>14 DEF StateBatch, SaveState, target, run, memory, Unhealed
  <2> QED BY <2>1, UnhealedKept
<1>15. CASE Crash
  BY <1>15 DEF Crash, HealInv
<1>16. CASE UNCHANGED vars
  <2>1. Unhealed
    BY <1>16 DEF vars, target, tables, run, memory, Unhealed
  <2> QED BY <2>1, UnhealedKept
<1> QED BY <1>1, <1>2, <1>3, <1>4, <1>5, <1>6, <1>7, <1>8, <1>9, <1>10, <1>11, <1>12, <1>13,
      <1>14, <1>15, <1>16 DEF Next

LEMMA DoneWithTodo ==
    (stage = "done" => todo = {}) /\ [Next]_vars => (stage = "done" => todo = {})'
<1> SUFFICES ASSUME stage = "done" => todo = {}, [Next]_vars, stage' = "done"
             PROVE  todo' = {}
  OBVIOUS
<1>1. CASE EndAcls
  BY <1>1 DEF EndAcls, EnterPhase
<1>2. CASE UNCHANGED vars
  BY <1>2 DEF vars, run, memory
<1>3. ASSUME NEW k \in IdentityKeys, ImportIdentity(k) \/ CreateLocalGroup(k)
      PROVE  FALSE
  BY <1>3 DEF ImportIdentity, InPass1, CreateLocalGroup, run
<1>4. ASSUME NEW o \in Objects, ImportObject(o) \/ ImportAcl(o) \/ DeleteObject(o)
      PROVE  FALSE
  BY <1>4 DEF ImportObject, ImportAcl, InPhase, DeleteObject, PeopleAct, run
<1>5. ASSUME NEW g \in Groups, ApplyMembers(g) \/ Provision(g)
      PROVE  FALSE
  BY <1>5 DEF ApplyMembers, Provision, PeopleAct, run
<1> QED BY <1>1, <1>2, <1>3, <1>4, <1>5 DEF Next, StartRun, EndPass1, EndIdentity, EndObjects,
      EnterPhase, Leave, AssignElsewhere, PeopleAct, CheckpointBatch, StateBatch, CrashAhead,
      Working, Crash, run

(* A healed object comes back with its grants, in a full run as in a retry:
   retry_keys_following, _resume_from_checkpoint and the fingerprint of the ACL's row
   leave no other way for it to be passed over.                                    *)
THEOREM HealedKeepTheirGrants == Spec => []HealedObjectsHaveTheirGrants
<1>1. Typed /\ HealInv /\ (stage = "done" => todo = {}) => HealedObjectsHaveTheirGrants
  <2> SUFFICES ASSUME Typed, HealInv, stage = "done", todo = {}, NEW o \in healed
               PROVE  Granted(o)
    BY DEF HealedObjectsHaveTheirGrants, Granted
  <2> QED BY DEF HealInv
<1>2. Init => (stage = "done" => todo = {})
  BY DEF Init
<1> QED BY <1>1, <1>2, TypedInit, TypedStep, OwnInit, OwnStep, RowInit, RowStep, HealInit,
      HealStep, DoneWithTodo, PTL DEF Spec
=============================================================================
