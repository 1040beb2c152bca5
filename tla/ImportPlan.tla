------------------------------ MODULE ImportPlan ------------------------------
(* What an import decides before it touches the target: the order of the phases,
   the prerequisites of a selection of families, which assets name which others,
   and the verdict of the preflight checks over the facts they find.            *)
EXTENDS Naturals, FiniteSets

(* --- families, phases, prerequisites ---------------------------------------- *)

(* Defect: jobs come before what their tasks trigger, as they once did. *)
PhaseOrderJobsEarly == <<"identity", "compute", "workspace", "secrets", "jobs", "sql", "dlt",
                         "dashboards", "genie", "serving", "misc", "acls">>

PhaseOrder == <<"identity", "compute", "workspace", "secrets", "sql", "dlt", "jobs",
                "dashboards", "genie", "serving", "misc", "acls">>

Families == {PhaseOrder[i] : i \in DOMAIN PhaseOrder}
Rank == [f \in Families |-> CHOOSE i \in DOMAIN PhaseOrder : PhaseOrder[i] = f]

Prerequisites(f) ==
    CASE f \in {"compute", "workspace", "secrets", "sql", "serving", "acls"} -> {"identity"}
      [] f = "jobs"                    -> {"identity", "compute", "workspace"}
      [] f = "dlt"                     -> {"identity", "compute", "workspace", "sql"}
      [] f \in {"dashboards", "genie"} -> {"sql"}
      [] f = "misc"                    -> {"compute"}
      [] f = "identity"                -> {}

(* The asset types of a family, in the order its importer loads them. *)
FamilyTypes(f) ==
    CASE f = "identity"   -> <<"user", "service_principal", "group", "group_membership">>
      [] f = "compute"    -> <<"instance_pool", "cluster_policy", "cluster">>
      [] f = "workspace"  -> <<"directory", "notebook", "workspace_file", "repo">>
      [] f = "secrets"    -> <<"secret_scope", "secret_value">>
      [] f = "jobs"       -> <<"job">>
      [] f = "sql"        -> <<"sql_warehouse", "legacy_query", "legacy_alert", "alert_v2",
                               "legacy_dashboard">>
      [] f = "dlt"        -> <<"dlt_pipeline">>
      [] f = "dashboards" -> <<"lakeview_dashboard", "lakeview_dashboard_publish",
                               "lakeview_dashboard_schedule">>
      [] f = "genie"      -> <<"genie_space">>
      [] f = "serving"    -> <<"serving_endpoint">>
      [] f = "misc"       -> <<"global_init_script", "cluster_library", "workspace_conf">>
      [] f = "acls"       -> <<"acl">>

TypesOf(f) == {FamilyTypes(f)[i] : i \in DOMAIN FamilyTypes(f)}
AssetTypes == UNION {TypesOf(f) : f \in Families}
FamilyOf == [t \in AssetTypes |-> CHOOSE f \in Families : t \in TypesOf(f)]
TypeRank == [t \in AssetTypes |-> CHOOSE i \in DOMAIN FamilyTypes(FamilyOf[t]) :
                                     FamilyTypes(FamilyOf[t])[i] = t]

(* Loaded earlier by the importer of the same family. *)
LoadedBefore(t, s) == FamilyOf[t] = FamilyOf[s] /\ TypeRank[t] < TypeRank[s]

(* ordered(): the first of the families still to run. *)
FirstOf(families) == CHOOSE f \in families : \A g \in families : Rank[f] <= Rank[g]

(* validate_selection(): families neither selected nor recorded by an earlier run. *)
UnmetPrerequisites(selected, recorded) ==
    UNION {Prerequisites(f) : f \in selected} \ (selected \cup recorded)

(* --- which assets carry another object's id ---------------------------------- *)

(* A policy may pin pools; a cluster, the ones a job or a pipeline brings too, may draw
   from a pool and follow a policy. *)
PolicyRefs == {"instance_pool"}
ClusterRefs == {"instance_pool", "cluster_policy"}

(* Everything that runs SQL names its warehouse. *)
WarehouseRefs == {"sql_warehouse"}
QueryRefs == WarehouseRefs
AlertRefs == WarehouseRefs
LegacyAlertRefs == WarehouseRefs \cup {"legacy_query"}
DashboardRefs == WarehouseRefs
PublishRefs == WarehouseRefs
ScheduleRefs == WarehouseRefs
GenieRefs == WarehouseRefs

PipelineRefs == ClusterRefs

(* A task runs on a cluster and may run a query, a pipeline or another job. *)
TaskRefs == WarehouseRefs \cup {"legacy_query", "dlt_pipeline", "job"}
JobRefs == ClusterRefs \cup {"cluster"} \cup TaskRefs

ReferencedTypes(t) ==
    CASE t = "cluster_policy"                -> PolicyRefs
      [] t = "cluster"                       -> ClusterRefs
      [] t = "legacy_query"                  -> QueryRefs
      [] t = "alert_v2"                      -> AlertRefs
      [] t = "legacy_alert"                  -> LegacyAlertRefs
      [] t = "dlt_pipeline"                  -> PipelineRefs
      [] t = "job"                           -> JobRefs
      [] t = "lakeview_dashboard"            -> DashboardRefs
      [] t = "lakeview_dashboard_publish"    -> PublishRefs
      [] t = "lakeview_dashboard_schedule"   -> ScheduleRefs
      [] t = "genie_space"                   -> GenieRefs
      [] OTHER                               -> {}

(* --- preflight ----------------------------------------------------------------- *)

Grades == {"BLOCKING", "DEGRADING", "COSMETIC"}
Verdicts == {"GO", "GO-WITH-WARNINGS", "NO-GO"}

(* What the checks read.  manifest: whole, incomplete (files missing or corrupt), torn
   (not JSON), absent.  groups: account groups of the bundle.  groupsListed: both
   listings of the target's groups, the first only, or none.                       *)
Facts == [skipVerify : BOOLEAN, enforce : BOOLEAN,
          manifest : {"whole", "incomplete", "torn", "absent"},
          pointer : {"matches", "other run", "mismatch", "none"},
          staging : {"listed", "empty", "unreadable"},
          admin : BOOLEAN, direct : BOOLEAN, sourceReadable : BOOLEAN,
          table : BOOLEAN,
          groups : SUBSET {"present", "absent", "shadowed"},
          groupsListed : {"twice", "once", "never"},
          warehouses : {"some", "none", "unreadable"},
          gaps : SUBSET {"akv", "uc", "paths", "repos", "legacy dashboards"}]

Finding(ok, grade) == [ok |-> ok, grade |-> grade]

(* A check that raises becomes a DEGRADING finding: run() must not hide the others. *)
CheckBroke == {Finding(FALSE, "DEGRADING")}

CheckBundle(f) ==
    IF f.skipVerify THEN {Finding(TRUE, "DEGRADING")}
    ELSE IF f.manifest = "torn" THEN CheckBroke
    ELSE {Finding(f.manifest = "whole", "BLOCKING")}

CheckStaging(f) == {Finding(f.staging = "listed", "BLOCKING")}
CheckTargetAdmin(f) == {Finding(f.admin, "BLOCKING")}
CheckSource(f) == {Finding(f.direct => f.sourceReadable, "BLOCKING")}

(* A live import: a table that cannot be reached or loaded blocks it. *)
CheckStateTable(f) == {Finding(f.table, "BLOCKING")}

(* The kinds of the target's groups come from a second listing, whose failure is only
   logged: then no group is seen to be shadowed, and a shadowed one counts as present. *)
CheckAccountGroups(f) ==
    IF f.groups = {} THEN {Finding(TRUE, "DEGRADING")}
    ELSE IF f.groupsListed = "never" THEN {Finding(FALSE, "BLOCKING")}
    ELSE {Finding(~(f.groupsListed = "twice" /\ "shadowed" \in f.groups), "BLOCKING"),
          Finding("absent" \notin f.groups, "DEGRADING")}

(* Being an account admin is optional: the check only reports. *)
CheckAccountAdmin(f) == {Finding(TRUE, "DEGRADING")}

CheckWarehouses(f) == {Finding(f.warehouses = "some", "DEGRADING")}

(* Azure Key Vault scopes, Unity Catalog references, unresolvable notebook paths, Git
   repositories; legacy dashboards affect nothing else. *)
CheckGaps(f) ==
    {Finding(g \notin f.gaps, "DEGRADING") : g \in {"akv", "uc", "paths", "repos"}}
       \cup {Finding("legacy dashboards" \notin f.gaps, "COSMETIC")}

Findings(f) ==
    CheckBundle(f) \cup CheckStaging(f) \cup CheckTargetAdmin(f) \cup CheckSource(f)
      \cup CheckStateTable(f) \cup CheckAccountGroups(f) \cup CheckAccountAdmin(f)
      \cup CheckWarehouses(f) \cup CheckGaps(f)

Verdict(f) ==
    IF Finding(FALSE, "BLOCKING") \in Findings(f) THEN "NO-GO"
    ELSE IF Finding(FALSE, "DEGRADING") \in Findings(f) THEN "GO-WITH-WARNINGS"
    ELSE "GO"

(* --- the runner's own gates ------------------------------------------------------ *)

(* Defect: the preflight's look at the manifest is trusted. *)
VerifyBundleByVerdict(f) == f.skipVerify \/ Verdict(f) # "NO-GO"

VerifyBundle(f) == f.skipVerify \/ f.manifest = "whole"

(* A pointer to another run is only noted.  With the verification skipped, a torn manifest
   still cannot be compared, and an absent one matches no checksum. *)
PointerMatches(f) ==
    \/ f.pointer \in {"none", "other run"}
    \/ f.pointer = "matches" /\ f.manifest \in {"whole", "incomplete"}

EnforcePreflight(f) == ~(f.enforce /\ Verdict(f) = "NO-GO")

GatesOpen(f) == VerifyBundle(f) /\ PointerMatches(f) /\ EnforcePreflight(f)
=============================================================================
