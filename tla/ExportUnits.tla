----------------------------- MODULE ExportUnits -----------------------------
(* src/exporters/asset_export.py: which units an inventory record becomes, what
   export records of each (`export_status`) and what it announces that the
   target side will do (`import_action`).

   A record is [kind, class, traits]: what the collectors found, the identity
   classification ("" for anything but identities), and the facts the builders
   test: "dab" (bundle-owned), "internal" (a platform folder), "bundle_root"
   (inside a bundle's folder), "twin" (its native asset is exported), "dbfs",
   "keyvault", "no_source", "unserialized", "unservable", "published".       *)
EXTENDS FiniteSets

Unit(type, mode, r) ==
    [type |-> type, mode |-> mode, class |-> r.class, traits |-> r.traits]

DabOr(r, mode) == IF "dab" \in r.traits THEN "dab" ELSE mode

(* Built-in groups exist on the target: only their membership is work. *)
IdentityUnits(r) ==
    IF r.kind = "group" /\ r.class = "system"
    THEN {Unit("group", "covered", r), Unit("group_membership", "auto", r)}
    ELSE {Unit(r.kind, "auto", r)}

ComputeUnits(r) ==
    {Unit(r.kind, IF r.kind = "cluster_policy" THEN "auto" ELSE DabOr(r, "auto"), r)}

ContentTypes == {"notebook", "workspace_file"}

WorkspaceUnits(r) ==
    {Unit(r.kind,
          CASE r.kind = "directory"      -> "auto"
            [] r.kind \in ContentTypes   -> "content"
            [] r.kind \in {"lakeview_dashboard_file", "alert_v2_file"} ->
                 IF "twin" \in r.traits THEN "covered" ELSE DabOr(r, "manual")
            [] OTHER                     -> "manual",   \* repo, experiment, library
          r)}

(* A value can never be read: every key of a scope is manual work. *)
SecretUnits(r) ==
    {Unit("secret_scope", DabOr(r, IF "keyvault" \in r.traits THEN "manual" ELSE "auto"), r),
     Unit("secret_value", "manual", r)}

SqlUnits(r) ==
    {Unit(r.kind, CASE r.kind = "legacy_query" -> "auto"
                    [] r.kind = "legacy_alert" -> "manual"
                    [] OTHER                   -> DabOr(r, "auto"), r)}

PipelineUnits(r) ==
    {Unit(r.kind, DabOr(r, IF "no_source" \in r.traits THEN "manual" ELSE "auto"), r)}

(* Publish state and schedules are units of their own, of published dashboards only. *)
DashboardUnits(r) ==
    {Unit("lakeview_dashboard", DabOr(r, "auto"), r)}
      \cup IF "published" \notin r.traits THEN {}
           ELSE {Unit(t, DabOr(r, "auto"), r) :
                   t \in {"lakeview_dashboard_publish", "lakeview_dashboard_schedule"}}

(* A space whose definition the API withheld is manual, bundle-owned or not. *)
GenieUnits(r) ==
    {Unit(r.kind, IF "unserialized" \in r.traits THEN "manual" ELSE DabOr(r, "auto"), r)}

ServingUnits(r) ==
    {Unit(r.kind, DabOr(r, IF "unservable" \in r.traits THEN "manual" ELSE "auto"), r)}

MiscUnits(r) ==
    {Unit(r.kind, IF r.kind = "cluster_library" /\ "dbfs" \in r.traits
                  THEN "manual" ELSE "auto", r)}

JobUnits(r) == {Unit("job", DabOr(r, "auto"), r)}

ManualUnits(r) == {Unit(r.kind, "manual", r)}      \* apps and lakebase projects

IdentityKinds == {"user", "service_principal", "group"}
ComputeKinds == {"instance_pool", "cluster_policy", "cluster"}
WorkspaceKinds == ContentTypes \cup {"directory", "repo", "lakeview_dashboard_file",
                                     "alert_v2_file", "mlflow_experiment", "workspace_library"}
SqlKinds == {"sql_warehouse", "legacy_query", "legacy_alert", "legacy_dashboard", "alert_v2"}
MiscKinds == {"global_init_script", "cluster_library", "workspace_conf"}
Kinds == IdentityKinds \cup ComputeKinds \cup WorkspaceKinds \cup SqlKinds \cup MiscKinds
           \cup {"secret_scope", "job", "dlt_pipeline", "lakeview_dashboard", "genie_space",
                 "serving_endpoint", "app", "lakebase_project"}

BuildUnits(r) ==
    CASE r.kind \in IdentityKinds           -> IdentityUnits(r)
      [] r.kind \in ComputeKinds            -> ComputeUnits(r)
      [] r.kind \in WorkspaceKinds          -> WorkspaceUnits(r)
      [] r.kind = "secret_scope"            -> SecretUnits(r)
      [] r.kind = "job"                     -> JobUnits(r)
      [] r.kind \in SqlKinds                -> SqlUnits(r)
      [] r.kind = "dlt_pipeline"            -> PipelineUnits(r)
      [] r.kind = "lakeview_dashboard"      -> DashboardUnits(r)
      [] r.kind = "genie_space"             -> GenieUnits(r)
      [] r.kind = "serving_endpoint"        -> ServingUnits(r)
      [] r.kind \in MiscKinds               -> MiscUnits(r)
      [] OTHER                              -> ManualUnits(r)

(* --- export_status and import_action --------------------------------------- *)

ModeStatus(mode) == IF mode \in {"auto", "content"} THEN "success" ELSE mode

ToggledOff(u, off) == u.type \in off

InitialStatus(u, off) == IF ToggledOff(u, off) THEN "skip" ELSE ModeStatus(u.mode)

(* The bytes of these units are fetched; platform folders are Databricks' own. *)
Fetched(u, off) ==
    u.type \in ContentTypes /\ ~ToggledOff(u, off) /\ "internal" \notin u.traits

Statuses == {"success", "failure", "skip", "skipped_oversize", "dab", "manual", "covered"}

PathTypes == ContentTypes \cup {"directory"}

ActionByClass(u) ==
    CASE u.class = "account"          -> IF u.type = "group" THEN "assign_on_target"
                                                             ELSE "adopt_or_assign"
      [] u.class = "workspace_local"  -> "create"
      [] u.class = "system"           -> "add_members"
      [] u.class = "system_generated" -> "skip_generated"
      [] OTHER                        -> "review_required"

ActionByMode(u) ==
    CASE u.mode = "auto"    -> CASE u.type = "cluster_library" -> "install"
                                 [] u.type = "workspace_conf"  -> "set_conf"
                                 [] OTHER                      -> "create"
      [] u.mode = "content" -> "create_and_upload"
      [] u.mode = "dab"     -> "dab_redeploy"
      [] u.mode = "covered" -> "via_native_asset"
      [] OTHER              -> "manual"

(* Early returns: the first that applies. *)
ImportAction(u, status) ==
    IF status \in {"skip", "failure"} THEN "none"
    ELSE IF status = "skipped_oversize" THEN "manual"
    ELSE IF u.type \in PathTypes /\ "internal" \in u.traits THEN "skip_internal"
    ELSE IF u.type \in PathTypes /\ u.traits \cap {"bundle_root", "dab"} # {} THEN "dab_redeploy"
    ELSE IF u.type = "group_membership" THEN "add_members"
    ELSE IF u.class # "" /\ u.mode # "dab" THEN ActionByClass(u)
    ELSE ActionByMode(u)

(* Only these units are written, with their payload, to the artifact files. *)
InArtifactFile(u, status) == u.mode \in {"auto", "content"} /\ status # "skip"

(* The actions by which import itself changes the target workspace. *)
Performed == {"create", "create_and_upload", "adopt_or_assign", "assign_on_target",
              "add_members", "install", "set_conf"}
Actions == Performed \cup {"none", "manual", "via_native_asset", "dab_redeploy",
                           "skip_internal", "skip_generated", "review_required"}
===============================================================================
