----------------------------- MODULE MCImportRun ------------------------------
(* ImportRun on a warehouse, a job, a dashboard and its publish state. *)
EXTENDS ImportRun

MCUnits == {"warehouse", "job", "dashboard", "published"}
MCType == [u \in MCUnits |->
    CASE u = "warehouse" -> "sql_warehouse" [] u = "job" -> "job"
      [] u = "dashboard" -> "lakeview_dashboard" [] u = "published" -> "lakeview_dashboard_publish"]
MCRefs == [u \in MCUnits |-> IF u = "warehouse" THEN {} ELSE {"warehouse"}]
MCParent == [u \in {"published"} |-> "dashboard"]

Healthy == [skipVerify |-> FALSE, enforce |-> TRUE, manifest |-> "whole", pointer |-> "matches",
            staging |-> "listed", admin |-> TRUE, direct |-> TRUE, sourceReadable |-> TRUE,
            table |-> TRUE, groups |-> {"present"}, groupsListed |-> "twice",
            warehouses |-> "none", gaps |-> {"uc"}]

Whole(f) == [sel |-> Families, mode |-> "off", facts |-> f]
Part(families) == [Whole(Healthy) EXCEPT !.sel = families]

(* Everything; a retry; one family at a time; jobs with what the gate asks for; a torn
   manifest of a run named by hand; the pointer of another export. *)
MCSettings == {Whole(Healthy), [Whole(Healthy) EXCEPT !.mode = "failed_only"],
               Part({"identity", "sql"}), Part({"dashboards"}),
               Part({"identity", "compute", "workspace", "jobs"}),
               Whole([Healthy EXCEPT !.manifest = "torn", !.pointer = "other run"]),
               Whole([Healthy EXCEPT !.pointer = "mismatch"])}
WholeOnly == {Whole(Healthy)}
===============================================================================
