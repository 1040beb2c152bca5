---------------------------- MODULE MCImportEngine ----------------------------
(* The small worlds in which TLC runs ImportEngine. *)
EXTENDS ImportEngine

(* Two units of one type with names of their own. *)
Job(n) == <<"job", n>>
TwoJobs == {Job("a"), Job("b")}
OneJob == {Job("a")}

(* An instance pool and a cluster of the compute family with one name: of these
   RowsNameOwnObjects is false. *)
PoolAndCluster == {<<"instance_pool", "etl">>, <<"cluster", "etl">>}

(* One unit of each special kind. *)
Members == <<"group_membership", "admins">>
Publish == <<"lakeview_dashboard_publish", "d">>
Internal == <<"directory", ".db_internal">>
AppliedUnits == {Members, Publish, Internal}
OneMembers == {Members}
MembersFirst == <<Members>>
OnePublish == {Publish}
OneInternal == {Internal}
Nothing == <<>>

KeysOf(units) == {"live", "dry"} \X units
TwoJobKeys == KeysOf(TwoJobs)
PoolAndClusterKeys == KeysOf(PoolAndCluster)
AppliedKeys == KeysOf(AppliedUnits)
OneJobKeys == KeysOf(OneJob)

Setting(mode, retry, force, selected) ==
    [mode |-> mode, retry |-> retry, force |-> force, selected |-> selected]

FullRuns == {Setting("live", "off", FALSE, TRUE)}
FullAndRetryRuns == FullRuns \cup {Setting("live", "failed_only", FALSE, TRUE)}
FullRetryAndForcedRuns == FullAndRetryRuns \cup {Setting("live", "off", TRUE, TRUE)}
RehearsedRuns == {Setting(m, "off", FALSE, TRUE) : m \in {"live", "dry"}}
DeferringRuns == FullRuns \cup {Setting("live", "off", FALSE, FALSE),
                                Setting("live", "skipped_only", FALSE, TRUE)}
MixedRuns == DeferringRuns \cup RehearsedRuns
===============================================================================
