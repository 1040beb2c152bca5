----------------------------- MODULE MCExportRun -----------------------------
(* ExportRun on small inventories: two files, with names of their own or one
   name for both, and one inventory for each kind of record there is.         *)
EXTENDS ExportRun

Plain(kind) == [kind |-> kind, class |-> "", traits |-> {}]
With(kind, traits) == [kind |-> kind, class |-> "", traits |-> traits]
Identity(kind, class) == [kind |-> kind, class |-> class, traits |-> {}]

Classes == {"account", "workspace_local", "system", "system_generated", "needs_review"}

Survey ==
    {Plain(k) : k \in Kinds \ IdentityKinds}
    \cup {Identity(k, c) : k \in IdentityKinds, c \in Classes}
    \cup {With(k, {"dab"}) : k \in {"cluster", "job", "alert_v2", "dlt_pipeline", "genie_space",
          "secret_scope", "serving_endpoint", "alert_v2_file", "notebook", "directory"}}
    \cup {With("directory", {"internal"}), With("notebook", {"internal"}),
          With("workspace_file", {"bundle_root"}), With("alert_v2_file", {"twin"}),
          With("secret_scope", {"keyvault"}), With("dlt_pipeline", {"no_source"}),
          With("genie_space", {"unserialized", "dab"}), With("serving_endpoint", {"unservable"}),
          With("cluster_library", {"dbfs"}), With("lakeview_dashboard", {"published"}),
          With("lakeview_dashboard", {"published", "dab"})}

MCItems == {"a", "b"}
MCStems == {"n", "m"}
Apart == [i \in MCItems |-> IF i = "a" THEN "n" ELSE "m"]
Alike == [i \in MCItems |-> "n"]

Files == [i \in MCItems |-> Plain(IF i = "a" THEN "notebook" ELSE "workspace_file")]

World(record, stem) == [record |-> record, stem |-> stem]

MCWorlds ==
    {World(Files, Apart), World(Files, Alike)}
      \cup {World([i \in MCItems |-> IF i = "a" THEN r ELSE Plain("app")], Apart) : r \in Survey}

AlikeOnly == {World(Files, Alike)}
===============================================================================
