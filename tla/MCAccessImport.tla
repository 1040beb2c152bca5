--------------------------- MODULE MCAccessImport ---------------------------
(* AccessImport on four small workspaces. *)
EXTENDS AccessImport

MCUsers == {"ann"}
MCSPs == {"robot"}
MCGroups == {"inner", "outer"}

AllUsers == [p \in {"ann", "robot", "inner", "outer", "admins"} |-> "USER"]

Wants(admins) == [p \in DOMAIN AllUsers |-> IF p \in admins THEN "ADMIN" ELSE "USER"]
Has(outer, inner, admins) == [g \in {"inner", "outer", "admins"} |->
    IF g = "outer" THEN outer ELSE IF g = "inner" THEN inner ELSE admins]

Bundle(wants, has, jobGrants) ==
    [perm |-> wants, members |-> has, grants |-> [o \in {"job"} |-> jobGrants]]

Classes(inner, outer) == [g \in MCGroups |-> IF g = "inner" THEN inner ELSE outer]

(* Nested local groups, then a new member and another grant. *)
Nested == [class |-> Classes("workspace_local", "workspace_local"),
           present |-> {}, local |-> {}, account |-> {},
           bundles |-> <<Bundle(Wants({"ann"}), Has({"inner"}, {"ann"}, {"ann"}), {"robot"}),
                         Bundle(Wants({}), Has({"inner", "robot"}, {"ann"}, {"ann"}),
                                {"robot", "ann"})>>]

(* An account group that is there and one that still has to be provisioned. *)
Accounts == [class |-> Classes("account", "account"),
             present |-> {"ann"}, local |-> {}, account |-> {"inner"},
             bundles |-> <<Bundle(Wants({"ann", "inner"}), Has({}, {}, {"outer"}), {"outer", "ann"}),
                           Bundle(Wants({"inner"}), Has({}, {}, {"outer"}), {})>>]

(* A shadow of one account group, and a group of unknown kind. *)
Shadows == [class |-> Classes("account", "needs_review"),
            present |-> {"inner", "robot"}, local |-> {"inner"}, account |-> {"inner"},
            bundles |-> <<Bundle(Wants({"robot"}), Has({}, {}, {"inner"}), {"inner", "robot"}),
                          Bundle(Wants({"robot"}), Has({}, {}, {"ann"}), {"robot"})>>]

(* Nothing changes on the source. *)
Steady == [Nested EXCEPT !.bundles = <<Nested.bundles[1], Nested.bundles[1]>>]

(* A workspace-local group of the source is an account group on the target. *)
Converted == [class |-> Classes("account", "workspace_local"),
              present |-> {"ann", "outer"}, local |-> {}, account |-> {},
              bundles |-> <<Bundle(Wants({}), Has({"ann"}, {}, {"ann"}), {}),
                            Bundle(Wants({"outer"}), Has({"inner"}, {}, {"ann"}), {})>>]

MCWorlds == {Nested, Accounts, Shadows}
NestedOnly == {Nested}
SteadyOnly == {Steady}
ConvertedOnly == {Converted}
=============================================================================
