--------------------------- MODULE MCClusterTenant ---------------------------
(* Instances of ClusterTenant for TLC. *)
EXTENDS ClusterTenant

MCNoDate == -1

MCItems == {"a-tenant", "b-tenant", "a-cluster", "b-cluster"}
MCClusterNamed == {"a-cluster", "b-cluster"}
MCTenantNamed == {"a-tenant", "b-tenant"}
MCCounterpart == [t \in MCTenantNamed |-> IF t = "a-tenant" THEN "a-cluster" ELSE "b-cluster"]
\* AgnosticV disagrees with the name of the second tenant.
MCAgnosticV == [i \in MCItems |-> IF i = "b-tenant" THEN "a-cluster" ELSE None]
MCReferences == [i \in MCItems |-> IF i = "b-tenant" THEN "b-cluster" ELSE None]
MCPoolSets == {[p \in {} |-> 0], [p \in {"b-cluster"} |-> 0], [p \in {"b-cluster"} |-> 1]}
MCClaimSets == {{}, {"a-cluster"}}

Plain(i, label, override, t, ui) == <<i, label, override, t, ui>>

TenantA(t) == Plain("a-tenant", "blank", "blank", t, FALSE)
TenantB(t, ui) == Plain("b-tenant", "blank", "blank", t, ui)
ClusterA(t) == Plain("a-cluster", "blank", "blank", t, FALSE)

MCUploads ==
    {<<TenantA(4), TenantB(1, ui)>> : ui \in BOOLEAN}
    \cup {<<TenantA(3)>>, <<TenantB(4, TRUE), TenantB(2, FALSE)>>}
    \cup {<<ClusterA(k), TenantA(t), TenantB(5, FALSE)>> : k \in {0, 1}, t \in {NoDate, 2}}
    \cup {<<ClusterA(4), TenantA(3), ClusterA(1)>>,
          <<Plain("a-tenant", "workshop", "blank", 3, FALSE), Plain("b-tenant", "tenant", "none", 3, TRUE)>>,
          <<Plain("a-cluster", "tenant", "b-cluster", 4, FALSE), Plain("b-cluster", "blank", "blank", 2, FALSE)>>}

MCEdits == {<<5, "blank">>, <<2, "b-cluster">>}
=============================================================================
