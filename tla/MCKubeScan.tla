----------------------------- MODULE MCKubeScan -----------------------------
(* Two namespaces with an account "app" each, cluster-admin bound alone and *)
(* beside a broad group, a subject without namespace, a subject of another  *)
(* namespace, an aggregated role, and a Pod whose account is missing.       *)
EXTENDS KubeScan

Key(kind, ns, name) == [kind |-> kind, ns |-> ns, name |-> name]
Admin == Key("ClusterRole", "", "cluster-admin")
Reader == Key("ClusterRole", "", "reader")
Ops == Key("Role", "a", "ops")
MCRoleKeys == {Admin, Reader, Ops}

Rule(verbs, resources, groups) == [verbs |-> verbs, resources |-> resources, groups |-> groups]
Full == {Rule({"*"}, {"*"}, {"*"})}
ReadAll == {Rule({"get"}, {"*"}, {""}), Rule({"impersonate"}, {"users"}, {"x"})}
Apps == {Rule({"get", "create"}, {"*"}, {"apps"})}
MCRuleSets == {Full, ReadAll, Apps}

Sa(ns, name) == [kind |-> "ServiceAccount", ns |-> ns, name |-> name]
Everyone == [kind |-> "Group", ns |-> "", name |-> "system:authenticated"]
Binding(kind, ns, name, key, subjects) ==
  [kind |-> kind, ns |-> ns, name |-> name, refKind |-> key.kind, refName |-> key.name,
   subjects |-> subjects]

Root == Binding("ClusterRoleBinding", "", "root", Admin, {Sa("a", "app")})
Wide == Binding("ClusterRoleBinding", "", "wide", Admin, {Sa("b", "app"), Everyone})
Read == Binding("RoleBinding", "a", "read", Reader, {Sa("", "app")})
Guest == Binding("RoleBinding", "a", "guest", Ops, {Sa("b", "app")})
MCBindings == {Root, Wide, Read, Guest}

Pod(ns, name, sa, mount) == [ns |-> ns, name |-> name, sa |-> sa, automount |-> mount]
P1 == Pod("a", "p1", "app", "unset")
P2 == Pod("b", "p2", "app", "unset")
P3 == Pod("a", "p3", "default", "on")
MCPods == {P1, P2, P3}
MCAccounts == {<<"a", "app">>, <<"b", "app">>, <<"a", "default">>}

Net == [ns |-> "a", name |-> "n", allowAll |-> TRUE]
MCPolicies == {Net}

MCRules(reader, ops) ==
  [k \in MCRoleKeys |-> IF k = Admin THEN Ruled(Full) ELSE IF k = Reader THEN reader ELSE ops]
MCAutomount(b) ==
  [sa \in MCAccounts |-> IF sa[1] = "b" THEN b ELSE "unset"]
MCCluster(reader, ops, bindings, b) ==
  [rules |-> MCRules(reader, ops), bound |-> bindings, pods |-> MCPods,
   policies |-> {Net}, automount |-> MCAutomount(b)]

MCInitialClusters ==
  {MCCluster(Ruled(ReadAll), Ruled(Apps), {Root, Read, Guest}, "off"),
   MCCluster(NoRules, Ruled(Full), {Read, Guest}, Missing),
   MCCluster(Ruled(Apps), Ruled({}), {Wide, Guest}, "unset"),
   MCCluster(Ruled(Apps), Ruled(Apps), {Read}, "unset"),
   MCCluster(Ruled({}), Absent, {Guest}, "on")}
=============================================================================
