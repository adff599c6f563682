--------------------------- MODULE MCInventoryScan ---------------------------
(* Worlds of a few resources per service, each good, bad in the ways that the  *)
(* risk engine combines, or not there.                                         *)
EXTENDS InventoryScan, TLC

Keys ==
  [s3 |-> {<<"bucket", "x">>, <<"bucket", "y">>},
   cloudtrail |-> {<<"trail", "x">>, <<"trail", "y">>},
   guardduty |-> {<<"detector", "x">>, <<"detector", "y">>},
   ec2 |-> {<<"securityGroup", "x">>, <<"securityGroup", "y">>},
   rds |-> {<<"database", "x">>, <<"database", "z">>},
   lambda |-> {<<"function", "x">>, <<"function", "z">>},
   iam |-> {Root, <<"user", "x">>, <<"group", "x">>, <<"role", "x">>,
            <<"policy", "p">>},
   daemon |-> {<<"container", "x">>, <<"container", "y">>},
   dockerfile |-> {<<"dockerfile", "x">>, <<"dockerfile", "y">>},
   manifest |-> {<<"manifest", "x">>, <<"manifest", "y">>},
   cluster |-> {Context} \union ({"pods", "services"} \X {"a", "b"}),
   admission |-> {Context} \union (ToSet(AdmissionReads) \X {"a", "b"})]

MCSecondPage == {"z"}

Document(parses, action) ==
  [parses |-> parses,
   statements |-> {[allow |-> TRUE, condition |-> FALSE, actions |-> {action},
                    resources |-> {"*"}, anyone |-> TRUE]}]
Wild == Document(TRUE, "*")
Narrow == Document(TRUE, "s3:GetObject")
Broken == Document(FALSE, "*")
Trusting == Document(TRUE, "sts:AssumeRoleWithWebIdentity")

Named(name, is) == [name |-> name, is |-> is]

AccessKey(name, active, old, used) ==
  Named(name, [active |-> active, old |-> old, used |-> used])

Rule(world_, all, from, to) == [world |-> world_, all |-> all, from |-> from, to |-> to]

Container(privileged, mounts, user, published) ==
  [privileged |-> privileged, shares |-> {}, mounts |-> mounts, capabilities |-> {"NET_ADMIN"},
   devices |-> {}, anyDevice |-> FALSE, unconfined |-> FALSE, user |-> user,
   published |-> published]
Mount(bind, source, writable) == [bind |-> bind, source |-> source, writable |-> writable]

Line(name, value) == [name |-> name, value |-> value]

Pod(bad) ==
  [hostNamespaces |-> {}, hostPath |-> bad, root |-> FALSE, unconfined |-> FALSE,
   containers |-> {[privileged |-> bad, root |-> FALSE, escalates |-> FALSE, all |-> FALSE,
                    unconfined |-> FALSE, hostPort |-> bad, latest |-> TRUE, secret |-> FALSE]}]

PodItem(name, ns, bad) == [name |-> name, ns |-> ns, is |-> Pod(bad)]

Holding(itemSets) == {[items |-> items] : items \in itemSets}

\* The states of a resource that is there.
Present(k) ==
  CASE k[1] = "bucket" ->
         {[pab |-> "part", encrypted |-> TRUE, versioned |-> FALSE, logged |-> FALSE,
           policy |-> "public"]}
         \union
         IF k[2] = "x" THEN {[pab |-> "all", encrypted |-> TRUE, versioned |-> TRUE,
                              logged |-> TRUE, policy |-> "none"]}
         ELSE {}
    [] k[1] = "trail" ->
         {[logging |-> TRUE, everywhere |-> TRUE], [logging |-> FALSE, everywhere |-> FALSE]}
    [] k[1] = "detector" -> {[enabled |-> TRUE], [enabled |-> FALSE]}
    [] k[1] = "securityGroup" ->
         {[rules |-> {Rule(TRUE, FALSE, 1, 22), Rule(FALSE, TRUE, 1, 0)}],
          [rules |-> {Rule(TRUE, TRUE, 1, 0)}],
          [rules |-> {Rule(TRUE, FALSE, 8000, 8080), Rule(FALSE, FALSE, 22, 22)}]}
    [] k[1] = "database" ->
         {[public |-> TRUE, encrypted |-> FALSE], [public |-> FALSE, encrypted |-> TRUE]}
    [] k[1] = "function" -> {[url |-> "open"], [url |-> "iam"], [url |-> "none"]}
    [] k[1] = "user" ->
         {[keys |-> {AccessKey("k", TRUE, TRUE, "never"), AccessKey("l", TRUE, FALSE, "recently")},
           inline |-> {}, attached |-> {"p"}],
          [keys |-> {AccessKey("k", FALSE, TRUE, "never")}, inline |-> {Named("i", Wild)},
           attached |-> {}]}
    [] k[1] = "group" -> {[inline |-> {Named("i", Broken)}, attached |-> {}]}
    [] k[1] = "role" ->
         {[inline |-> {}, attached |-> {"p"}, trust |-> Trusting],
          [inline |-> {}, attached |-> {}, trust |-> Broken]}
    [] k[1] = "policy" ->
         {[default |-> "v1", versions |-> {Named("v1", Wild), Named("v2", Narrow)}],
          [default |-> "v2", versions |-> {Named("v2", Narrow)}]}
    [] k[1] = "root" -> {[mfa |-> FALSE]}
    [] k[1] = "container" ->
         {Container(TRUE, {Mount(FALSE, "socket", TRUE), Mount(TRUE, "sensitive", TRUE)}, "unset",
                    {"all"}),
          Container(FALSE, {Mount(FALSE, "sensitive", TRUE)}, "app", {"loopback"})}
    [] k[1] = "dockerfile" ->
         {[lines |-> <<Line("FROM", "latest"), Line("USER", "app"), Line("FROM", "pinned")>>],
          [lines |-> <<Line("FROM", "pinned"), Line("RUN", "pipe"), Line("USER", "app")>>],
          [lines |-> <<Line("RUN", "plain")>>]}
    [] k[1] = "manifest" ->
         {[parses |-> TRUE, workloads |-> {Named("w" \o k[2], Pod(TRUE))}],
          [parses |-> TRUE, workloads |-> {}], [parses |-> FALSE, workloads |-> {}]}
    [] k = Context -> {[current |-> "a"], [current |-> "b"]}
    [] k[1] = "pods" ->
         Holding({{}, {PodItem("p" \o k[2], "shop", k[2] = "a"),
                       PodItem("q", "kube-system", FALSE)}})
    [] k = <<"services", "a">> ->
         Holding({{}, {[type |-> "NodePort", addressed |-> FALSE]}})
    [] k = <<"services", "b">> -> Holding({{[type |-> "ClusterIP", addressed |-> FALSE]}})
    [] k[1] = "namespaces" ->
         Holding({{[name |-> "shop", enforce |-> IF k[2] = "a" THEN "restricted" ELSE ""]}}
                 \union IF k[2] = "a" THEN {{}} ELSE {})
    [] k = <<"mutatingwebhooks", "a">> ->
         Holding({{}, {[name |-> "w", ignores |-> TRUE, broad |-> TRUE]}})
    [] OTHER -> Holding({{[name |-> "v", ignores |-> k[2] = "b", broad |-> FALSE]}})

\* An account's root, its group, an attached policy and a cluster's inventories are
\* always there.
MCValues(k) ==
  Present(k) \union
  IF k[1] \in {"root", "group", "policy", "context"} \union ToSet(AdmissionReads) \union {"services"}
  THEN {} ELSE {Gone}

MCWorlds ==
  [s \in DOMAIN Keys |->
     FoldSet(LAMBDA k, worlds : {w @@ (k :> v) : w \in worlds, v \in MCValues(k)},
             {<<>>}, Keys[s])]
=============================================================================
