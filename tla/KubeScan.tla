------------------------------ MODULE KubeScan ------------------------------
(***************************************************************************)
(* "blacklight scan kubernetes": the posture scanner, then the rbac        *)
(* scanner, on a cluster that others keep changing, and the risk engine on *)
(* the findings of both.                                                   *)
(***************************************************************************)
EXTENDS KubeRbac, KubePosture, SequencesExt

CONSTANT MaxFailures     \* bound: reads that fail in one scan

ASSUME FailuresAssumption == MaxFailures \in Nat

vars == <<apiVars, postureVars, rbacVars>>

Init == ApiInit /\ PostureInit /\ RbacInit

Tolerable == Cardinality((postureFailed \union rbacFailed)') <= MaxFailures

PostureStep == PostureNext /\ UNCHANGED <<apiVars, rbacVars>> /\ Tolerable

\* The runner takes the scanners in the order of their names.
RbacStep ==
  posturePc = "done" /\ RbacNext /\ UNCHANGED <<apiVars, postureVars>> /\ Tolerable

OthersStep ==
  rbacPc # "done" /\ Others /\ UNCHANGED <<postureVars, rbacVars>>

Next == PostureStep \/ RbacStep \/ OthersStep

Spec == Init /\ [][Next]_vars

-----------------------------------------------------------------------------
(* Properties                                                              *)

Risk == INSTANCE RiskEngine WITH Catalog <- {}, MaxFindings <- 0, findings <- <<>>

Correlations ==
  Risk!ServiceAccountCorrelations(
    FoldSet(LAMBDA f, all : Append(all, f), <<>>, postureFindings \union rbacFindings))

TypeOK ==
  /\ ClusterOK([rules |-> rules, bound |-> bound, pods |-> pods, policies |-> policies,
                automount |-> automount])
  /\ steadyBindings \subseteq bound /\ steadyPods \subseteq pods
  /\ DOMAIN roleIndex \subseteq RoleKeys
  /\ \A k \in DOMAIN roleIndex : roleIndex[k] \in RuleSets \union {{}}
  /\ bindingList \subseteq Bindings /\ podList \subseteq Pods /\ policyList \subseteq Policies
  /\ DOMAIN accountIndex \subseteq Accounts /\ Range(accountIndex) \subseteq Automount
  /\ rbacFailed \subseteq ToSet(RbacReads) /\ postureFailed \subseteq ToSet(PostureReads)
  /\ \A f \in postureFindings \union rbacFindings : Risk!FindingOK(f)

Says(findings, check) == \E f \in findings : f.check = check

\* Both scanners got everything they asked for.
Inventoried ==
  /\ rbacPc = "done" /\ ~Says(rbacFindings, "connection") /\ rbacFailed = {}
  /\ ~Says(postureFindings, "connection") /\ postureFailed = {}

Granted(b) == Dangers(rules[RefKey(b)].rules)

\* A dangerous grant that stays as it is while the scan lasts is reported, whatever
\* others change between the four reads (rbac.py reads roles before bindings).
StableGrantIsReported ==
  Inventoried =>
    \A b \in steadyBindings : \A d \in Granted(b) :
      \E f \in rbacFindings : f.check = d /\ f.resource = BindingId(b) /\ f.severity = "HIGH"

\* rbac's PASS is a statement about the whole inventory: every read succeeded, and
\* no binding that stayed has a role that is dangerous or could not be resolved.
PassMeansSteadilySafe ==
  (\E f \in rbacFindings : f.severity = "PASS") =>
    /\ rbacFailed = {} /\ Cardinality(rbacFindings) = 1
    /\ \A b \in steadyBindings :
         /\ rules[RefKey(b)].is = "listed"
         /\ Granted(b) = {}
         /\ b.refKind = "ClusterRole" /\ b.refName = "cluster-admin" => b.subjects = {}

TokenReallyMounted(p) ==
  IF p.automount = "unset" THEN automount[AccountOf(p)] # "off" ELSE p.automount = "on"

\* A Pod that keeps a token of an account that keeps a dangerous grant ends up in a
\* correlation that names the account and the binding, with the points of its tier,
\* although three reads by one scanner and four by another had to fit together.
StableExposureIsCorrelated ==
  Inventoried =>
    \A p \in steadyPods, b \in steadyBindings :
      TokenReallyMounted(p) /\ AccountOf(p) \in Identities(b) /\ Granted(b) # {} =>
        \E c \in Correlations :
          /\ {AccountOf(p), BindingId(b)} \subseteq c.resources
          /\ c.points >= IF "bound_wildcard" \in Granted(b) THEN 25 ELSE 15

\* A correlation is about one account: a Pod that was seen mounts its token, and
\* each binding it names has that very account among its subjects ("not namespace
\* proximity", risk.py; docs/risk-engine.md:130).
CorrelatedByIdentity ==
  \A c \in Correlations : \E p \in podList :
    /\ TokenMounted(p, accountIndex) /\ AccountOf(p) \in c.resources
    /\ \A r \in c.resources \ {AccountOf(p)} : \E b \in bindingList :
         /\ r = BindingId(b)
         /\ \E s \in b.subjects :
              /\ s.kind = "ServiceAccount" /\ s.name = p.sa
              /\ s.ns = p.ns \/ (s.ns = "" /\ b.ns = p.ns)

\* docs/risk-engine.md:126 gives 30 points to an account with a mounted token and an
\* explicit cluster-admin binding.
ClusterAdminIsTopTier ==
  Inventoried =>
    \A p \in steadyPods, b \in steadyBindings :
      /\ TokenReallyMounted(p) /\ AccountOf(p) \in Identities(b)
      /\ b.refKind = "ClusterRole" /\ b.refName = "cluster-admin" /\ Granted(b) # {}
      => \E c \in Correlations : AccountOf(p) \in c.resources /\ c.points = 30
=============================================================================
