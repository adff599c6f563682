--------------------------- MODULE KubeScanProofs ---------------------------
(***************************************************************************)
(* What "blacklight scan kubernetes" may say of a cluster that others      *)
(* change while it is read, for every cluster, every number of changes and *)
(* every number of failed reads.                                           *)
(***************************************************************************)
EXTENDS KubeScan, FoldProofs

-----------------------------------------------------------------------------
(* The inductive invariant                                                 *)

\* The cluster has its type, and what is steady is there.
HostedOK ==
  /\ ClusterOK([rules |-> rules, bound |-> bound, pods |-> pods, policies |-> policies,
                automount |-> automount])
  /\ steadyBindings \subseteq bound /\ steadyPods \subseteq pods

PostureReadNames == {"pods", "serviceaccounts", "networkpolicies"}
RbacReadNames == {"clusterroles", "roles", "clusterrolebindings", "rolebindings"}

\* rbac begins when posture is through.
InTurn ==
  /\ posturePc \in PostureReadNames \union {"client", "judge", "done"}
  /\ rbacPc \in RbacReadNames \union {"client", "analyze", "done"}
  /\ rbacPc # "client" => posturePc = "done"

PostureTypes ==
  /\ podList \subseteq Pods /\ policyList \subseteq Policies
  /\ DOMAIN accountIndex \subseteq Accounts /\ Range(accountIndex) \subseteq Automount
  /\ postureFailed \subseteq PostureReadNames
  /\ \A f \in postureFindings : Risk!FindingOK(f)

RbacTypes ==
  /\ DOMAIN roleIndex \subseteq RoleKeys
  /\ \A k \in DOMAIN roleIndex : roleIndex[k] \in RuleSets \union {{}}
  /\ bindingList \subseteq Bindings
  /\ rbacFailed \subseteq RbacReadNames
  /\ \A f \in rbacFindings : Risk!FindingOK(f)

\* The index holds no role of a kind that has not been read.
NotAhead ==
  /\ rbacPc \in {"client", "clusterroles"} => DOMAIN roleIndex = {}
  /\ rbacPc = "roles" => \A k \in DOMAIN roleIndex : k.kind = "ClusterRole"

\* What the index says of role k is what the role is now.
Known(k) ==
  /\ k \in DOMAIN roleIndex <=> rules[k].is = "listed"
  /\ k \in DOMAIN roleIndex => roleIndex[k] = rules[k].rules

\* The reads that are over, while the scan goes on.
Over(read) ==
  CASE read = "clusterroles" -> {"roles", "clusterrolebindings", "rolebindings", "analyze"}
    [] read = "roles" -> {"clusterrolebindings", "rolebindings", "analyze"}
    [] read = "clusterrolebindings" -> {"rolebindings", "analyze"}
    [] read = "rolebindings" -> {"analyze"}

HasRead(read) == rbacPc \in Over(read) /\ read \notin rbacFailed

\* The roles of steady bindings were read as they still are ...
RolesKnown ==
  \A b \in steadyBindings :
    \/ b.refKind = "ClusterRole" /\ ~HasRead("clusterroles")
    \/ b.refKind = "Role" /\ ~HasRead("roles")
    \/ Known(RefKey(b))

\* ... and the steady bindings are on the list.
BindingsListed ==
  \A b \in steadyBindings :
    \/ b.kind = "ClusterRoleBinding" /\ ~HasRead("clusterrolebindings")
    \/ b.kind = "RoleBinding" /\ ~HasRead("rolebindings")
    \/ b \in bindingList

\* Before the end rbac has nothing but errors to report.
OnlyErrors == rbacPc # "done" => \A f \in rbacFindings : f.severity = "ERROR"

KubeInv ==
  /\ HostedOK /\ InTurn /\ PostureTypes /\ RbacTypes
  /\ NotAhead /\ RolesKnown /\ BindingsListed /\ OnlyErrors
  /\ StableGrantIsReported /\ PassMeansSteadilySafe

-----------------------------------------------------------------------------
(* The reads and the findings                                              *)

\* rbac makes its four reads in this order.
LEMMA RbacOrder ==
  /\ DOMAIN RbacReads = 1..4 /\ Len(RbacReads) = 4
  /\ RbacReads[1] = "clusterroles" /\ RbacReads[2] = "roles"
  /\ RbacReads[3] = "clusterrolebindings" /\ RbacReads[4] = "rolebindings"
BY DEF RbacReads

LEMMA PostureOrder ==
  /\ DOMAIN PostureReads = 1..3 /\ Len(PostureReads) = 3
  /\ PostureReads[1] = "pods" /\ PostureReads[2] = "serviceaccounts"
  /\ PostureReads[3] = "networkpolicies"
BY DEF PostureReads

LEMMA ReadNames == ToSet(RbacReads) = RbacReadNames /\ ToSet(PostureReads) = PostureReadNames
BY RbacOrder, PostureOrder DEF ToSet, RbacReadNames, PostureReadNames

\* Where rbac goes after each read.
LEMMA RbacNextRead ==
  /\ RbacGoesTo("clusterroles") => rbacPc' = "roles"
  /\ RbacGoesTo("roles") => rbacPc' = "clusterrolebindings"
  /\ RbacGoesTo("clusterrolebindings") => rbacPc' = "rolebindings"
  /\ RbacGoesTo("rolebindings") => rbacPc' = "analyze"
<1>1. (CHOOSE j \in DOMAIN RbacReads : RbacReads[j] = "clusterroles") = 1
  BY RbacOrder
<1>2. (CHOOSE j \in DOMAIN RbacReads : RbacReads[j] = "roles") = 2
  BY RbacOrder
<1>3. (CHOOSE j \in DOMAIN RbacReads : RbacReads[j] = "clusterrolebindings") = 3
  BY RbacOrder
<1>4. (CHOOSE j \in DOMAIN RbacReads : RbacReads[j] = "rolebindings") = 4
  BY RbacOrder
<1>5. QED BY <1>1, <1>2, <1>3, <1>4, RbacOrder DEF RbacGoesTo

LEMMA PostureNextRead ==
  /\ PostureGoesTo("pods") => posturePc' = "serviceaccounts"
  /\ PostureGoesTo("serviceaccounts") => posturePc' = "networkpolicies"
  /\ PostureGoesTo("networkpolicies") => posturePc' = "judge"
<1>1. (CHOOSE j \in DOMAIN PostureReads : PostureReads[j] = "pods") = 1
  BY PostureOrder
<1>2. (CHOOSE j \in DOMAIN PostureReads : PostureReads[j] = "serviceaccounts") = 2
  BY PostureOrder
<1>3. (CHOOSE j \in DOMAIN PostureReads : PostureReads[j] = "networkpolicies") = 3
  BY PostureOrder
<1>4. QED BY <1>1, <1>2, <1>3, PostureOrder DEF PostureGoesTo

\* The findings of both scanners are ones the risk engine accepts.
LEMMA RbacFindingType ==
  ASSUME NEW check, NEW severity \in Risk!AllSeverities, NEW resource, NEW subjects
  PROVE  /\ Risk!FindingOK(RbacFinding(check, severity, resource, subjects))
         /\ RbacFinding(check, severity, resource, subjects).check = check
         /\ RbacFinding(check, severity, resource, subjects).severity = severity
         /\ RbacFinding(check, severity, resource, subjects).resource = resource
BY DEF Risk!FindingOK, RbacFinding

LEMMA PostureFindingType ==
  ASSUME NEW check, NEW severity \in Risk!AllSeverities, NEW resource, NEW subjects
  PROVE  Risk!FindingOK(PostureFinding(check, severity, resource, subjects))
BY DEF Risk!FindingOK, PostureFinding

LEMMA Severities ==
  {"CRITICAL", "HIGH", "MEDIUM", "LOW", "PASS", "INFO", "ERROR"} = Risk!AllSeverities
BY DEF Risk!AllSeverities, Risk!SeverityWeights

\* A role without a list of rules grants nothing.
LEMMA OnlyListedGrant ==
  ASSUME HostedOK, NEW k \in RoleKeys
  PROVE  rules[k].is = "listed" \/ Dangers(rules[k].rules) = {}
<1>1. rules[k] \in Role
  BY DEF HostedOK, ClusterOK
<1>2. CASE rules[k] \in {NoRules, Absent}
  BY <1>2 DEF NoRules, Absent, Dangers
<1>3. CASE \E set \in RuleSets \union {{}} : rules[k] = Ruled(set)
  BY <1>3 DEF Ruled
<1>4. QED BY <1>1, <1>2, <1>3 DEF Role

-----------------------------------------------------------------------------
LEMMA InitInv == Init => KubeInv
<1> SUFFICES ASSUME Init PROVE KubeInv
  OBVIOUS
<1> USE DEF Init, PostureInit, RbacInit
<1>1. HostedOK
  <2>1. PICK c \in InitialClusters :
          rules = c.rules /\ bound = c.bound /\ pods = c.pods
          /\ policies = c.policies /\ automount = c.automount
    BY DEF ApiInit
  <2>2. QED BY <2>1, ClusterAssumption DEF ApiInit, HostedOK, ClusterOK
<1>2. InTurn
  BY DEF InTurn
<1>3. PostureTypes
  BY DEF PostureTypes, Range
<1>4. RbacTypes
  BY DEF RbacTypes
<1>5. NotAhead
  BY DEF NotAhead
<1>6. RolesKnown /\ BindingsListed
  <2>1. ~HasRead("clusterroles") /\ ~HasRead("roles") /\ ~HasRead("clusterrolebindings")
        /\ ~HasRead("rolebindings")
    BY DEF HasRead, Over
  <2>2. \A b \in steadyBindings : b \in Bindings
    BY <1>1 DEF HostedOK, ClusterOK
  <2>3. \A b \in Bindings : b.refKind \in {"ClusterRole", "Role"}
    BY BindingsAssumption DEF RefKey
  <2>4. QED BY <2>1, <2>2, <2>3, BindingsAssumption DEF RolesKnown, BindingsListed
<1>7. OnlyErrors /\ StableGrantIsReported /\ PassMeansSteadilySafe
  BY DEF OnlyErrors, StableGrantIsReported, PassMeansSteadilySafe, Inventoried
<1>8. QED BY <1>1, <1>2, <1>3, <1>4, <1>5, <1>6, <1>7 DEF KubeInv

\* What the invariant says of rbac does not mind a step of posture.
LEMMA PostureKeeps ==
  ASSUME KubeInv, PostureStep
  PROVE  KubeInv'
<1> USE DEF PostureStep
<1>1. posturePc # "done" /\ rbacPc = "client"
  <2>1. posturePc \in PostureReadNames \union {"client", "judge"}
    BY PostureOrder DEF PostureNext, PostureClient, PostureRead, ReadPods, ReadAccounts,
       ReadPolicies, PostureReadFails, Judge, PostureReadNames
  <2>2. QED BY <2>1 DEF KubeInv, InTurn, PostureReadNames
<1>2. HostedOK'
  BY DEF KubeInv, HostedOK, apiVars, ClusterOK
<1>3. RbacTypes' /\ NotAhead' /\ OnlyErrors'
  BY DEF KubeInv, RbacTypes, NotAhead, OnlyErrors, rbacVars
<1>4. RolesKnown' /\ BindingsListed'
  BY DEF KubeInv, RolesKnown, BindingsListed, HasRead, Over, Known, RefKey, rbacVars, apiVars
<1>5. StableGrantIsReported'
  BY <1>1 DEF StableGrantIsReported, Inventoried, rbacVars
<1>6. PassMeansSteadilySafe'
  BY <1>1, <1>3 DEF PassMeansSteadilySafe, OnlyErrors, rbacVars
<1>7. InTurn' /\ PostureTypes'
  <2>1. CASE PostureClient
    BY <2>1, <1>1, PostureFindingType, Severities, PostureOrder
       DEF PostureClient, KubeInv, InTurn, PostureTypes, rbacVars, PostureReadNames
  <2>2. CASE Judge
    <3>1. InTurn'
      BY <2>2, <1>1 DEF Judge, KubeInv, InTurn, rbacVars
    <3>2. ASSUME NEW f \in postureFindings' PROVE Risk!FindingOK(f)
      <4> DEFINE Made(g) == \E check, resource, subjects :
                   \E severity \in Risk!AllSeverities :
                     g = PostureFinding(check, severity, resource, subjects)
      <4>1. \A g : Made(g) => Risk!FindingOK(g)
        BY PostureFindingType
      <4>2. \A g \in TokenUsage(podList, accountIndex) : Made(g)
        BY Severities DEF TokenUsage, OrPass
      <4>3. \A g \in DefaultTokens(podList, accountIndex) : Made(g)
        BY Severities DEF DefaultTokens, OrPass
      <4>4. \A g \in Unpoliced(podList, policyList) : Made(g)
        BY Severities DEF Unpoliced, OrPass
      <4>5. \A g \in AllowAll(policyList) : Made(g)
        BY Severities DEF AllowAll, OrPass
      <4>6. Made(PostureFinding("inventory", "PASS", Everything, {}))
        BY Severities
      <4> HIDE DEF Made
      <4>7. f \in postureFindings \/ Made(f)
        BY <2>2, <4>2, <4>3, <4>4, <4>5, <4>6 DEF Judge
      <4>8. QED BY <4>1, <4>7 DEF KubeInv, PostureTypes
    <3>3. QED BY <3>1, <3>2, <2>2 DEF Judge, KubeInv, PostureTypes
  <2>3. CASE PostureRead
    <3>1. CASE /\ ReadPods \/ ReadAccounts \/ ReadPolicies
               /\ PostureGoesTo(posturePc)
               /\ UNCHANGED <<postureFailed, postureFindings>>
      <4>1. InTurn'
        BY <3>1, <1>1, PostureNextRead
           DEF ReadPods, ReadAccounts, ReadPolicies, KubeInv, InTurn, rbacVars, PostureReadNames
      <4>2. CASE ReadPods
        BY <3>1, <4>1, <4>2 DEF ReadPods, KubeInv, PostureTypes, HostedOK, ClusterOK
      <4>3. CASE ReadAccounts
        <5>1. DOMAIN accountIndex' \subseteq Accounts
          BY <4>3 DEF ReadAccounts
        <5>2. Range(accountIndex') \subseteq Automount
          BY <4>3 DEF ReadAccounts, Range, KubeInv, HostedOK, ClusterOK
        <5>3. QED BY <3>1, <4>1, <4>3, <5>1, <5>2 DEF ReadAccounts, KubeInv, PostureTypes
      <4>4. CASE ReadPolicies
        BY <3>1, <4>1, <4>4 DEF ReadPolicies, KubeInv, PostureTypes, HostedOK, ClusterOK
      <4>5. QED BY <3>1, <4>2, <4>3, <4>4
    <3>2. CASE \E i \in DOMAIN PostureReads : PostureReadFails(PostureReads[i])
      <4>1. PICK read \in PostureReadNames : PostureReadFails(read)
        BY <3>2, PostureOrder DEF PostureReadNames
      <4>2. InTurn'
        BY <4>1, <1>1, PostureNextRead
           DEF PostureReadFails, KubeInv, InTurn, rbacVars, PostureReadNames
      <4>3. Risk!FindingOK(PostureFinding(read, "ERROR", Everything, {}))
        BY PostureFindingType, Severities
      <4>4. QED BY <4>1, <4>2, <4>3 DEF PostureReadFails, KubeInv, PostureTypes
    <3>3. QED BY <2>3, <3>1, <3>2 DEF PostureRead
  <2>4. QED BY <2>1, <2>2, <2>3 DEF PostureNext
<1>8. QED BY <1>2, <1>3, <1>4, <1>5, <1>6, <1>7 DEF KubeInv

\* What others do to a binding, its role, a Pod or its account, it is no longer steady then.
LEMMA OthersKeep ==
  ASSUME KubeInv, OthersStep
  PROVE  KubeInv'
<1> USE DEF OthersStep
<1>1. InTurn' /\ PostureTypes' /\ RbacTypes' /\ NotAhead' /\ OnlyErrors'
  BY DEF KubeInv, InTurn, PostureTypes, RbacTypes, NotAhead, OnlyErrors, postureVars, rbacVars
<1>2. StableGrantIsReported' /\ PassMeansSteadilySafe'
  BY <1>1 DEF StableGrantIsReported, Inventoried, PassMeansSteadilySafe, OnlyErrors, rbacVars
<1> DEFINE Fewer == /\ steadyBindings' \subseteq steadyBindings
                    /\ \A b \in steadyBindings' : rules'[RefKey(b)] = rules[RefKey(b)]
<1>3. Fewer
  <2>1. \A b \in steadyBindings : RefKey(b) \in RoleKeys
    BY BindingsAssumption DEF KubeInv, HostedOK, ClusterOK
  <2>2. ASSUME NEW k \in RoleKeys, NEW to \in Role, ChangeRole(k, to) PROVE Fewer
    BY <2>1, <2>2 DEF ChangeRole, KubeInv, HostedOK, ClusterOK
  <2>3. ASSUME NEW b \in Bindings, ChangeBinding(b) PROVE Fewer
    BY <2>3 DEF ChangeBinding
  <2>4. ASSUME NEW p \in Pods, ChangePod(p) PROVE Fewer
    BY <2>4 DEF ChangePod
  <2>5. ASSUME NEW sa \in Accounts, NEW to \in Automount \union {Missing}, ChangeAccount(sa, to)
        PROVE  Fewer
    BY <2>5 DEF ChangeAccount
  <2>6. ASSUME NEW n \in Policies, ChangePolicy(n) PROVE Fewer
    BY <2>6 DEF ChangePolicy
  <2>7. QED BY <2>2, <2>3, <2>4, <2>5, <2>6 DEF Others
<1>4. RolesKnown' /\ BindingsListed'
  <2>1. UNCHANGED <<rbacPc, rbacFailed, roleIndex, bindingList>>
    BY DEF rbacVars
  <2>2. ASSUME NEW read PROVE HasRead(read)' = HasRead(read)
    BY <2>1 DEF HasRead, Over
  <2>3. ASSUME NEW b \in steadyBindings' PROVE Known(RefKey(b))' <=> Known(RefKey(b))
    BY <1>3, <2>1 DEF Known, RefKey
  <2>4. RolesKnown'
    BY <1>3, <2>2, <2>3 DEF RolesKnown, KubeInv
  <2>5. BindingsListed'
    BY <1>3, <2>1, <2>2 DEF BindingsListed, KubeInv
  <2>6. QED BY <2>4, <2>5
<1>5. HostedOK'
  <2> USE DEF KubeInv, HostedOK, ClusterOK
  <2>1. ASSUME NEW k \in RoleKeys, NEW to \in Role, ChangeRole(k, to) PROVE HostedOK'
    BY <2>1 DEF ChangeRole
  <2>2. ASSUME NEW b \in Bindings, ChangeBinding(b) PROVE HostedOK'
    BY <2>2 DEF ChangeBinding
  <2>3. ASSUME NEW p \in Pods, ChangePod(p) PROVE HostedOK'
    BY <2>3 DEF ChangePod
  <2>4. ASSUME NEW sa \in Accounts, NEW to \in Automount \union {Missing}, ChangeAccount(sa, to)
        PROVE  HostedOK'
    BY <2>4 DEF ChangeAccount
  <2>5. ASSUME NEW n \in Policies, ChangePolicy(n) PROVE HostedOK'
    BY <2>5 DEF ChangePolicy
  <2>6. QED BY <2>1, <2>2, <2>3, <2>4, <2>5 DEF Others
<1>6. QED BY <1>1, <1>2, <1>4, <1>5 DEF KubeInv

LEMMA StutterKeeps ==
  ASSUME KubeInv, UNCHANGED vars
  PROVE  KubeInv'
<1> USE DEF vars, apiVars, postureVars, rbacVars
<1>1. HostedOK' /\ InTurn' /\ PostureTypes' /\ RbacTypes' /\ NotAhead' /\ OnlyErrors'
  BY DEF KubeInv, HostedOK, ClusterOK, InTurn, PostureTypes, RbacTypes, NotAhead, OnlyErrors
<1>2. \A read : HasRead(read)' = HasRead(read)
  BY DEF HasRead, Over
<1>3. \A k : Known(k)' = Known(k)
  BY DEF Known
<1>4. RolesKnown' /\ BindingsListed'
  BY <1>2, <1>3 DEF KubeInv, RolesKnown, BindingsListed
<1>5. StableGrantIsReported' /\ PassMeansSteadilySafe'
  BY DEF KubeInv, StableGrantIsReported, PassMeansSteadilySafe, Inventoried, Says, Granted
<1>6. QED BY <1>1, <1>4, <1>5 DEF KubeInv

-----------------------------------------------------------------------------
(* The steps of rbac                                                       *)

\* The reads that go well read something, and one that fails is remembered.
LEMMA RbacSteps ==
  ASSUME RbacRead
  PROVE  \/ ReadRoles("clusterroles", "ClusterRole") \/ ReadRoles("roles", "Role")
         \/ ReadBindings("clusterrolebindings", "ClusterRoleBinding")
         \/ ReadBindings("rolebindings", "RoleBinding")
         \/ \E read \in RbacReadNames : RbacReadFails(read)
BY RbacOrder DEF RbacRead, RbacReadNames

\* What a step of rbac leaves alone.
LEMMA RbacLeaves ==
  ASSUME KubeInv, UNCHANGED <<apiVars, postureVars>>
  PROVE  HostedOK' /\ PostureTypes' /\ \A k : rules'[k] = rules[k]
<1>1. HostedOK'
  BY DEF KubeInv, HostedOK, ClusterOK, apiVars
<1>2. PostureTypes'
  BY DEF KubeInv, PostureTypes, postureVars
<1>3. QED BY <1>1, <1>2 DEF apiVars

\* While rbac goes on nothing is promised yet.
LEMMA NothingYet ==
  ASSUME OnlyErrors, rbacPc # "done"
  PROVE  StableGrantIsReported /\ PassMeansSteadilySafe
BY DEF OnlyErrors, StableGrantIsReported, PassMeansSteadilySafe, Inventoried

LEMMA ClientKeeps ==
  ASSUME KubeInv, RbacClient, UNCHANGED <<apiVars, postureVars>>, posturePc = "done"
  PROVE  KubeInv'
<1> USE DEF RbacClient
<1>1. HostedOK' /\ PostureTypes'
  BY RbacLeaves
<1>2. InTurn' /\ NotAhead'
  BY RbacOrder DEF KubeInv, InTurn, NotAhead, postureVars, RbacReadNames
<1>3. RolesKnown' /\ BindingsListed'
  <2>1. ~HasRead("clusterroles")' /\ ~HasRead("roles")' /\ ~HasRead("clusterrolebindings")'
        /\ ~HasRead("rolebindings")'
    BY RbacOrder DEF HasRead, Over
  <2>2. \A b \in steadyBindings' : b \in Bindings
    BY <1>1 DEF HostedOK, ClusterOK
  <2>3. \A b \in Bindings : b.refKind \in {"ClusterRole", "Role"}
    BY BindingsAssumption DEF RefKey
  <2>4. QED BY <2>1, <2>2, <2>3, BindingsAssumption DEF RolesKnown, BindingsListed
<1>4. CASE rbacPc' = RbacReads[1] /\ UNCHANGED rbacFindings
  <2>1. rbacPc' # "done"
    BY <1>4, RbacOrder
  <2>2. RbacTypes' /\ OnlyErrors'
    BY <1>4 DEF KubeInv, RbacTypes, OnlyErrors
  <2>3. StableGrantIsReported' /\ PassMeansSteadilySafe'
    BY <2>1, <2>2 DEF OnlyErrors, StableGrantIsReported, PassMeansSteadilySafe, Inventoried
  <2>4. QED BY <1>1, <1>2, <1>3, <2>2, <2>3 DEF KubeInv
<1>5. CASE rbacPc' = "done" /\ rbacFindings' = {RbacFinding("connection", "INFO", Cluster, {})}
  <2>1. \A f \in rbacFindings' : f.severity = "INFO" /\ f.check = "connection" /\ Risk!FindingOK(f)
    BY <1>5, RbacFindingType, Severities
  <2>2. Says(rbacFindings, "connection")'
    BY <1>5, <2>1 DEF Says
  <2>3. RbacTypes' /\ OnlyErrors'
    BY <1>5, <2>1 DEF KubeInv, RbacTypes, OnlyErrors
  <2>4. StableGrantIsReported' /\ PassMeansSteadilySafe'
    BY <2>1, <2>2 DEF StableGrantIsReported, PassMeansSteadilySafe, Inventoried
  <2>5. QED BY <1>1, <1>2, <1>3, <2>3, <2>4 DEF KubeInv
<1>6. QED BY <1>4, <1>5

LEMMA FailKeeps ==
  ASSUME KubeInv, NEW read \in RbacReadNames, RbacReadFails(read),
         UNCHANGED <<apiVars, postureVars>>, posturePc = "done"
  PROVE  KubeInv'
<1> USE DEF RbacReadFails
<1>1. HostedOK' /\ PostureTypes' /\ \A k : rules'[k] = rules[k]
  BY RbacLeaves
<1>2. InTurn' /\ NotAhead'
  BY RbacNextRead DEF KubeInv, InTurn, NotAhead, postureVars, RbacReadNames
<1>3. RbacTypes' /\ OnlyErrors'
  <2>1. LET f == RbacFinding(read, "ERROR", Cluster, {})
        IN  Risk!FindingOK(f) /\ f.severity = "ERROR"
    BY RbacFindingType, Severities
  <2>2. QED BY <2>1 DEF KubeInv, RbacTypes, OnlyErrors, RbacReadNames
<1>4. \A other \in RbacReadNames : HasRead(other)' => HasRead(other)
  BY RbacNextRead DEF HasRead, Over, RbacReadNames
<1>5. RolesKnown'
  <2>1. \A k : Known(k)' <=> Known(k)
    BY <1>1 DEF Known
  <2>2. QED BY <1>4, <2>1 DEF KubeInv, RolesKnown, RbacReadNames, apiVars
<1>6. BindingsListed'
  BY <1>4 DEF KubeInv, BindingsListed, RbacReadNames, apiVars
<1>7. rbacPc' # "done"
  BY RbacNextRead DEF RbacReadNames
<1>8. StableGrantIsReported' /\ PassMeansSteadilySafe'
  BY <1>3, <1>7 DEF OnlyErrors, StableGrantIsReported, PassMeansSteadilySafe, Inventoried
<1>9. QED BY <1>1, <1>2, <1>3, <1>5, <1>6, <1>8 DEF KubeInv

\* The keys of one kind of role are indexed as they are.
LEMMA RolesKeep ==
  ASSUME KubeInv, UNCHANGED <<apiVars, postureVars>>, posturePc = "done",
         NEW read, NEW kind, ReadRoles(read, kind),
         \/ read = "clusterroles" /\ kind = "ClusterRole"
         \/ read = "roles" /\ kind = "Role"
  PROVE  KubeInv'
<1> USE DEF ReadRoles
<1>1. HostedOK' /\ PostureTypes' /\ \A k : rules'[k] = rules[k]
  BY RbacLeaves
<1>2. /\ DOMAIN roleIndex' = DOMAIN roleIndex \union Listed(kind)
      /\ \A k \in Listed(kind) : roleIndex'[k] = rules[k].rules
      /\ \A k \in DOMAIN roleIndex \ Listed(kind) : roleIndex'[k] = roleIndex[k]
  OBVIOUS
<1>3. /\ read = "clusterroles" => rbacPc' = "roles"
      /\ read = "roles" => rbacPc' = "clusterrolebindings"
  BY RbacNextRead
<1>4. InTurn'
  BY <1>3 DEF KubeInv, InTurn, postureVars, RbacReadNames
<1>5. NotAhead'
  BY <1>2, <1>3 DEF KubeInv, NotAhead, Listed
<1>6. OnlyErrors'
  BY DEF KubeInv, OnlyErrors
<1>7. RbacTypes'
  <2>1. ASSUME NEW k \in Listed(kind) PROVE rules[k].rules \in RuleSets \union {{}}
    <3>1. rules[k] \in Role /\ rules[k].is = "listed"
      BY DEF Listed, KubeInv, HostedOK, ClusterOK
    <3>2. QED BY <3>1 DEF Role, Ruled, NoRules, Absent
  <2>2. QED BY <1>2, <2>1 DEF KubeInv, RbacTypes, Listed
<1>8. \A k \in RoleKeys : k.kind = kind => Known(k)'
  <2>1. \A k \in DOMAIN roleIndex : k.kind # kind
    BY DEF KubeInv, NotAhead
  <2>2. QED BY <1>1, <1>2, <2>1 DEF Known, Listed
<1>9. \A k \in RoleKeys : k.kind # kind /\ Known(k) => Known(k)'
  BY <1>1, <1>2 DEF Known, Listed
<1>10. RolesKnown'
  <2>1. ASSUME NEW b \in steadyBindings'
        PROVE  \/ b.refKind = "ClusterRole" /\ ~HasRead("clusterroles")'
               \/ b.refKind = "Role" /\ ~HasRead("roles")'
               \/ Known(RefKey(b))'
    <3>1. b \in steadyBindings /\ RefKey(b) \in RoleKeys /\ RefKey(b).kind = b.refKind
          /\ b.refKind \in {"ClusterRole", "Role"}
      <4>1. b \in steadyBindings
        BY DEF apiVars
      <4>2. b \in Bindings
        BY <4>1 DEF KubeInv, HostedOK, ClusterOK
      <4>3. RefKey(b).kind = b.refKind
        BY DEF RefKey
      <4>4. QED BY <4>1, <4>2, <4>3, BindingsAssumption
    <3>2. CASE b.refKind = kind
      BY <3>1, <3>2, <1>8
    <3>3. CASE b.refKind # kind
      <4>1. \/ b.refKind = "ClusterRole" /\ ~HasRead("clusterroles")
            \/ b.refKind = "Role" /\ ~HasRead("roles")
            \/ Known(RefKey(b))
        BY <3>1 DEF KubeInv, RolesKnown
      <4>2. CASE read = "clusterroles"
        BY <4>2, <3>1, <3>3, <1>3 DEF HasRead, Over
      <4>3. CASE read = "roles"
        <5>1. HasRead("clusterroles")' <=> HasRead("clusterroles")
          BY <4>3, <1>3 DEF HasRead, Over
        <5>2. QED BY <4>1, <4>3, <5>1, <3>1, <3>3, <1>9
      <4>4. QED BY <4>2, <4>3
    <3>4. QED BY <3>2, <3>3
  <2>2. QED BY <2>1 DEF RolesKnown
<1>11. BindingsListed'
  <2>1. ~HasRead("clusterrolebindings")' /\ ~HasRead("rolebindings")'
    BY <1>3 DEF HasRead, Over
  <2>2. \A b \in steadyBindings' : b \in Bindings
    BY <1>1 DEF HostedOK, ClusterOK
  <2>3. QED BY <2>1, <2>2, BindingsAssumption DEF BindingsListed
<1>12. StableGrantIsReported' /\ PassMeansSteadilySafe'
  BY <1>3, <1>6 DEF OnlyErrors, StableGrantIsReported, PassMeansSteadilySafe, Inventoried
<1>13. QED BY <1>1, <1>4, <1>5, <1>6, <1>7, <1>10, <1>11, <1>12 DEF KubeInv

\* The bindings of one kind are on the list.
LEMMA BindingsKeep ==
  ASSUME KubeInv, UNCHANGED <<apiVars, postureVars>>, posturePc = "done",
         NEW read, NEW kind, ReadBindings(read, kind),
         \/ read = "clusterrolebindings" /\ kind = "ClusterRoleBinding"
         \/ read = "rolebindings" /\ kind = "RoleBinding"
  PROVE  KubeInv'
<1> USE DEF ReadBindings
<1>1. HostedOK' /\ PostureTypes' /\ \A k : rules'[k] = rules[k]
  BY RbacLeaves
<1>2. /\ read = "clusterrolebindings" => rbacPc' = "rolebindings"
      /\ read = "rolebindings" => rbacPc' = "analyze"
  BY RbacNextRead
<1>3. InTurn'
  BY <1>2 DEF KubeInv, InTurn, postureVars, RbacReadNames
<1>4. NotAhead' /\ OnlyErrors'
  BY <1>2 DEF KubeInv, NotAhead, OnlyErrors
<1>5. RbacTypes'
  BY DEF KubeInv, RbacTypes, HostedOK, ClusterOK
<1>6. RolesKnown'
  <2>1. \A k : Known(k)' <=> Known(k)
    BY <1>1 DEF Known
  <2>2. (HasRead("clusterroles")' <=> HasRead("clusterroles"))
        /\ (HasRead("roles")' <=> HasRead("roles"))
    BY <1>2 DEF HasRead, Over
  <2>3. QED BY <2>1, <2>2 DEF KubeInv, RolesKnown, apiVars
<1>7. BindingsListed'
  <2>1. ASSUME NEW b \in steadyBindings'
        PROVE  \/ b.kind = "ClusterRoleBinding" /\ ~HasRead("clusterrolebindings")'
               \/ b.kind = "RoleBinding" /\ ~HasRead("rolebindings")'
               \/ b \in bindingList'
    <3>1. b \in steadyBindings
      BY DEF apiVars
    <3>2. b \in bound /\ b \in Bindings
      BY <3>1 DEF KubeInv, HostedOK, ClusterOK
    <3>3. CASE b.kind = kind
      BY <3>2, <3>3
    <3>4. CASE b.kind # kind
      <4>1. \/ b.kind = "ClusterRoleBinding" /\ ~HasRead("clusterrolebindings")
            \/ b.kind = "RoleBinding" /\ ~HasRead("rolebindings")
            \/ b \in bindingList
        BY <3>1 DEF KubeInv, BindingsListed
      <4>2. CASE read = "clusterrolebindings"
        <5>1. ~HasRead("rolebindings")'
          BY <4>2, <1>2 DEF HasRead, Over
        <5>2. QED BY <4>2, <5>1, <3>2, <3>4, BindingsAssumption
      <4>3. CASE read = "rolebindings"
        <5>1. HasRead("clusterrolebindings")' <=> HasRead("clusterrolebindings")
          BY <4>3, <1>2 DEF HasRead, Over
        <5>2. QED BY <4>1, <4>3, <5>1, <3>2, <3>4, BindingsAssumption
      <4>4. QED BY <4>2, <4>3
    <3>5. QED BY <3>3, <3>4
  <2>2. QED BY <2>1 DEF BindingsListed
<1>8. StableGrantIsReported' /\ PassMeansSteadilySafe'
  BY <1>2, <1>4 DEF OnlyErrors, StableGrantIsReported, PassMeansSteadilySafe, Inventoried
<1>9. QED BY <1>1, <1>3, <1>4, <1>5, <1>6, <1>7, <1>8 DEF KubeInv

\* After four good reads everything steady is at hand.
LEMMA AllAtHand ==
  ASSUME KubeInv, rbacPc = "analyze", rbacFailed = {}, NEW b \in steadyBindings
  PROVE  b \in bindingList /\ Known(RefKey(b)) /\ RefKey(b) \in RoleKeys
<1>1. HasRead("clusterroles") /\ HasRead("roles") /\ HasRead("clusterrolebindings")
      /\ HasRead("rolebindings")
  BY DEF HasRead, Over
<1>2. b \in bindingList
  BY <1>1 DEF KubeInv, BindingsListed
<1>3. Known(RefKey(b))
  BY <1>1 DEF KubeInv, RolesKnown
<1>4. b \in Bindings
  BY DEF KubeInv, HostedOK, ClusterOK
<1>5. QED BY <1>2, <1>3, <1>4, BindingsAssumption

\* What is found about one binding has a severity and is no PASS.
LEMMA BindingFindingTypes ==
  ASSUME NEW b, NEW index, NEW f \in AnalyzeBinding(b, index)
  PROVE  Risk!FindingOK(f) /\ f.severity # "PASS"
<1> DEFINE Made(g) == \E check, resource, subjects :
             \E severity \in {"CRITICAL", "HIGH", "INFO", "ERROR"} :
               g = RbacFinding(check, severity, resource, subjects)
<1>1. \A g : Made(g) => Risk!FindingOK(g) /\ g.severity # "PASS"
  BY RbacFindingType, Severities
<1>2. \A g \in ClusterAdminFindings(b) : Made(g)
  BY DEF ClusterAdminFindings
<1>3. \A d : Made(RbacFinding(d, "HIGH", BindingId(b), Identities(b)))
  OBVIOUS
<1>4. Made(RbacFinding("binding_role_ref", "ERROR", BindingId(b), {}))
  OBVIOUS
<1> HIDE DEF Made
<1>5. Made(f)
  BY <1>2, <1>3, <1>4 DEF AnalyzeBinding
<1>6. QED BY <1>1, <1>5

LEMMA AnalyzeKeeps ==
  ASSUME KubeInv, Analyze, UNCHANGED <<apiVars, postureVars>>, posturePc = "done"
  PROVE  KubeInv'
<1> USE DEF Analyze
<1>1. HostedOK' /\ PostureTypes' /\ \A k : rules'[k] = rules[k]
  BY RbacLeaves
<1>2. InTurn' /\ NotAhead' /\ OnlyErrors'
  BY DEF KubeInv, InTurn, NotAhead, OnlyErrors, postureVars
<1>3. RolesKnown' /\ BindingsListed'
  <2>1. ~HasRead("clusterroles")' /\ ~HasRead("roles")' /\ ~HasRead("clusterrolebindings")'
        /\ ~HasRead("rolebindings")'
    BY DEF HasRead, Over
  <2>2. \A b \in steadyBindings' : b \in Bindings
    BY <1>1 DEF HostedOK, ClusterOK
  <2>3. \A b \in Bindings : b.refKind \in {"ClusterRole", "Role"}
    BY BindingsAssumption DEF RefKey
  <2>4. QED BY <2>1, <2>2, <2>3, BindingsAssumption DEF RolesKnown, BindingsListed
<1>4. \A f \in BindingFindings : Risk!FindingOK(f) /\ f.severity # "PASS"
  BY BindingFindingTypes DEF BindingFindings
<1> DEFINE pass == RbacFinding("bound_privilege", "PASS", Cluster, {})
<1>5. Risk!FindingOK(pass) /\ pass.severity = "PASS"
  BY RbacFindingType, Severities
<1> HIDE DEF pass
<1>6. rbacFindings' = IF rbacFailed # {} THEN rbacFindings
                      ELSE IF BindingFindings = {} THEN {pass} ELSE BindingFindings
  BY DEF pass
<1>7. \A f \in rbacFindings : Risk!FindingOK(f) /\ f.severity # "PASS"
  BY DEF KubeInv, RbacTypes, OnlyErrors
<1>8. RbacTypes'
  BY <1>4, <1>5, <1>6, <1>7 DEF KubeInv, RbacTypes
<1>9. ASSUME NEW b \in steadyBindings, rbacFailed = {}, NEW d \in Granted(b)
      PROVE  RbacFinding(d, "HIGH", BindingId(b), Identities(b)) \in BindingFindings
  <2>1. b \in bindingList /\ Known(RefKey(b)) /\ RefKey(b) \in RoleKeys
    BY <1>9, AllAtHand
  <2>2. rules[RefKey(b)].is = "listed"
    BY <2>1, OnlyListedGrant DEF KubeInv, Granted
  <2>3. RefKey(b) \in DOMAIN roleIndex /\ d \in Dangers(roleIndex[RefKey(b)])
    BY <2>1, <2>2 DEF Known, Granted
  <2>4. RbacFinding(d, "HIGH", BindingId(b), Identities(b)) \in AnalyzeBinding(b, roleIndex)
    BY <2>3 DEF AnalyzeBinding
  <2>5. QED BY <2>1, <2>4 DEF BindingFindings
<1>10. \A b : Granted(b)' = Granted(b)
  BY <1>1 DEF Granted, RefKey
<1>11. StableGrantIsReported'
  <2> SUFFICES ASSUME rbacFailed = {}, NEW b \in steadyBindings, NEW d \in Granted(b)
               PROVE  \E f \in rbacFindings' :
                        f.check = d /\ f.resource = BindingId(b) /\ f.severity = "HIGH"
    BY <1>10 DEF StableGrantIsReported, Inventoried, apiVars, BindingId
  <2> DEFINE g == RbacFinding(d, "HIGH", BindingId(b), Identities(b))
  <2>1. g \in BindingFindings
    BY <1>9
  <2>2. g.check = d /\ g.resource = BindingId(b) /\ g.severity = "HIGH"
    BY RbacFindingType, Severities
  <2> HIDE DEF g
  <2>3. g \in rbacFindings'
    BY <1>6, <2>1
  <2>4. QED BY <2>2, <2>3
<1>12. PassMeansSteadilySafe'
  <2> SUFFICES ASSUME \E f \in rbacFindings' : f.severity = "PASS"
               PROVE  PassMeansSteadilySafe'
    BY DEF PassMeansSteadilySafe
  <2>1. rbacFailed = {} /\ BindingFindings = {} /\ rbacFindings' = {pass}
    BY <1>4, <1>6, <1>7
  <2>2. Cardinality(rbacFindings') = 1
    BY <2>1, FS_Singleton
  <2>3. ASSUME NEW b \in steadyBindings
        PROVE  /\ rules[RefKey(b)].is = "listed" /\ Granted(b) = {}
               /\ b.refKind = "ClusterRole" /\ b.refName = "cluster-admin" => b.subjects = {}
    <3>1. b \in bindingList /\ Known(RefKey(b)) /\ RefKey(b) \in RoleKeys
      BY <2>1, AllAtHand
    <3>2. AnalyzeBinding(b, roleIndex) = {}
      BY <2>1, <3>1 DEF BindingFindings
    <3>3. RefKey(b) \in DOMAIN roleIndex
      BY <3>2 DEF AnalyzeBinding
    <3>4. ClusterAdminFindings(b) = {}
      BY <3>2, <3>3 DEF AnalyzeBinding
    <3>5. Granted(b) = {}
      BY <1>9, <2>1
    <3>6. b.refKind = "ClusterRole" /\ b.refName = "cluster-admin" => b.subjects = {}
      BY <3>4 DEF ClusterAdminFindings
    <3>7. QED BY <3>1, <3>3, <3>5, <3>6 DEF Known
  <2>4. QED BY <2>1, <2>2, <2>3, <1>1, <1>10 DEF PassMeansSteadilySafe, apiVars, RefKey
<1>13. QED BY <1>1, <1>2, <1>3, <1>8, <1>11, <1>12 DEF KubeInv

-----------------------------------------------------------------------------
LEMMA StepKeeps == KubeInv /\ [Next]_vars => KubeInv'
<1> SUFFICES ASSUME KubeInv, [Next]_vars PROVE KubeInv'
  OBVIOUS
<1>1. CASE PostureStep
  BY <1>1, PostureKeeps
<1>2. CASE OthersStep
  BY <1>2, OthersKeep
<1>3. CASE UNCHANGED vars
  BY <1>3, StutterKeeps
<1>4. CASE RbacStep
  <2>1. UNCHANGED <<apiVars, postureVars>> /\ posturePc = "done"
    BY <1>4 DEF RbacStep
  <2>2. CASE RbacClient
    BY <2>1, <2>2, ClientKeeps
  <2>3. CASE Analyze
    BY <2>1, <2>3, AnalyzeKeeps
  <2>4. CASE RbacRead
    <3>1. CASE ReadRoles("clusterroles", "ClusterRole")
      BY <2>1, <3>1, RolesKeep
    <3>2. CASE ReadRoles("roles", "Role")
      BY <2>1, <3>2, RolesKeep
    <3>3. CASE \/ ReadBindings("clusterrolebindings", "ClusterRoleBinding")
               \/ ReadBindings("rolebindings", "RoleBinding")
      BY <2>1, <3>3, BindingsKeep
    <3>4. CASE \E read \in RbacReadNames : RbacReadFails(read)
      BY <2>1, <3>4, FailKeeps
    <3>5. QED BY <2>4, <3>1, <3>2, <3>3, <3>4, RbacSteps
  <2>5. QED BY <1>4, <2>2, <2>3, <2>4 DEF RbacStep, RbacNext
<1>5. QED BY <1>1, <1>2, <1>3, <1>4 DEF Next

\* The inductive invariant holds in every state of a scan: the roles and bindings that
\* nobody has touched are known to rbac as they are once they have been read.
THEOREM KubeInvariant == Spec => []KubeInv
<1>1. QED BY InitInv, StepKeeps, PTL DEF Spec

\* Everything both scanners read, index and report keeps its type.
THEOREM KubeTypes == Spec => []TypeOK
<1>1. KubeInv => TypeOK
  BY ReadNames DEF KubeInv, HostedOK, PostureTypes, RbacTypes, TypeOK
<1>2. QED BY <1>1, KubeInvariant, PTL

\* A dangerous grant that stays while others change the cluster is reported
\* (rbac.py reads the roles before the bindings).
THEOREM StableGrants == Spec => []StableGrantIsReported
<1>1. KubeInv => StableGrantIsReported
  BY DEF KubeInv
<1>2. QED BY <1>1, KubeInvariant, PTL

\* The PASS of rbac is about a whole inventory without a steady danger in it.
THEOREM PassIsSafe == Spec => []PassMeansSteadilySafe
<1>1. KubeInv => PassMeansSteadilySafe
  BY DEF KubeInv
<1>2. QED BY <1>1, KubeInvariant, PTL

-----------------------------------------------------------------------------
(* What the risk engine may conclude                                       *)

\* The reads of posture that are over, while the scan goes on.
PostureOver(read) ==
  CASE read = "pods" -> {"serviceaccounts", "networkpolicies", "judge"}
    [] read = "serviceaccounts" -> {"networkpolicies", "judge"}

PostureHas(read) == posturePc \in PostureOver(read) /\ read \notin postureFailed

Usage(p) ==
  PostureFinding("service_account_token_usage", "INFO", <<"ServiceAccount", AccountOf(p)>>,
                 {AccountOf(p)})

Grant(d, b) == RbacFinding(d, "HIGH", BindingId(b), Identities(b))

\* All lists are finite.
ListsOK ==
  /\ IsFiniteSet(bound) /\ IsFiniteSet(pods) /\ IsFiniteSet(policies)
  /\ IsFiniteSet(podList) /\ IsFiniteSet(policyList) /\ IsFiniteSet(bindingList)
  /\ IsFiniteSet(postureFindings) /\ IsFiniteSet(rbacFindings)

\* Of a steady Pod posture knows what it has read, and reports its token in the end.
TokensKnown ==
  \A p \in steadyPods :
    /\ PostureHas("pods") => p \in podList
    /\ PostureHas("serviceaccounts") =>
         (TokenMounted(p, accountIndex) <=> TokenReallyMounted(p))
    /\ /\ posturePc = "done" /\ ~Says(postureFindings, "connection") /\ postureFailed = {}
       /\ TokenReallyMounted(p)
       => Usage(p) \in postureFindings

\* An account that posture names is that of a Pod it saw, with its token.
UsersSeen ==
  \A f \in postureFindings :
    /\ f.service = "posture"
    /\ \/ f.subjects = {}
       \/ /\ posturePc = "done"
          /\ \E p \in podList : TokenMounted(p, accountIndex) /\ f.subjects = {AccountOf(p)}

\* The accounts that rbac names are those of a binding it read.
GrantsSeen ==
  \A f \in rbacFindings :
    /\ f.service = "rbac"
    /\ \/ f.subjects = {}
       \/ /\ rbacPc = "done"
          /\ \E b \in bindingList : f.resource = BindingId(b) /\ f.subjects = Identities(b)

\* A dangerous grant that stays is reported with its accounts.
GrantsReported ==
  rbacPc = "done" /\ ~Says(rbacFindings, "connection") /\ rbacFailed = {} =>
    \A b \in steadyBindings : \A d \in Granted(b) : Grant(d, b) \in rbacFindings

RiskInv == ListsOK /\ TokensKnown /\ UsersSeen /\ GrantsSeen /\ GrantsReported
LEMMA RiskInit == Init => RiskInv
<1> SUFFICES ASSUME Init PROVE RiskInv
  OBVIOUS
<1> USE DEF Init, PostureInit, RbacInit
<1>1. ListsOK
  <2>1. IsFiniteSet(bound) /\ IsFiniteSet(pods) /\ IsFiniteSet(policies)
    BY ClusterAssumption DEF ApiInit
  <2>2. QED BY <2>1, FS_EmptySet DEF ListsOK
<1>2. TokensKnown
  BY DEF TokensKnown, PostureHas, PostureOver
<1>3. UsersSeen /\ GrantsSeen /\ GrantsReported
  BY DEF UsersSeen, GrantsSeen, GrantsReported
<1>4. QED BY <1>1, <1>2, <1>3 DEF RiskInv

LEMMA RiskStutter ==
  ASSUME RiskInv, UNCHANGED vars
  PROVE  RiskInv'
<1> USE DEF vars, apiVars, postureVars, rbacVars, RiskInv
<1>1. ListsOK'
  BY DEF ListsOK
<1>2. TokensKnown'
  BY DEF TokensKnown, PostureHas, PostureOver, TokenMounted, TokenReallyMounted, Says
<1>3. UsersSeen' /\ GrantsSeen'
  BY DEF UsersSeen, GrantsSeen, TokenMounted
<1>4. GrantsReported'
  BY DEF GrantsReported, Says, Granted
<1>5. QED BY <1>1, <1>2, <1>3, <1>4

\* Adding or removing one object keeps a list finite.
LEMMA OneMoreOrLess ==
  ASSUME NEW S, IsFiniteSet(S), NEW x
  PROVE  IsFiniteSet(S \ {x}) /\ IsFiniteSet(S \union {x})
BY FS_Subset, FS_Singleton, FS_Union

\* What others touch is no longer steady.
LEMMA RiskOthers ==
  ASSUME KubeInv, RiskInv, OthersStep
  PROVE  RiskInv'
<1> USE DEF OthersStep
<1>1. ListsOK'
  <2> USE DEF RiskInv, ListsOK, postureVars, rbacVars
  <2>1. ASSUME NEW k \in RoleKeys, NEW to \in Role, ChangeRole(k, to) PROVE ListsOK'
    BY <2>1 DEF ChangeRole
  <2>2. ASSUME NEW b \in Bindings, ChangeBinding(b) PROVE ListsOK'
    BY <2>2, OneMoreOrLess DEF ChangeBinding
  <2>3. ASSUME NEW p \in Pods, ChangePod(p) PROVE ListsOK'
    BY <2>3, OneMoreOrLess DEF ChangePod
  <2>4. ASSUME NEW sa \in Accounts, NEW to \in Automount \union {Missing}, ChangeAccount(sa, to)
        PROVE  ListsOK'
    BY <2>4 DEF ChangeAccount
  <2>5. ASSUME NEW n \in Policies, ChangePolicy(n) PROVE ListsOK'
    BY <2>5, OneMoreOrLess DEF ChangePolicy
  <2>6. QED BY <2>1, <2>2, <2>3, <2>4, <2>5 DEF Others
<1>2. UsersSeen' /\ GrantsSeen'
  BY DEF RiskInv, UsersSeen, GrantsSeen, postureVars, rbacVars
<1>3. GrantsReported'
  BY DEF GrantsReported, rbacVars
<1>4. /\ steadyPods' \subseteq steadyPods
      /\ \A p \in steadyPods' : automount'[AccountOf(p)] = automount[AccountOf(p)]
  <2> DEFINE Fewer == /\ steadyPods' \subseteq steadyPods
                      /\ \A p \in steadyPods' : automount'[AccountOf(p)] = automount[AccountOf(p)]
  <2>1. ASSUME NEW k \in RoleKeys, NEW to \in Role, ChangeRole(k, to) PROVE Fewer
    BY <2>1 DEF ChangeRole
  <2>2. ASSUME NEW b \in Bindings, ChangeBinding(b) PROVE Fewer
    BY <2>2 DEF ChangeBinding
  <2>3. ASSUME NEW p \in Pods, ChangePod(p) PROVE Fewer
    BY <2>3 DEF ChangePod
  <2>4. ASSUME NEW sa \in Accounts, NEW to \in Automount \union {Missing}, ChangeAccount(sa, to)
        PROVE  Fewer
    <3>1. automount \in [Accounts -> Automount \union {Missing}]
      BY DEF KubeInv, HostedOK, ClusterOK
    <3>2. \A a \in Accounts : a # sa => automount'[a] = automount[a]
      BY <2>4, <3>1 DEF ChangeAccount
    <3>3. steadyPods' = {p \in steadyPods : AccountOf(p) # sa}
      BY <2>4 DEF ChangeAccount
    <3>4. \A p \in steadyPods : AccountOf(p) \in Accounts
      BY PodsAssumption DEF KubeInv, HostedOK, ClusterOK
    <3>5. QED BY <3>2, <3>3, <3>4
  <2>5. ASSUME NEW n \in Policies, ChangePolicy(n) PROVE Fewer
    BY <2>5 DEF ChangePolicy
  <2>6. QED BY <2>1, <2>2, <2>3, <2>4, <2>5 DEF Others
<1>5. TokensKnown'
  <2>1. \A p \in steadyPods' : TokenReallyMounted(p)' <=> TokenReallyMounted(p)
    BY <1>4 DEF TokenReallyMounted, AccountOf
  <2>2. \A read : PostureHas(read)' <=> PostureHas(read)
    BY DEF PostureHas, PostureOver, postureVars
  <2>3. QED BY <1>4, <2>1, <2>2 DEF RiskInv, TokensKnown, postureVars, TokenMounted, Says
<1>6. QED BY <1>1, <1>2, <1>3, <1>5 DEF RiskInv

\* Finitely many objects give finitely many findings.
LEMMA FinitePostureFindings ==
  ASSUME NEW list, IsFiniteSet(list), NEW index, NEW nets, IsFiniteSet(nets)
  PROVE  /\ IsFiniteSet(TokenUsage(list, index)) /\ IsFiniteSet(DefaultTokens(list, index))
         /\ IsFiniteSet(Unpoliced(list, nets)) /\ IsFiniteSet(AllowAll(nets))
<1> DEFINE users == Mounting(list, index)
           lax == {q \in users : q.sa = "default"}
           spaces == {p.ns : p \in list}
           open == {m \in nets : m.allowAll}
           usage == [p \in users |-> Usage(p)]
           token == [p \in lax |-> PostureFinding("default_service_account_token", "LOW",
                                                  <<"Namespace", p.ns>>, {})]
           space == [p \in list |-> p.ns]
           bare == [ns \in spaces \ {n.ns : n \in nets} |->
                     PostureFinding("namespace_without_networkpolicy", "LOW",
                                    <<"Namespace", ns>>, {})]
           all == [n \in open |-> PostureFinding("allow_all_networkpolicy", "MEDIUM",
                                                 <<"NetworkPolicy", n.ns, n.name>>, {})]
           values(f) == {f[x] : x \in DOMAIN f}
<1>1. \A found, check : IsFiniteSet(found) => IsFiniteSet(OrPass(found, check))
  BY FS_Singleton DEF OrPass
<1>2. IsFiniteSet(users) /\ IsFiniteSet(lax) /\ IsFiniteSet(open)
  BY FS_Subset DEF Mounting
<1>3. ASSUME NEW f, IsFiniteSet(DOMAIN f), f = [x \in DOMAIN f |-> f[x]]
      PROVE  IsFiniteSet(values(f))
  BY <1>3, FiniteImage
<1>4. IsFiniteSet(values(usage)) /\ IsFiniteSet(values(token)) /\ IsFiniteSet(values(all))
  <2>1. /\ DOMAIN usage = users /\ usage = [x \in DOMAIN usage |-> usage[x]]
        /\ DOMAIN token = lax /\ token = [x \in DOMAIN token |-> token[x]]
        /\ DOMAIN all = open /\ all = [x \in DOMAIN all |-> all[x]]
    OBVIOUS
  <2> HIDE DEF users, lax, open, usage, token, all, values
  <2>2. QED BY <1>2, <1>3, <2>1
<1>5. IsFiniteSet(values(bare))
  <2>1. /\ DOMAIN space = list /\ space = [x \in DOMAIN space |-> space[x]]
        /\ values(space) = spaces
    OBVIOUS
  <2>2. /\ DOMAIN bare = spaces \ {n.ns : n \in nets}
        /\ bare = [x \in DOMAIN bare |-> bare[x]]
    OBVIOUS
  <2> HIDE DEF space, spaces, bare, values
  <2>3. IsFiniteSet(spaces)
    BY <1>3, <2>1
  <2>4. IsFiniteSet(DOMAIN bare)
    <3>1. DOMAIN bare \subseteq spaces
      BY <2>2
    <3>2. QED BY <2>3, <3>1, FS_Subset
  <2>5. QED BY <1>3, <2>2, <2>4
<1>6. /\ TokenUsage(list, index) = OrPass(values(usage), "service_account_token_usage")
      /\ DefaultTokens(list, index) = OrPass(values(token), "default_service_account_token")
      /\ Unpoliced(list, nets) = OrPass(values(bare), "namespace_without_networkpolicy")
      /\ AllowAll(nets) = OrPass(values(all), "allow_all_networkpolicy")
  BY DEF TokenUsage, DefaultTokens, Unpoliced, AllowAll, Usage
<1> HIDE DEF usage, token, bare, all, values
<1>7. QED BY <1>1, <1>4, <1>5, <1>6

LEMMA FiniteBindingFindings ==
  ASSUME IsFiniteSet(bindingList)
  PROVE  IsFiniteSet(BindingFindings)
<1> DEFINE four == {"bound_wildcard", "secret_read", "pod_exec", "impersonate"}
           grants(b) == [d \in Dangers(roleIndex[RefKey(b)]) |-> Grant(d, b)]
           about == [b \in bindingList |-> AnalyzeBinding(b, roleIndex)]
<1>1. IsFiniteSet(four)
  <2>1. \A S, T : IsFiniteSet(S) /\ IsFiniteSet(T) => IsFiniteSet(S \union T)
    BY FS_Union
  <2>2. \A x, y : IsFiniteSet({x, y})
    <3> SUFFICES ASSUME NEW x, NEW y PROVE IsFiniteSet({x, y})
      OBVIOUS
    <3>1. IsFiniteSet({x} \union {y})
      BY <2>1, FS_Singleton
    <3>2. {x, y} = {x} \union {y}
      OBVIOUS
    <3>3. QED BY <3>1, <3>2
  <2>3. IsFiniteSet({"bound_wildcard", "secret_read"} \union {"pod_exec", "impersonate"})
    BY <2>1, <2>2
  <2>4. four = {"bound_wildcard", "secret_read"} \union {"pod_exec", "impersonate"}
    OBVIOUS
  <2> HIDE DEF four
  <2>5. QED BY <2>3, <2>4
<1>2. \A b \in bindingList : IsFiniteSet(AnalyzeBinding(b, roleIndex))
  <2> SUFFICES ASSUME NEW b \in bindingList PROVE IsFiniteSet(AnalyzeBinding(b, roleIndex))
    OBVIOUS
  <2>1. Dangers(roleIndex[RefKey(b)]) \subseteq four
    BY DEF Dangers
  <2>2. IsFiniteSet(Dangers(roleIndex[RefKey(b)]))
    <3> DEFINE ds == Dangers(roleIndex[RefKey(b)])
    <3> HIDE DEF four, ds
    <3>1. ds \subseteq four
      BY <2>1 DEF ds
    <3>2. IsFiniteSet(ds)
      BY <1>1, <3>1, FS_Subset
    <3>3. QED BY <3>2 DEF ds
  <2> DEFINE g == grants(b)
             said == {g[d] : d \in DOMAIN g}
  <2>3. IsFiniteSet(said)
    <3>1. DOMAIN g = Dangers(roleIndex[RefKey(b)]) /\ g = [d \in DOMAIN g |-> g[d]]
      OBVIOUS
    <3> HIDE DEF g
    <3>2. QED BY <2>2, <3>1, FiniteImage
  <2>4. IsFiniteSet(ClusterAdminFindings(b))
    BY FS_Singleton, FS_EmptySet DEF ClusterAdminFindings
  <2>5. \/ AnalyzeBinding(b, roleIndex) =
              {RbacFinding("binding_role_ref", "ERROR", BindingId(b), {})}
        \/ AnalyzeBinding(b, roleIndex) = ClusterAdminFindings(b) \union said
    BY DEF AnalyzeBinding, Grant
  <2> HIDE DEF said
  <2>6. IsFiniteSet(ClusterAdminFindings(b) \union said)
    BY <2>3, <2>4, FS_Union
  <2>7. IsFiniteSet({RbacFinding("binding_role_ref", "ERROR", BindingId(b), {})})
    BY FS_Singleton
  <2>8. QED BY <2>5, <2>6, <2>7
<1>3. IsFiniteSet({about[b] : b \in DOMAIN about})
  <2>1. DOMAIN about = bindingList /\ about = [b \in DOMAIN about |-> about[b]]
    OBVIOUS
  <2> HIDE DEF about
  <2>2. QED BY <2>1, FiniteImage
<1> DEFINE parts == {about[b] : b \in DOMAIN about}
<1>4. \A x \in parts : IsFiniteSet(x)
  BY <1>2
<1>5. BindingFindings = UNION parts
  BY DEF BindingFindings
<1> HIDE DEF parts
<1>6. QED BY <1>3, <1>4, <1>5, FS_UNION DEF parts

LEMMA PostureFindingParts ==
  ASSUME NEW check, NEW severity, NEW resource, NEW subjects
  PROVE  LET f == PostureFinding(check, severity, resource, subjects)
         IN  f.service = "posture" /\ f.check = check /\ f.subjects = subjects
BY DEF PostureFinding

LEMMA RbacFindingParts ==
  ASSUME NEW check, NEW severity, NEW resource, NEW subjects
  PROVE  LET f == RbacFinding(check, severity, resource, subjects)
         IN  f.service = "rbac" /\ f.check = check /\ f.subjects = subjects
             /\ f.resource = resource
BY DEF RbacFinding

\* posture reports the tokens of the Pods it judges.
LEMMA JudgedFindings ==
  ASSUME Judge, RiskInv
  PROVE  /\ IsFiniteSet(postureFindings')
         /\ \A f \in postureFindings' :
              /\ f.service = "posture"
              /\ \/ f.subjects = {}
                 \/ \E p \in podList : TokenMounted(p, accountIndex) /\ f.subjects = {AccountOf(p)}
         /\ postureFailed = {} =>
              \A p \in podList : TokenMounted(p, accountIndex) => Usage(p) \in postureFindings'
<1> DEFINE have == {PostureReads[i] : i \in DOMAIN PostureReads} \ postureFailed
           When(needs, found) == IF needs \subseteq have THEN found ELSE {}
           a == When({"pods", "serviceaccounts"}, TokenUsage(podList, accountIndex)
                                                  \union DefaultTokens(podList, accountIndex))
           b == When({"pods", "networkpolicies"}, Unpoliced(podList, policyList))
           c == When({"networkpolicies"}, AllowAll(policyList))
           all == postureFindings \union a \union b \union c
           none == PostureFinding("inventory", "PASS", Everything, {})
           Fine(f) == /\ f.service = "posture"
                      /\ \/ f.subjects = {}
                         \/ \E p \in podList :
                              TokenMounted(p, accountIndex) /\ f.subjects = {AccountOf(p)}
<1>1. postureFindings' = IF all = {} THEN {none} ELSE all
  BY DEF Judge
<1>2. IsFiniteSet(a) /\ IsFiniteSet(b) /\ IsFiniteSet(c) /\ IsFiniteSet(postureFindings)
  <2>1. IsFiniteSet(TokenUsage(podList, accountIndex) \union DefaultTokens(podList, accountIndex))
    BY FinitePostureFindings, FS_Union DEF RiskInv, ListsOK
  <2>2. IsFiniteSet(Unpoliced(podList, policyList)) /\ IsFiniteSet(AllowAll(policyList))
    BY FinitePostureFindings DEF RiskInv, ListsOK
  <2>3. IsFiniteSet({})
    BY FS_EmptySet
  <2>4. \A needs, found : IsFiniteSet(found) => IsFiniteSet(When(needs, found))
    BY <2>3
  <2> HIDE DEF When
  <2>5. QED BY <2>1, <2>2, <2>4 DEF RiskInv, ListsOK
<1>3. \A check, severity, resource : Fine(PostureFinding(check, severity, resource, {}))
  BY PostureFindingParts
<1>4. \A f \in postureFindings : Fine(f)
  BY DEF RiskInv, UsersSeen
<1>5. \A p \in podList : TokenMounted(p, accountIndex) => Fine(Usage(p))
  BY PostureFindingParts DEF Usage
<1>6. \A f \in TokenUsage(podList, accountIndex) : Fine(f)
  <2> HIDE DEF Fine
  <2>1. QED BY <1>3, <1>5 DEF TokenUsage, OrPass, Mounting, Usage
<1>7. \A f \in DefaultTokens(podList, accountIndex) \union Unpoliced(podList, policyList)
               \union AllowAll(policyList) : Fine(f)
  <2> HIDE DEF Fine
  <2>1. \A f \in DefaultTokens(podList, accountIndex) : Fine(f)
    BY <1>3 DEF DefaultTokens, OrPass
  <2>2. \A f \in Unpoliced(podList, policyList) : Fine(f)
    BY <1>3 DEF Unpoliced, OrPass
  <2>3. \A f \in AllowAll(policyList) : Fine(f)
    BY <1>3 DEF AllowAll, OrPass
  <2>4. QED BY <2>1, <2>2, <2>3
<1>8. \A f \in all : Fine(f)
  <2> HIDE DEF Fine, have
  <2>1. QED BY <1>4, <1>6, <1>7
<1>9. Fine(none)
  BY <1>3
<1>10. IsFiniteSet(postureFindings')
  <2>1. IsFiniteSet(all)
    <3> HIDE DEF a, b, c
    <3>1. QED BY <1>2, FS_Union
  <2>2. IsFiniteSet({none})
    BY FS_Singleton
  <2> HIDE DEF all, none
  <2>3. QED BY <1>1, <2>1, <2>2
<1>11. ASSUME postureFailed = {}, NEW p \in podList, TokenMounted(p, accountIndex)
       PROVE  Usage(p) \in postureFindings'
  <2>1. {"pods", "serviceaccounts"} \subseteq have
    BY <1>11, PostureOrder
  <2>2. Usage(p) \in TokenUsage(podList, accountIndex)
    BY <1>11 DEF TokenUsage, OrPass, Usage, Mounting
  <2>3. Usage(p) \in all
    <3> HIDE DEF have
    <3>1. QED BY <2>1, <2>2
  <2> HIDE DEF all
  <2>4. QED BY <1>1, <2>3
<1>12. \A f \in postureFindings' : Fine(f)
  <2> HIDE DEF Fine, all, none
  <2>1. QED BY <1>1, <1>8, <1>9
<1>13. QED BY <1>10, <1>11, <1>12

LEMMA RiskPosture ==
  ASSUME KubeInv, RiskInv, PostureStep
  PROVE  RiskInv'
<1> USE DEF PostureStep
<1>1. posturePc # "done" /\ rbacPc = "client"
  <2>1. posturePc # "done"
    BY PostureOrder DEF PostureNext, PostureClient, PostureRead, ReadPods, ReadAccounts,
       ReadPolicies, PostureReadFails, Judge, PostureReadNames
  <2>2. QED BY <2>1 DEF KubeInv, InTurn
<1>2. GrantsSeen' /\ GrantsReported'
  BY <1>1 DEF RiskInv, GrantsSeen, GrantsReported, rbacVars
<1>3. \A f \in postureFindings : f.service = "posture" /\ f.subjects = {}
  BY <1>1 DEF RiskInv, UsersSeen
<1>4. IsFiniteSet(bound') /\ IsFiniteSet(pods') /\ IsFiniteSet(policies')
      /\ IsFiniteSet(bindingList') /\ IsFiniteSet(rbacFindings')
  BY DEF RiskInv, ListsOK, apiVars, rbacVars
<1>5. /\ steadyPods' = steadyPods /\ steadyPods \subseteq pods
      /\ \A p \in steadyPods : AccountOf(p) \in Accounts
      /\ \A p : TokenReallyMounted(p)' <=> TokenReallyMounted(p)
  <2>1. steadyPods' = steadyPods /\ automount' = automount
    BY DEF apiVars
  <2>2. steadyPods \subseteq pods /\ steadyPods \subseteq Pods
    BY DEF KubeInv, HostedOK, ClusterOK
  <2>3. \A p \in steadyPods : AccountOf(p) \in Accounts
    BY <2>2, PodsAssumption
  <2>4. QED BY <2>1, <2>2, <2>3 DEF TokenReallyMounted
<1>6. CASE PostureClient
  <2> USE <1>6 DEF PostureClient
  <2>1. CASE posturePc' = PostureReads[1] /\ UNCHANGED postureFindings
    <3>1. ListsOK' /\ UsersSeen'
      BY <2>1, <1>3, <1>4 DEF RiskInv, ListsOK, UsersSeen
    <3>2. TokensKnown'
      BY <2>1, PostureOrder DEF TokensKnown, PostureHas, PostureOver
    <3>3. QED BY <1>2, <3>1, <3>2 DEF RiskInv
  <2> DEFINE off == PostureFinding("connection", "INFO", Everything, {})
  <2>2. CASE posturePc' = "done" /\ postureFindings' = {off}
    <3>1. off.service = "posture" /\ off.check = "connection" /\ off.subjects = {}
      BY PostureFindingParts
    <3> HIDE DEF off
    <3>2. ListsOK' /\ UsersSeen'
      BY <2>2, <3>1, <1>4, FS_Singleton DEF RiskInv, ListsOK, UsersSeen
    <3>3. TokensKnown'
      BY <2>2, <3>1 DEF TokensKnown, PostureHas, PostureOver, Says
    <3>4. QED BY <1>2, <3>2, <3>3 DEF RiskInv
  <2>3. QED BY <2>1, <2>2
<1>7. CASE Judge
  <2>1. posturePc = "judge" /\ posturePc' = "done"
        /\ UNCHANGED <<podList, accountIndex, policyList, postureFailed>>
    BY <1>7 DEF Judge
  <2>2. ListsOK' /\ UsersSeen'
    BY <1>4, <1>7, <2>1, JudgedFindings DEF RiskInv, ListsOK, UsersSeen, TokenMounted
  <2>3. TokensKnown'
    <3>1. ASSUME NEW p \in steadyPods, postureFailed = {}, TokenReallyMounted(p)
          PROVE  Usage(p) \in postureFindings'
      <4>1. p \in podList /\ TokenMounted(p, accountIndex)
        BY <3>1, <2>1 DEF RiskInv, TokensKnown, PostureHas, PostureOver
      <4>2. QED BY <3>1, <4>1, <1>7, JudgedFindings
    <3>2. QED BY <1>5, <2>1, <3>1 DEF TokensKnown, PostureHas, PostureOver
  <2>4. QED BY <1>2, <2>2, <2>3 DEF RiskInv
<1>8. CASE PostureRead
  <2>1. CASE /\ ReadPods \/ ReadAccounts \/ ReadPolicies
             /\ PostureGoesTo(posturePc)
             /\ UNCHANGED <<postureFailed, postureFindings>>
    <3>1. \/ posturePc = "pods" /\ posturePc' = "serviceaccounts"
          \/ posturePc = "serviceaccounts" /\ posturePc' = "networkpolicies"
          \/ posturePc = "networkpolicies" /\ posturePc' = "judge"
      BY <2>1, PostureNextRead DEF ReadPods, ReadAccounts, ReadPolicies
    <3>2. UsersSeen'
      BY <1>3, <2>1 DEF UsersSeen
    <3>3. CASE ReadPods
      <4> USE DEF ReadPods
      <4>1. posturePc' = "serviceaccounts" /\ podList' = pods
        BY <3>1, <3>3
      <4>2. ListsOK'
        BY <1>4, <2>1, <3>3 DEF RiskInv, ListsOK
      <4>3. TokensKnown'
        BY <1>5, <4>1 DEF TokensKnown, PostureHas, PostureOver
      <4>4. QED BY <1>2, <3>2, <4>2, <4>3 DEF RiskInv
    <3>4. CASE ReadAccounts
      <4> USE DEF ReadAccounts
      <4>1. posturePc = "serviceaccounts" /\ posturePc' = "networkpolicies"
        BY <3>1, <3>4
      <4>2. ListsOK'
        BY <1>4, <2>1, <3>4 DEF RiskInv, ListsOK
      <4>3. \A p \in steadyPods : TokenMounted(p, accountIndex') <=> TokenReallyMounted(p)
        <5>1. DOMAIN accountIndex' = {a \in Accounts : automount[a] # Missing}
              /\ \A a \in DOMAIN accountIndex' : accountIndex'[a] = automount[a]
          BY <3>4
        <5>2. Missing # "off"
          BY DEF Missing
        <5>3. QED BY <1>5, <5>1, <5>2 DEF TokenMounted, TokenReallyMounted
      <4>4. TokensKnown'
        BY <1>5, <2>1, <3>4, <4>1, <4>3 DEF RiskInv, TokensKnown, PostureHas, PostureOver
      <4>5. QED BY <1>2, <3>2, <4>2, <4>4 DEF RiskInv
    <3>5. CASE ReadPolicies
      <4> USE DEF ReadPolicies
      <4>1. posturePc = "networkpolicies" /\ posturePc' = "judge"
        BY <3>1, <3>5
      <4>2. ListsOK'
        BY <1>4, <2>1, <3>5 DEF RiskInv, ListsOK, apiVars
      <4>3. TokensKnown'
        BY <1>5, <2>1, <3>5, <4>1
           DEF RiskInv, TokensKnown, PostureHas, PostureOver, TokenMounted
      <4>4. QED BY <1>2, <3>2, <4>2, <4>3 DEF RiskInv
    <3>6. QED BY <2>1, <3>3, <3>4, <3>5
  <2>2. CASE \E i \in DOMAIN PostureReads : PostureReadFails(PostureReads[i])
    <3>1. PICK read \in PostureReadNames : PostureReadFails(read)
      BY <2>2, PostureOrder DEF PostureReadNames
    <3> USE DEF PostureReadFails
    <3>2. \/ read = "pods" /\ posturePc' = "serviceaccounts"
          \/ read = "serviceaccounts" /\ posturePc' = "networkpolicies"
          \/ read = "networkpolicies" /\ posturePc' = "judge"
      BY <3>1, PostureNextRead DEF PostureReadNames
    <3> DEFINE error == PostureFinding(read, "ERROR", Everything, {})
    <3>3. error.service = "posture" /\ error.subjects = {}
      BY PostureFindingParts
    <3>4. postureFindings' = postureFindings \union {error}
      BY <3>1
    <3> HIDE DEF error
    <3>5. UsersSeen'
      BY <1>3, <3>3, <3>4 DEF UsersSeen
    <3>6. IsFiniteSet(postureFindings')
      BY <3>4, OneMoreOrLess DEF RiskInv, ListsOK
    <3>7. ListsOK'
      BY <1>4, <3>1, <3>6 DEF RiskInv, ListsOK
    <3>8. TokensKnown'
      <4>1. posturePc' # "done"
        BY <3>2
      <4>2. PostureHas("pods")' => PostureHas("pods")
        BY <3>1, <3>2 DEF PostureHas, PostureOver
      <4>3. PostureHas("serviceaccounts")' => PostureHas("serviceaccounts")
        BY <3>1, <3>2 DEF PostureHas, PostureOver
      <4>4. UNCHANGED <<podList, accountIndex>>
        BY <3>1
      <4>5. QED BY <1>5, <4>1, <4>2, <4>3, <4>4 DEF RiskInv, TokensKnown, TokenMounted
    <3>9. QED BY <1>2, <3>5, <3>7, <3>8 DEF RiskInv
  <2>3. QED BY <1>8, <2>1, <2>2 DEF PostureRead
<1>9. QED BY <1>6, <1>7, <1>8 DEF PostureNext

LEMMA RiskRbac ==
  ASSUME KubeInv, RiskInv, RbacStep
  PROVE  RiskInv'
<1>1. posturePc = "done" /\ RbacNext /\ UNCHANGED <<apiVars, postureVars>>
  BY DEF RbacStep
<1>2. rbacPc # "done"
  BY <1>1, RbacOrder DEF RbacNext, RbacClient, RbacRead, ReadRoles, ReadBindings, RbacReadFails,
                         Analyze, RbacReadNames
<1>3. UsersSeen'
  BY <1>1 DEF RiskInv, UsersSeen, postureVars, TokenMounted
<1>4. TokensKnown'
  <2>1. \A p : TokenReallyMounted(p)' <=> TokenReallyMounted(p)
    BY <1>1 DEF apiVars, TokenReallyMounted
  <2>2. \A read : PostureHas(read)' <=> PostureHas(read)
    BY <1>1 DEF PostureHas, PostureOver, postureVars
  <2>3. steadyPods' = steadyPods /\ UNCHANGED postureVars
    BY <1>1 DEF apiVars
  <2>4. QED BY <2>1, <2>2, <2>3 DEF RiskInv, TokensKnown, postureVars, TokenMounted, Says
<1>5. \A f \in rbacFindings : f.service = "rbac" /\ f.subjects = {}
  BY <1>2 DEF RiskInv, GrantsSeen
<1>6. /\ IsFiniteSet(bound') /\ IsFiniteSet(pods') /\ IsFiniteSet(policies')
      /\ IsFiniteSet(podList') /\ IsFiniteSet(policyList') /\ IsFiniteSet(postureFindings')
  BY <1>1 DEF RiskInv, ListsOK, apiVars, postureVars
<1>7. IsFiniteSet(bindingList) /\ IsFiniteSet(rbacFindings) /\ IsFiniteSet(bound)
  BY DEF RiskInv, ListsOK
<1>8. CASE RbacClient
  <2> USE <1>8 DEF RbacClient
  <2>1. CASE rbacPc' = RbacReads[1] /\ UNCHANGED rbacFindings
    <3>1. rbacPc' # "done"
      BY <2>1, RbacOrder
    <3>2. ListsOK' /\ GrantsSeen' /\ GrantsReported'
      BY <1>5, <1>6, <1>7, <2>1, <3>1 DEF ListsOK, GrantsSeen, GrantsReported
    <3>3. QED BY <1>3, <1>4, <3>2 DEF RiskInv
  <2> DEFINE off == RbacFinding("connection", "INFO", Cluster, {})
  <2>2. CASE rbacPc' = "done" /\ rbacFindings' = {off}
    <3>1. off.service = "rbac" /\ off.check = "connection" /\ off.subjects = {}
      BY RbacFindingParts
    <3> HIDE DEF off
    <3>2. ListsOK' /\ GrantsSeen'
      BY <1>6, <1>7, <2>2, <3>1, FS_Singleton DEF ListsOK, GrantsSeen
    <3>3. GrantsReported'
      BY <2>2, <3>1 DEF GrantsReported, Says
    <3>4. QED BY <1>3, <1>4, <3>2, <3>3 DEF RiskInv
  <2>3. QED BY <2>1, <2>2
<1>9. CASE Analyze
  <2>1. rbacPc = "analyze" /\ rbacPc' = "done" /\ UNCHANGED <<roleIndex, bindingList, rbacFailed>>
    BY <1>9 DEF Analyze
  <2> DEFINE pass == RbacFinding("bound_privilege", "PASS", Cluster, {})
             Fine(f) == /\ f.service = "rbac"
                        /\ \/ f.subjects = {}
                           \/ \E b \in bindingList : f.resource = BindingId(b)
                                                     /\ f.subjects = Identities(b)
  <2>2. rbacFindings' = IF rbacFailed # {} THEN rbacFindings
                        ELSE IF BindingFindings = {} THEN {pass} ELSE BindingFindings
    BY <1>9 DEF Analyze
  <2>3. IsFiniteSet(rbacFindings')
    <3>1. IsFiniteSet({pass}) /\ IsFiniteSet(BindingFindings)
      BY <1>7, FS_Singleton, FiniteBindingFindings
    <3> HIDE DEF pass
    <3>2. QED BY <1>7, <2>2, <3>1
  <2>4. ASSUME NEW b \in bindingList, NEW f \in AnalyzeBinding(b, roleIndex)
        PROVE  Fine(f)
    <3>1. \A check, severity :
            Fine(RbacFinding(check, severity, BindingId(b), Identities(b)))
      BY RbacFindingParts
    <3>2. Fine(RbacFinding("binding_role_ref", "ERROR", BindingId(b), {}))
      BY RbacFindingParts
    <3> HIDE DEF Fine
    <3>3. \A g \in ClusterAdminFindings(b) : Fine(g)
      BY <3>1 DEF ClusterAdminFindings
    <3>4. QED BY <3>1, <3>2, <3>3 DEF AnalyzeBinding
  <2>5. \A f \in rbacFindings' : Fine(f)
    <3>1. Fine(pass) /\ \A f \in rbacFindings : Fine(f)
      BY <1>5, RbacFindingParts
    <3> HIDE DEF Fine, pass
    <3>2. \A f \in BindingFindings : Fine(f)
      BY <2>4 DEF BindingFindings
    <3>3. QED BY <2>2, <3>1, <3>2
  <2>6. ListsOK' /\ GrantsSeen'
    BY <1>6, <1>7, <2>1, <2>3, <2>5 DEF ListsOK, GrantsSeen
  <2>7. GrantsReported'
    <3>1. \A b : Granted(b)' = Granted(b)
      BY <1>1 DEF Granted, RefKey, apiVars
    <3>2. ASSUME NEW b \in steadyBindings, NEW d \in Granted(b), rbacFailed = {}
          PROVE  Grant(d, b) \in rbacFindings'
      <4>1. b \in bindingList /\ Known(RefKey(b)) /\ RefKey(b) \in RoleKeys
        BY <2>1, <3>2, AllAtHand
      <4>2. rules[RefKey(b)].is = "listed"
        BY <4>1, OnlyListedGrant DEF KubeInv, Granted
      <4>3. RefKey(b) \in DOMAIN roleIndex /\ d \in Dangers(roleIndex[RefKey(b)])
        BY <4>1, <4>2 DEF Known, Granted
      <4>4. Grant(d, b) \in AnalyzeBinding(b, roleIndex)
        BY <4>3 DEF AnalyzeBinding, Grant
      <4>5. Grant(d, b) \in BindingFindings
        BY <4>1, <4>4 DEF BindingFindings
      <4> HIDE DEF pass
      <4>6. QED BY <2>2, <3>2, <4>5
    <3>3. steadyBindings' = steadyBindings
      BY <1>1 DEF apiVars
    <3>4. QED BY <2>1, <3>1, <3>2, <3>3 DEF GrantsReported
  <2>8. QED BY <1>3, <1>4, <2>6, <2>7 DEF RiskInv
<1>10. CASE RbacRead
  <2>1. rbacPc' # "done"
    BY <1>10, RbacSteps, RbacNextRead DEF ReadRoles, ReadBindings, RbacReadFails, RbacReadNames
  <2>2. IsFiniteSet(bindingList')
    <3>1. \A kind : IsFiniteSet({b \in bound : b.kind = kind})
      BY <1>7, FS_Subset
    <3>2. \A kind : IsFiniteSet(bindingList \union {b \in bound : b.kind = kind})
      BY <1>7, <3>1, FS_Union
    <3>3. QED BY <1>7, <1>10, <3>2, RbacSteps DEF ReadRoles, ReadBindings, RbacReadFails
  <2>3. \/ rbacFindings' = rbacFindings
        \/ \E read : rbacFindings' = rbacFindings \union {RbacFinding(read, "ERROR", Cluster, {})}
    BY <1>10, RbacSteps DEF ReadRoles, ReadBindings, RbacReadFails
  <2>4. IsFiniteSet(rbacFindings')
    BY <1>7, <2>3, OneMoreOrLess
  <2>5. \A f \in rbacFindings' : f.service = "rbac" /\ f.subjects = {}
    BY <1>5, <2>3, RbacFindingParts
  <2>6. ListsOK' /\ GrantsSeen' /\ GrantsReported'
    BY <1>6, <2>1, <2>2, <2>4, <2>5 DEF ListsOK, GrantsSeen, GrantsReported
  <2>7. QED BY <1>3, <1>4, <2>6 DEF RiskInv
<1>11. QED BY <1>1, <1>8, <1>9, <1>10 DEF RbacNext

\* What the risk engine is given, in every state of a scan: finitely many findings that
\* name accounts of Pods and bindings which the scanners saw.
THEOREM RiskInvariant == Spec => []RiskInv
<1>1. KubeInv /\ RiskInv /\ [Next]_vars => RiskInv'
  BY RiskStutter, RiskOthers, RiskPosture, RiskRbac DEF Next
<1>2. QED BY RiskInit, <1>1, KubeInvariant, PTL DEF Spec

-----------------------------------------------------------------------------
(* The correlations                                                        *)

AllFindings == postureFindings \union rbacFindings
Listing == FoldSet(LAMBDA f, all : Append(all, f), <<>>, AllFindings)

\* The risk engine is given the findings of both scanners.
LEMMA ListingIsWhole ==
  ASSUME RiskInv
  PROVE  Risk!ToSet(Listing) = AllFindings
<1>1. IsFiniteSet(AllFindings)
  BY FS_Union DEF AllFindings, RiskInv, ListsOK
<1>2. ToSet(Listing) = AllFindings
  BY <1>1, AppendAll DEF Listing, ListsAll
<1>3. QED BY <1>2 DEF ToSet, Risk!ToSet

\* What the rule about ServiceAccounts makes of account sa.
Suspect(sa) ==
  [rule |-> "token_with_dangerous_rbac",
   points |-> Risk!Tier({g.check : g \in Risk!GrantsOf(Listing, sa)}),
   resources |-> {sa} \union {g.resource : g \in Risk!GrantsOf(Listing, sa)}]

LEMMA SuspectsOnly ==
  ASSUME NEW c
  PROVE  c \in Correlations <=>
           \E sa \in Risk!TokenUsers(Listing) : Risk!GrantsOf(Listing, sa) # {} /\ c = Suspect(sa)
BY DEF Correlations, Risk!ServiceAccountCorrelations, Risk!GrantedUsers, Risk!OfAccount,
       Suspect, Listing, AllFindings

\* A correlation is about the account of a Pod that was seen and its own bindings.
LEMMA IdentityFollows == RiskInv => CorrelatedByIdentity
<1> SUFFICES ASSUME RiskInv, NEW c \in Correlations
             PROVE  \E p \in podList :
                      /\ TokenMounted(p, accountIndex) /\ AccountOf(p) \in c.resources
                      /\ \A r \in c.resources \ {AccountOf(p)} : \E b \in bindingList :
                           /\ r = BindingId(b)
                           /\ \E s \in b.subjects :
                                /\ s.kind = "ServiceAccount" /\ s.name = p.sa
                                /\ s.ns = p.ns \/ (s.ns = "" /\ b.ns = p.ns)
  BY DEF CorrelatedByIdentity
<1>1. PICK sa \in Risk!TokenUsers(Listing) : c = Suspect(sa)
  BY SuspectsOnly
<1>2. PICK f \in AllFindings : f.service = "posture" /\ sa \in f.subjects
  BY ListingIsWhole DEF Risk!TokenUsers
<1>3. f \in postureFindings
  BY <1>2 DEF AllFindings, RiskInv, GrantsSeen
<1>4. PICK p \in podList : TokenMounted(p, accountIndex) /\ f.subjects = {AccountOf(p)}
  BY <1>2, <1>3 DEF RiskInv, UsersSeen
<1>5. sa = AccountOf(p) /\ AccountOf(p) \in c.resources
  BY <1>1, <1>2, <1>4 DEF Suspect
<1>6. ASSUME NEW r \in c.resources \ {AccountOf(p)}
      PROVE  \E b \in bindingList :
               /\ r = BindingId(b)
               /\ \E s \in b.subjects :
                    /\ s.kind = "ServiceAccount" /\ s.name = p.sa
                    /\ s.ns = p.ns \/ (s.ns = "" /\ b.ns = p.ns)
  <2>1. PICK g \in Risk!GrantsOf(Listing, sa) : r = g.resource
    BY <1>1, <1>5, <1>6 DEF Suspect
  <2>2. g \in AllFindings /\ g.service = "rbac" /\ sa \in g.subjects
    BY <2>1, ListingIsWhole DEF Risk!GrantsOf
  <2>3. g \in rbacFindings
    BY <2>2 DEF AllFindings, RiskInv, UsersSeen
  <2>4. PICK b \in bindingList : g.resource = BindingId(b) /\ g.subjects = Identities(b)
    BY <2>2, <2>3 DEF RiskInv, GrantsSeen
  <2>5. <<p.ns, p.sa>> \in Identities(b)
    BY <1>5, <2>2, <2>4 DEF AccountOf
  <2>6. PICK s \in b.subjects : /\ s.kind = "ServiceAccount" /\ s.name = p.sa
                                /\ \/ s.ns # "" /\ p.ns = s.ns
                                   \/ s.ns = "" /\ p.ns = b.ns
    BY <2>5 DEF Identities
  <2>7. QED BY <2>1, <2>4, <2>6
<1>7. QED BY <1>4, <1>5, <1>6

\* A steady token of an account with a steady dangerous grant ends up in a correlation.
LEMMA ExposureFollows == KubeInv /\ RiskInv => StableExposureIsCorrelated
<1> SUFFICES ASSUME KubeInv, RiskInv, Inventoried, NEW p \in steadyPods, NEW b \in steadyBindings,
                    TokenReallyMounted(p), AccountOf(p) \in Identities(b), Granted(b) # {}
             PROVE  \E c \in Correlations :
                      /\ {AccountOf(p), BindingId(b)} \subseteq c.resources
                      /\ c.points >= IF "bound_wildcard" \in Granted(b) THEN 25 ELSE 15
  BY DEF StableExposureIsCorrelated
<1> DEFINE sa == AccountOf(p)
           checks == {g.check : g \in Risk!GrantsOf(Listing, sa)}
<1>1. Risk!ToSet(Listing) = AllFindings
  BY ListingIsWhole
<1>2. sa \in Risk!TokenUsers(Listing)
  <2>1. ~Says(postureFindings, "connection") /\ postureFailed = {}
    BY DEF Inventoried
  <2>2. posturePc = "done"
    BY DEF KubeInv, InTurn, Inventoried
  <2>3. Usage(p) \in postureFindings
    BY <2>1, <2>2 DEF RiskInv, TokensKnown
  <2>4. Usage(p).service = "posture" /\ Usage(p).check = "service_account_token_usage"
        /\ Usage(p).severity = "INFO" /\ sa \in Usage(p).subjects
    BY DEF Usage, PostureFinding
  <2>5. QED BY <1>1, <2>3, <2>4 DEF AllFindings, Risk!TokenUsers
<1>3. ASSUME NEW d \in Granted(b)
      PROVE  Grant(d, b) \in Risk!GrantsOf(Listing, sa)
  <2>1. Grant(d, b) \in rbacFindings
    BY DEF RiskInv, GrantsReported, Inventoried
  <2>2. Grant(d, b).service = "rbac" /\ Grant(d, b).check = d
        /\ Grant(d, b).subjects = Identities(b)
    BY DEF Grant, RbacFinding
  <2>3. d \in Risk!GrantChecks
    BY DEF Granted, Dangers, Risk!GrantChecks
  <2>4. QED BY <1>1, <2>1, <2>2, <2>3 DEF AllFindings, Risk!GrantsOf
<1>4. \A d \in Granted(b) : Grant(d, b).resource = BindingId(b) /\ Grant(d, b).check = d
  BY DEF Grant, RbacFinding
<1>5. Suspect(sa) \in Correlations
  BY <1>2, <1>3, SuspectsOnly
<1>6. {sa, BindingId(b)} \subseteq Suspect(sa).resources
  BY <1>3, <1>4 DEF Suspect
<1>7. Suspect(sa).points >= IF "bound_wildcard" \in Granted(b) THEN 25 ELSE 15
  <2>1. "bound_wildcard" \in Granted(b) => "bound_wildcard" \in checks
    BY <1>3, <1>4
  <2>2. Suspect(sa).points = Risk!Tier(checks)
    BY DEF Suspect
  <2> HIDE DEF checks
  <2>3. QED BY <2>1, <2>2 DEF Risk!Tier
<1>8. QED BY <1>5, <1>6, <1>7

\* Correlations follow identity, not proximity.
THEOREM CorrelationsFollowIdentity == Spec => []CorrelatedByIdentity
BY RiskInvariant, IdentityFollows, PTL

\* A dangerous grant and a token that both stay are found to belong together.
THEOREM StableExposures == Spec => []StableExposureIsCorrelated
BY KubeInvariant, RiskInvariant, ExposureFollows, PTL
=============================================================================
