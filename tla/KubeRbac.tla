------------------------------ MODULE KubeRbac ------------------------------
(***************************************************************************)
(* KubernetesRBACScanner (scanners/kubernetes/rbac.py): four reads, one    *)
(* after the other, of four kinds of objects, then an analysis of what was *)
(* read.  The reads are not a snapshot of the cluster.                     *)
(***************************************************************************)
EXTENDS KubeApi

VARIABLES
  rbacPc,        \* the next read, or "analyze", "done"
  roleIndex,     \* cluster_roles and roles: role |-> its rules
  bindingList,   \* the bindings read so far
  rbacFailed,    \* the reads that failed
  rbacFindings

rbacVars == <<rbacPc, roleIndex, bindingList, rbacFailed, rbacFindings>>

RbacReads == <<"clusterroles", "roles", "clusterrolebindings", "rolebindings">>

RbacInit ==
  /\ rbacPc = "client"
  /\ roleIndex = <<>> /\ bindingList = {} /\ rbacFailed = {} /\ rbacFindings = {}

Cluster == <<"cluster">>
BindingId(b) == <<b.kind, b.ns, b.name>>

\* Mutant: every subject is looked for in the namespace of the binding.
IdentitiesAtHome(b) ==
  {<<b.ns, s.name>> : s \in {t \in b.subjects : t.kind = "ServiceAccount"}}

\* The ServiceAccounts among a binding's subjects, as the risk engine resolves
\* them: without a namespace of its own a subject is in its RoleBinding's.
Identities(b) ==
  LET home == IF b.kind = "RoleBinding" THEN b.ns ELSE ""
      Ns(s) == IF s.ns # "" THEN s.ns ELSE home
  IN  {<<Ns(s), s.name>> : s \in {t \in b.subjects : t.kind = "ServiceAccount" /\ Ns(t) # ""}}

RbacFinding(check, severity, resource, subjects) ==
  [service |-> "rbac", check |-> check, severity |-> severity, resource |-> resource,
   subjects |-> subjects, writable |-> FALSE]

-----------------------------------------------------------------------------
(* _dangerous_rules                                                        *)

Core(r) == r.groups = {} \/ r.groups \intersect {"", "*"} # {}
Verb(r, verbs) == r.verbs \intersect (verbs \union {"*"}) # {}
Resource(r, resources) == r.resources \intersect (resources \union {"*"}) # {}

Dangers(ruleset) ==
  {d \in {"bound_wildcard", "secret_read", "pod_exec", "impersonate"} : \E r \in ruleset :
     \/ d = "bound_wildcard" /\ "*" \in r.verbs /\ "*" \in r.resources
     \/ d = "secret_read" /\ Verb(r, {"get", "list", "watch"}) /\ Resource(r, {"secrets"}) /\ Core(r)
     \/ d = "pod_exec" /\ Verb(r, {"create"}) /\ Resource(r, {"pods/exec"}) /\ Core(r)
     \/ d = "impersonate" /\ Verb(r, {"impersonate"})
                          /\ Resource(r, {"users", "groups", "serviceaccounts"})}

-----------------------------------------------------------------------------
Anonymous == {"system:anonymous", "system:unauthenticated"}
Broad(b) == {s \in b.subjects : s.name \in Anonymous \union {"system:authenticated"}}

\* The finding about cluster-admin itself, by the breadth of the subjects.
ClusterAdminFindings(b) ==
  IF b.refKind # "ClusterRole" \/ b.refName # "cluster-admin" \/ b.subjects = {} THEN {}
  ELSE IF Broad(b) # {}
  THEN {RbacFinding("cluster_admin_broad_subject",
          IF \E s \in Broad(b) : s.name \in Anonymous THEN "CRITICAL" ELSE "HIGH",
          BindingId(b), Identities(b))}
  ELSE {RbacFinding("cluster_admin_binding", "INFO", BindingId(b), Identities(b))}

\* Mutant: a binding whose role is gone grants nothing.
AnalyzeResolved(b, index) ==
  IF RefKey(b) \notin DOMAIN index THEN {}
  ELSE ClusterAdminFindings(b) \union
       {RbacFinding(d, "HIGH", BindingId(b), Identities(b)) : d \in Dangers(index[RefKey(b)])}

\* _analyze_binding
AnalyzeBinding(b, index) ==
  IF RefKey(b) \notin DOMAIN index
  THEN {RbacFinding("binding_role_ref", "ERROR", BindingId(b), {})}
  ELSE ClusterAdminFindings(b) \union
       {RbacFinding(d, "HIGH", BindingId(b), Identities(b)) : d \in Dangers(index[RefKey(b)])}

\* Both indexes: roles with a list of rules only.
Listed(kind) == {k \in RoleKeys : k.kind = kind /\ rules[k].is = "listed"}

-----------------------------------------------------------------------------
RbacGoesTo(read) ==
  rbacPc' = LET i == CHOOSE j \in DOMAIN RbacReads : RbacReads[j] = read
            IN  IF i < Len(RbacReads) THEN RbacReads[i+1] ELSE "analyze"

\* No kubectl, or it timed out or failed: an INFO finding and no scan.
RbacClient ==
  /\ rbacPc = "client"
  /\ \/ rbacPc' = RbacReads[1] /\ UNCHANGED rbacFindings
     \/ /\ rbacPc' = "done"
        /\ rbacFindings' = {RbacFinding("connection", "INFO", Cluster, {})}
  /\ UNCHANGED <<roleIndex, bindingList, rbacFailed>>

\* _run_json returns an ERROR finding: the scan goes on with the next read.
RbacReadFails(read) ==
  /\ rbacPc = read
  /\ rbacFailed' = rbacFailed \union {read}
  /\ rbacFindings' = rbacFindings \union {RbacFinding(read, "ERROR", Cluster, {})}
  /\ RbacGoesTo(read)
  /\ UNCHANGED <<roleIndex, bindingList>>

ReadRoles(read, kind) ==
  /\ rbacPc = read
  /\ roleIndex' = [k \in DOMAIN roleIndex \union Listed(kind) |->
                     IF k \in Listed(kind) THEN rules[k].rules ELSE roleIndex[k]]
  /\ RbacGoesTo(read)
  /\ UNCHANGED <<bindingList, rbacFailed, rbacFindings>>

\* Mutant: the second kind of bindings takes the place of the first.
ReadBindingsAnew(read, kind) ==
  /\ rbacPc = read
  /\ bindingList' = {b \in bound : b.kind = kind}
  /\ RbacGoesTo(read)
  /\ UNCHANGED <<roleIndex, rbacFailed, rbacFindings>>

ReadBindings(read, kind) ==
  /\ rbacPc = read
  /\ bindingList' = bindingList \union {b \in bound : b.kind = kind}
  /\ RbacGoesTo(read)
  /\ UNCHANGED <<roleIndex, rbacFailed, rbacFindings>>

RbacRead ==
  \/ ReadRoles("clusterroles", "ClusterRole") \/ ReadRoles("roles", "Role")
  \/ ReadBindings("clusterrolebindings", "ClusterRoleBinding")
  \/ ReadBindings("rolebindings", "RoleBinding")
  \/ \E i \in DOMAIN RbacReads : RbacReadFails(RbacReads[i])

BindingFindings == UNION {AnalyzeBinding(b, roleIndex) : b \in bindingList}

\* With an incomplete inventory the scan ends with the errors it has.
Analyze ==
  /\ rbacPc = "analyze"
  /\ rbacFindings' =
       IF rbacFailed # {} THEN rbacFindings
       ELSE IF BindingFindings = {} THEN {RbacFinding("bound_privilege", "PASS", Cluster, {})}
       ELSE BindingFindings
  /\ rbacPc' = "done"
  /\ UNCHANGED <<roleIndex, bindingList, rbacFailed>>

RbacNext == RbacClient \/ RbacRead \/ Analyze
=============================================================================
