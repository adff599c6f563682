------------------------------- MODULE KubeApi -------------------------------
(***************************************************************************)
(* The Kubernetes cluster as "kubectl get" shows it to the live scanners:  *)
(* roles and bindings, Pods, ServiceAccounts and NetworkPolicies.  It is   *)
(* the environment: others change it at any time, also between two reads   *)
(* of one scan.  Two history variables keep what has not been touched      *)
(* since the scan began.                                                   *)
(***************************************************************************)
EXTENDS Naturals, FiniteSets, Sequences

CONSTANTS
  RoleKeys,         \* [kind, ns, name] of ClusterRoles (ns = "") and Roles
  RuleSets,         \* the rules a role may have: sets of [verbs, resources, groups]
  Bindings,         \* [kind, ns, name, refKind, refName, subjects]
  Pods,             \* [ns, name, sa, automount]
  Accounts,         \* <<ns, name>> of ServiceAccounts
  Policies,         \* [ns, name, allowAll]
  InitialClusters,  \* the clusters a scan may start on
  MaxChanges        \* bound: changes others make while the scan lasts

\* A role: one with a list of rules, an aggregated ClusterRole whose rules are
\* null, or none at all.
Ruled(set) == [is |-> "listed", rules |-> set]
NoRules == [is |-> "null", rules |-> {}]
Absent == [is |-> "absent", rules |-> {}]
Role == {Ruled(set) : set \in RuleSets \union {{}}} \union {NoRules, Absent}

Missing == "missing"   \* no such account

Automount == {"on", "off", "unset"}

ClusterOK(c) ==
  /\ c.rules \in [RoleKeys -> Role]
  /\ c.bound \subseteq Bindings /\ c.pods \subseteq Pods /\ c.policies \subseteq Policies
  /\ c.automount \in [Accounts -> Automount \union {Missing}]

\* The role a binding grants; a ClusterRoleBinding cannot refer to a Role.
RefKey(b) ==
  [kind |-> b.refKind, ns |-> IF b.refKind = "Role" THEN b.ns ELSE "", name |-> b.refName]

ASSUME BindingsAssumption ==
  /\ \A k \in RoleKeys : k.kind \in {"ClusterRole", "Role"}
  /\ \A b \in Bindings : b.kind \in {"ClusterRoleBinding", "RoleBinding"} /\ RefKey(b) \in RoleKeys
\* The account a Pod runs as, which need not exist.
AccountOf(p) == <<p.ns, p.sa>>

ASSUME PodsAssumption == \A p \in Pods : AccountOf(p) \in Accounts
\* The objects of a cluster can be listed.
ASSUME ClusterAssumption ==
  \A c \in InitialClusters :
    /\ ClusterOK(c)
    /\ IsFiniteSet(c.bound) /\ IsFiniteSet(c.pods) /\ IsFiniteSet(c.policies)
ASSUME ChangesAssumption == MaxChanges \in Nat

VARIABLES
  rules,          \* RoleKeys -> Role
  bound, pods, policies,
  automount,      \* account |-> automountServiceAccountToken, or Missing
  changes,
  steadyBindings, \* bindings that, like their role, nobody has touched
  steadyPods      \* Pods that, like their account, nobody has touched

apiVars == <<rules, bound, pods, policies, automount, changes, steadyBindings, steadyPods>>

ApiInit ==
  /\ \E c \in InitialClusters :
       /\ rules = c.rules /\ bound = c.bound /\ pods = c.pods
       /\ policies = c.policies /\ automount = c.automount
  /\ changes = 0
  /\ steadyBindings = bound /\ steadyPods = pods

Change == changes < MaxChanges /\ changes' = changes + 1

ChangeRole(k, to) ==
  /\ Change /\ rules[k] # to
  /\ rules' = [rules EXCEPT ![k] = to]
  /\ steadyBindings' = {b \in steadyBindings : RefKey(b) # k}
  /\ UNCHANGED <<bound, pods, policies, automount, steadyPods>>

ChangeBinding(b) ==
  /\ Change
  /\ bound' = IF b \in bound THEN bound \ {b} ELSE bound \union {b}
  /\ steadyBindings' = steadyBindings \ {b}
  /\ UNCHANGED <<rules, pods, policies, automount, steadyPods>>

ChangePod(p) ==
  /\ Change
  /\ pods' = IF p \in pods THEN pods \ {p} ELSE pods \union {p}
  /\ steadyPods' = steadyPods \ {p}
  /\ UNCHANGED <<rules, bound, policies, automount, steadyBindings>>

ChangeAccount(sa, to) ==
  /\ Change /\ automount[sa] # to
  /\ automount' = [automount EXCEPT ![sa] = to]
  /\ steadyPods' = {p \in steadyPods : AccountOf(p) # sa}
  /\ UNCHANGED <<rules, bound, pods, policies, steadyBindings>>

ChangePolicy(n) ==
  /\ Change
  /\ policies' = IF n \in policies THEN policies \ {n} ELSE policies \union {n}
  /\ UNCHANGED <<rules, bound, pods, automount, steadyBindings, steadyPods>>

Others ==
  \/ \E k \in RoleKeys, to \in Role : ChangeRole(k, to)
  \/ \E b \in Bindings : ChangeBinding(b)
  \/ \E p \in Pods : ChangePod(p)
  \/ \E sa \in Accounts, to \in Automount \union {Missing} : ChangeAccount(sa, to)
  \/ \E n \in Policies : ChangePolicy(n)
=============================================================================
