----------------------------- MODULE KubePosture -----------------------------
(***************************************************************************)
(* KubernetesPostureScanner (scanners/kubernetes/posture.py): reads Pods,  *)
(* then ServiceAccounts, then NetworkPolicies, and judges each pair of     *)
(* inventories it could read.                                              *)
(***************************************************************************)
EXTENDS KubeApi

VARIABLES
  posturePc,      \* the next read, or "judge", "done"
  podList, accountIndex, policyList,   \* what the reads returned
  postureFailed,  \* the reads that failed
  postureFindings

postureVars == <<posturePc, podList, accountIndex, policyList, postureFailed, postureFindings>>

PostureReads == <<"pods", "serviceaccounts", "networkpolicies">>

PostureInit ==
  /\ posturePc = "client"
  /\ podList = {} /\ accountIndex = <<>> /\ policyList = {}
  /\ postureFailed = {} /\ postureFindings = {}

PostureFinding(check, severity, resource, subjects) ==
  [service |-> "posture", check |-> check, severity |-> severity, resource |-> resource,
   subjects |-> subjects, writable |-> FALSE]

Everything == <<"cluster">>

-----------------------------------------------------------------------------
\* Mutant: without its account a Pod is taken to mount no token.
TokenMountedIfKnown(p, index) ==
  IF p.automount # "unset" THEN p.automount = "on"
  ELSE AccountOf(p) \in DOMAIN index /\ index[AccountOf(p)] # "off"

\* _effective_token_automount: the Pod's word, else its account's, else Kubernetes'
\* default, which is also taken for an account the inventory does not hold.
TokenMounted(p, index) ==
  IF p.automount # "unset" THEN p.automount = "on"
  ELSE AccountOf(p) \in DOMAIN index => index[AccountOf(p)] # "off"

Mounting(list, index) == {p \in list : TokenMounted(p, index)}

\* A check that saw nothing says so with a PASS finding.
OrPass(found, check) ==
  IF found = {} THEN {PostureFinding(check, "PASS", Everything, {})} ELSE found

TokenUsage(list, index) ==
  OrPass({PostureFinding("service_account_token_usage", "INFO",
            <<"ServiceAccount", AccountOf(p)>>, {AccountOf(p)}) : p \in Mounting(list, index)},
         "service_account_token_usage")

DefaultTokens(list, index) ==
  OrPass({PostureFinding("default_service_account_token", "LOW", <<"Namespace", p.ns>>, {}) :
            p \in {q \in Mounting(list, index) : q.sa = "default"}},
         "default_service_account_token")

Unpoliced(list, nets) ==
  OrPass({PostureFinding("namespace_without_networkpolicy", "LOW", <<"Namespace", ns>>, {}) :
            ns \in {p.ns : p \in list} \ {n.ns : n \in nets}},
         "namespace_without_networkpolicy")

AllowAll(nets) ==
  OrPass({PostureFinding("allow_all_networkpolicy", "MEDIUM",
            <<"NetworkPolicy", n.ns, n.name>>, {}) : n \in {m \in nets : m.allowAll}},
         "allow_all_networkpolicy")

-----------------------------------------------------------------------------
PostureGoesTo(read) ==
  posturePc' = LET i == CHOOSE j \in DOMAIN PostureReads : PostureReads[j] = read
               IN  IF i < Len(PostureReads) THEN PostureReads[i+1] ELSE "judge"

PostureClient ==
  /\ posturePc = "client"
  /\ \/ posturePc' = PostureReads[1] /\ UNCHANGED postureFindings
     \/ /\ posturePc' = "done"
        /\ postureFindings' = {PostureFinding("connection", "INFO", Everything, {})}
  /\ UNCHANGED <<podList, accountIndex, policyList, postureFailed>>

PostureReadFails(read) ==
  /\ posturePc = read
  /\ postureFailed' = postureFailed \union {read}
  /\ postureFindings' = postureFindings \union {PostureFinding(read, "ERROR", Everything, {})}
  /\ PostureGoesTo(read)
  /\ UNCHANGED <<podList, accountIndex, policyList>>

ReadPods ==
  /\ posturePc = "pods"
  /\ podList' = pods
  /\ UNCHANGED <<accountIndex, policyList>>

\* Mutant: an account that is gone is indexed like the others.
ReadAccountsAll ==
  /\ posturePc = "serviceaccounts"
  /\ accountIndex' = automount
  /\ UNCHANGED <<podList, policyList>>

ReadAccounts ==
  /\ posturePc = "serviceaccounts"
  /\ accountIndex' = [sa \in {a \in Accounts : automount[a] # Missing} |-> automount[sa]]
  /\ UNCHANGED <<podList, policyList>>

ReadPolicies ==
  /\ posturePc = "networkpolicies"
  /\ policyList' = policies
  /\ UNCHANGED <<podList, accountIndex>>

PostureRead ==
  \/ /\ ReadPods \/ ReadAccounts \/ ReadPolicies
     /\ PostureGoesTo(posturePc)
     /\ UNCHANGED <<postureFailed, postureFindings>>
  \/ \E i \in DOMAIN PostureReads : PostureReadFails(PostureReads[i])

\* Each check runs when both its inventories are there.
Judge ==
  /\ posturePc = "judge"
  /\ LET have == {PostureReads[i] : i \in DOMAIN PostureReads} \ postureFailed
         When(needs, found) == IF needs \subseteq have THEN found ELSE {}
         all == postureFindings
           \union When({"pods", "serviceaccounts"}, TokenUsage(podList, accountIndex)
                                                    \union DefaultTokens(podList, accountIndex))
           \union When({"pods", "networkpolicies"}, Unpoliced(podList, policyList))
           \union When({"networkpolicies"}, AllowAll(policyList))
     IN  postureFindings' = IF all = {} THEN {PostureFinding("inventory", "PASS", Everything, {})}
                            ELSE all
  /\ posturePc' = "done"
  /\ UNCHANGED <<podList, accountIndex, policyList, postureFailed>>

PostureNext == PostureClient \/ PostureRead \/ Judge
=============================================================================
