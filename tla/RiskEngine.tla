----------------------------- MODULE RiskEngine -----------------------------
(***************************************************************************)
(* risk.assess_risk: a list of normalized findings in, a score, a level    *)
(* and the correlations that fired out.  The state machine feeds the       *)
(* engine the findings one at a time, in every order, so that properties   *)
(* can compare the assessment before and after one more finding.           *)
(*                                                                         *)
(* A finding is abstracted to the fields the engine reads.  Check ids drop *)
(* their "provider.service." prefix: service names are unique over the     *)
(* providers.                                                              *)
(***************************************************************************)
EXTENDS Integers, Sequences, FiniteSets, SequencesExt

CONSTANTS
  Catalog,       \* the findings a scan may report, see FindingOK
  MaxFindings    \* bound on the length of the list

\* risk.SEVERITY_WEIGHTS
SeverityWeights == [CRITICAL |-> 40, HIGH |-> 20, MEDIUM |-> 8, LOW |-> 3]

AllSeverities == DOMAIN SeverityWeights \union {"PASS", "INFO", "ERROR"}

FindingOK(f) ==
  /\ DOMAIN f = {"service", "check", "severity", "resource", "subjects", "writable"}
  /\ f.severity \in AllSeverities
  /\ f.writable \in BOOLEAN

ASSUME CatalogAssumption == \A f \in Catalog : FindingOK(f)
ASSUME BoundAssumption == MaxFindings \in Nat

\* An account's resource id begins with ServiceAccount/, a binding's with its own kind.
ASSUME SubjectsAssumption ==
  \A f, g \in Catalog : /\ IsFiniteSet(f.subjects)
                        /\ f.service = "rbac" => f.resource \notin g.subjects

\* The rules that want several findings on one resource: a row per "if" of the
\* loop over by_resource in assess_risk, in the order of the code.
RuleList == <<
  [rule |-> "empty_password_with_pam_nullok", service |-> "auth", points |-> 20,
   needs |-> {"empty_password_accounts", "pam_null_passwords"}],
  [rule |-> "privileged_with_docker_socket", service |-> "daemon", points |-> 25,
   needs |-> {"privileged", "docker_socket_mount"}],
  [rule |-> "privileged_with_nonloopback_publish", service |-> "daemon", points |-> 15,
   needs |-> {"privileged", "nonloopback_publish"}],
  [rule |-> "root_with_writable_sensitive_host_mount", service |-> "daemon", points |-> 20,
   needs |-> {"root_user", "writable_sensitive_host_mount"}],
  [rule |-> "privileged_with_host_path", service |-> "cluster", points |-> 20,
   needs |-> {"privileged_container", "host_path"}],
  [rule |-> "privileged_with_host_port", service |-> "cluster", points |-> 15,
   needs |-> {"privileged_container", "host_port"}],
  [rule |-> "public_and_unencrypted", service |-> "rds", points |-> 20,
   needs |-> {"public_access", "storage_encryption"}],
  [rule |-> "public_without_access_logging", service |-> "s3", points |-> 10,
   needs |-> {"public_policy", "access_logging"}],
  [rule |-> "public_policy_without_full_public_access_block", service |-> "s3",
   points |-> 15, needs |-> {"public_policy", "public_access_block"}],
  [rule |-> "broad_role_permissions_and_trust", service |-> "iam", points |-> 20,
   needs |-> {"role_wildcard_policy", "role_trust_wildcard"}]>>

ResourceRules == ToSet(RuleList)

CloudTrailGapChecks == {"trail_present", "logging"}
RegionalExposureChecks ==
  {<<"ec2", "security_group_all_ingress">>, <<"ec2", "security_group_public_sensitive_port">>,
   <<"rds", "public_access">>, <<"lambda", "function_url_auth">>}
GrantChecks == {"cluster_admin_binding", "bound_wildcard", "secret_read", "pod_exec",
                "impersonate"}

\* rbac.py reports a grant as a risk or as INFO; its PASS and its ERRORs are about other
\* checks.
ASSUME GrantsAssumption ==
  \A f \in Catalog :
    f.service = "rbac" /\ f.check \in GrantChecks => f.severity \notin {"PASS", "ERROR"}

-----------------------------------------------------------------------------
Actionable(fs) == {f \in ToSet(fs) : f.severity \in DOMAIN SeverityWeights}

Weight(f) == IF f.severity \in DOMAIN SeverityWeights THEN SeverityWeights[f.severity] ELSE 0

SeverityScore(fs) == SumFunction([i \in DOMAIN fs |-> Weight(fs[i])])

Cap(n) == IF n > 100 THEN 100 ELSE n

BaseScore(fs) == Cap(SeverityScore(fs))

\* Mutant: group the findings of a service, whatever their resource.
ChecksAtService(fs, service, resource) ==
  {f.check : f \in {g \in Actionable(fs) : g.service = service}}

\* Mutant: PASS, INFO and ERROR findings take part in the grouping.
ChecksOfAny(fs, service, resource) ==
  {f.check : f \in {g \in ToSet(fs) : g.service = service /\ g.resource = resource}}

\* _same_resource_checks, with a writable sensitive mount as a check of its own.
ChecksAt(fs, service, resource) ==
  LET here == {f \in Actionable(fs) : f.service = service /\ f.resource = resource}
  IN  {f.check : f \in here} \union
      {"writable_sensitive_host_mount" : f \in
         {g \in here : g.check = "sensitive_host_mount" /\ g.writable}}

\* What the rules find on the resources, whatever the order it is listed in.
ResourceCorrelations(fs) ==
  UNION {{[rule |-> r.rule, points |-> r.points, resources |-> {res}] :
            r \in {q \in ResourceRules : q.needs \subseteq ChecksAt(fs, q.service, res)}} :
         res \in {f.resource : f \in Actionable(fs)}}

\* _kubernetes_serviceaccount_correlations looks at INFO findings too.
TokenUsers(fs) ==
  UNION {f.subjects : f \in {g \in ToSet(fs) :
    /\ g.service = "posture" /\ g.check = "service_account_token_usage"
    /\ g.severity \in {"INFO", "LOW"}}}

\* Mutant: tokens and grants are matched in one pass over the list.
GrantsReportedBefore(fs, sa) ==
  {fs[i] : i \in {j \in DOMAIN fs :
     /\ fs[j].service = "rbac" /\ fs[j].check \in GrantChecks /\ sa \in fs[j].subjects
     /\ \E k \in DOMAIN fs : k > j /\ fs[k].service = "posture" /\ sa \in fs[k].subjects}}

GrantsOf(fs, sa) ==
  {f \in ToSet(fs) : /\ f.service = "rbac" /\ f.check \in GrantChecks
                     /\ sa \in f.subjects}

\* Mutant: wildcard grants are looked for before cluster-admin.
TierWildcardFirst(checks) ==
  IF "bound_wildcard" \in checks THEN 25
  ELSE IF "cluster_admin_binding" \in checks THEN 30 ELSE 15

Tier(checks) ==
  IF "cluster_admin_binding" \in checks THEN 30
  ELSE IF "bound_wildcard" \in checks THEN 25 ELSE 15

OfAccount(fs, sa) ==
  [rule |-> "token_with_dangerous_rbac",
   points |-> Tier({g.check : g \in GrantsOf(fs, sa)}),
   resources |-> {sa} \union {g.resource : g \in GrantsOf(fs, sa)}]

GrantedUsers(fs) == {sa \in TokenUsers(fs) : GrantsOf(fs, sa) # {}}

ServiceAccountCorrelations(fs) == {OfAccount(fs, sa) : sa \in GrantedUsers(fs)}

Grave(f) == f.severity \in {"HIGH", "CRITICAL"}

CloudTrailGaps(fs) ==
  {f \in Actionable(fs) : /\ f.service = "cloudtrail" /\ f.check \in CloudTrailGapChecks
                          /\ Grave(f)}

\* The three rules over the whole account; resources names what each points at.
AccountCorrelationList(fs) ==
  LET acts == Actionable(fs)
      gaps == CloudTrailGaps(fs)
      criticals == {f \in acts : f.severity = "CRITICAL" /\ f.service # "cloudtrail"}
      rootGap == \E f \in acts : f.service = "iam" /\ f.check = "root_mfa" /\ Grave(f)
      blind == \E f \in acts : /\ f.service = "guardduty" /\ f.check = "detector_enabled"
                               /\ Grave(f)
      exposed == {f \in acts : <<f.service, f.check>> \in RegionalExposureChecks /\ Grave(f)}
      Fired(rule, when, what) ==
        IF when THEN <<[rule |-> rule, points |-> 15, resources |-> what]>> ELSE <<>>
  IN  Fired("critical_findings_with_cloudtrail_gap", gaps # {} /\ criticals # {},
            {f.resource : f \in criticals})
      \o
      Fired("root_mfa_with_cloudtrail_gap", gaps # {} /\ rootGap,
            {"root"} \union {f.resource : f \in gaps})
      \o
      Fired("regional_public_exposure_with_guardduty_gap", blind /\ exposed # {},
            {f.resource : f \in exposed})

AccountCorrelations(fs) == ToSet(AccountCorrelationList(fs))

\* All that is found, whatever its order.
Correlations(fs) ==
  ResourceCorrelations(fs) \union ServiceAccountCorrelations(fs) \union AccountCorrelations(fs)

-----------------------------------------------------------------------------
(* The tuple the assessment lists its correlations in                      *)

SameGroup(f, g) == f.service = g.service /\ f.resource = g.resource

\* A resource gets its place in by_resource from its first actionable finding.
Opens(fs, i) ==
  /\ fs[i].severity \in DOMAIN SeverityWeights
  /\ \A j \in 1..(i - 1) :
       ~ (fs[j].severity \in DOMAIN SeverityWeights /\ SameGroup(fs[j], fs[i]))

\* Mutant: a rule wants exactly its findings, one more on the resource hides it.
FiredOnExact(fs, f) ==
  {r \in ResourceRules :
     r.service = f.service /\ r.needs = ChecksAt(fs, f.service, f.resource)}

\* The rules that fire on the resource of f.
FiredOn(fs, f) ==
  {r \in ResourceRules :
     r.service = f.service /\ r.needs \subseteq ChecksAt(fs, f.service, f.resource)}

\* What they find there, in the order of the code.
ListFiredOn(fs, f) ==
  LET fired == FiredOn(fs, f)
  IN  FlattenSeq([k \in DOMAIN RuleList |->
        IF RuleList[k] \in fired
        THEN <<[rule |-> RuleList[k].rule, points |-> RuleList[k].points,
                resources |-> {f.resource}]>>
        ELSE <<>>])

ResourceCorrelationList(fs) ==
  FlattenSeq([i \in DOMAIN fs |->
    IF Opens(fs, i) /\ FiredOn(fs, fs[i]) # {} THEN ListFiredOn(fs, fs[i]) ELSE <<>>])

\* The accounts come sorted by name, in an order that no finding has a say in.
ServiceAccountCorrelationList(fs) ==
  LET accounts == SetToSeq(GrantedUsers(fs))
  IN  [k \in DOMAIN accounts |-> OfAccount(fs, accounts[k])]

CorrelationList(fs) ==
  ResourceCorrelationList(fs) \o
  (ServiceAccountCorrelationList(fs) \o AccountCorrelationList(fs))

Points(list) == SumFunction([i \in DOMAIN list |-> list[i].points])

\* Mutant: the final score loses its cap.
ScoreUncapped(base, list) == base + Points(list)

FinalScore(base, list) == Cap(base + Points(list))

\* risk._level
Level(score) ==
  IF score >= 80 THEN "CRITICAL" ELSE IF score >= 50 THEN "HIGH"
  ELSE IF score >= 25 THEN "MEDIUM" ELSE IF score > 0 THEN "LOW" ELSE "CLEAR"

AssessRisk(fs) ==
  LET base == BaseScore(fs)
      list == CorrelationList(fs)
      score == FinalScore(base, list)
  IN  [score |-> score, level |-> Level(score), base |-> base, correlations |-> list]

Score(fs) == AssessRisk(fs).score

-----------------------------------------------------------------------------
VARIABLE findings     \* the list the scanners have extended so far

vars == findings

Init == findings = <<>>

\* findings.extend in ScanRunner.run
Report == /\ Len(findings) < MaxFindings
          /\ \E f \in Catalog : findings' = Append(findings, f)

\* The same findings reported in another order: another scanner first, another
\* page order of the provider.
Swapped(fs, i) == [fs EXCEPT ![i] = fs[i + 1], ![i + 1] = fs[i]]

Reorder == \E i \in 1..(Len(findings) - 1) : findings' = Swapped(findings, i)

Next == Report \/ Reorder

Spec == Init /\ [][Next]_vars

-----------------------------------------------------------------------------
(* Properties                                                              *)

\* The list holds findings, and the score stays in the documented range
\* (docs/risk-engine.md: the final score is capped at 100).
TypeOK ==
  /\ \A f \in ToSet(findings) : FindingOK(f)
  /\ Score(findings) \in 0..100
  /\ BaseScore(findings) <= Score(findings)

\* One more finding, of any severity, never lowers the score or the base score,
\* not even when a correlation changes its tier (assess_risk as a whole).
OneMoreFindingNeverLowersTheScore ==
  [][Len(findings') > Len(findings) =>
       /\ Score(findings') >= Score(findings)
       /\ BaseScore(findings') >= BaseScore(findings)]_vars

\* The list has each element of the set once, and nothing else.
ListsOnce(list, S) == Len(list) = Cardinality(S) /\ ToSet(list) = S

\* The order in which scanners report shows in the assessment in one place only: resources
\* are listed in the order in which they were first found wanting.  When two findings
\* change places, score and level stay, every correlation is listed once before and after,
\* what is said of accounts stays where it is, and unless both findings were the first of
\* their resource the whole assessment is the same.
ReorderingOnlyReorders ==
  [][\A i \in 1..(Len(findings) - 1) :
       findings' = Swapped(findings, i) =>
         \A old \in {AssessRisk(findings)}, new \in {AssessRisk(findings')} :
           /\ new.score = old.score /\ new.level = old.level /\ new.base = old.base
           /\ ListsOnce(old.correlations, Correlations(findings))
           /\ ListsOnce(new.correlations, ToSet(old.correlations))
           /\ \A k \in DOMAIN old.correlations :
                old.correlations[k] \notin ResourceCorrelations(findings) =>
                  new.correlations[k] = old.correlations[k]
           /\ ~ (Opens(findings, i) /\ Opens(findings, i + 1)) => new = old]_vars

\* What is not evidence of a weakness moves nothing: a PASS or an ERROR finding
\* leaves the whole assessment as it was ("ERROR findings do not currently add
\* risk points", docs/risk-engine.md).
NoEvidenceNoChange ==
  [][Len(findings') > Len(findings) /\ Last(findings').severity \in {"PASS", "ERROR"}
       => AssessRisk(findings') = AssessRisk(findings)]_vars

\* Same-resource rules are local: the correlations of the whole list are those
\* each resource of each service would have on its own.
ResourceCorrelationsAreLocal ==
  ResourceCorrelations(findings) =
    UNION {ResourceCorrelations(
             SetToSeq({f \in ToSet(findings) : f.resource = g.resource /\ f.service = g.service})) :
           g \in ToSet(findings)}

\* The points of the correlations that name the account.
ServiceAccountTier(fs, sa) ==
  {c.points : c \in {d \in ServiceAccountCorrelations(fs) : sa \in d.resources}}

\* The ServiceAccount rule fires once per account, with the strongest tier of
\* all its grants, whatever arrived first (docs/risk-engine.md: "consolidated
\* into one correlation using the strongest matching tier").
OneTierPerServiceAccount ==
  \A sa \in TokenUsers(findings) :
    LET singles == {Tier({g.check}) : g \in GrantsOf(findings, sa)}
    IN  ServiceAccountTier(findings, sa) = IF singles = {} THEN {} ELSE {Max(singles)}
=============================================================================
