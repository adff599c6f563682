---------------------------- MODULE LegacyChecks ----------------------------
(***************************************************************************)
(* What the legacy CloudGuard scanner (legacy/cloudguard_flask/scanner.py) *)
(* finds in an AWS account, and what save_report_to_database makes of it.  *)
(* An account is a record                                                  *)
(*   buckets  name |-> [pab, encrypted, versioned, logged, policy]         *)
(*   trails   set of [logging, everywhere]      rootMfa  BOOLEAN           *)
(*   keys     the access keys [old, used] of its users, in list order      *)
(*   groups   set of [name, port, world]    databases  set of [name, public]*)
(* and "denied" the checks whose AWS call failed.  Of a call that is not    *)
(* caught there is no report to speak of.                                  *)
(***************************************************************************)
EXTENDS Integers, FiniteSets, Sequences

Found(check, subject, severity) ==
  [check |-> check, subject |-> subject, severity |-> severity]

Severities == {"PASS", "INFO", "WARNING", "CRITICAL", "ERROR"}

-----------------------------------------------------------------------------
(* One bucket: the severity of each of its five findings                   *)

BucketChecks == {"public_access", "encryption", "versioning", "logging", "policy"}

\* The checks that let an error of AWS through to the caller.
Uncaught == {"versioning", "logging", "security_group"}

\* What a check says of a bucket, or "ERROR" when it caught the error of its call.
BucketSeverity(b, check, denied) ==
  IF check \in denied THEN "ERROR"
  ELSE CASE check = "public_access" ->
              [all |-> "PASS", part |-> "WARNING", none |-> "CRITICAL"][b.pab]
         [] check = "encryption" -> IF b.encrypted THEN "PASS" ELSE "WARNING"
         [] check = "versioning" -> IF b.versioned THEN "PASS" ELSE "WARNING"
         [] check = "logging" -> IF b.logged THEN "PASS" ELSE "WARNING"
         [] check = "policy" -> IF b.policy = "public" THEN "CRITICAL" ELSE "PASS"

BucketFindings(name, b, denied) ==
  {Found(c, name, BucketSeverity(b, c, denied)) : c \in BucketChecks}

\* A check that did not return True, failed ones included, costs its weight; the
\* score may become negative.
Cost(b, check, denied) ==
  IF BucketSeverity(b, check, denied) = "PASS" THEN 0
  ELSE [public_access |-> 50, encryption |-> 25, versioning |-> 10, logging |-> 10,
        policy |-> 50][check]

\* Mutant: a policy that could not be read costs nothing.
GenerousScore(b, denied) ==
  100 - Cost(b, "public_access", denied) - Cost(b, "encryption", denied)
      - Cost(b, "versioning", denied) - Cost(b, "logging", denied)
      - IF "policy" \in denied THEN 0 ELSE Cost(b, "policy", denied)

SecurityScore(b, denied) ==
  100 - Cost(b, "public_access", denied) - Cost(b, "encryption", denied)
      - Cost(b, "versioning", denied) - Cost(b, "logging", denied) - Cost(b, "policy", denied)

\* calculate_risk_level
RiskLevel(score) ==
  IF score >= 90 THEN "LOW" ELSE IF score >= 70 THEN "MEDIUM"
  ELSE IF score >= 50 THEN "HIGH" ELSE "CRITICAL"

-----------------------------------------------------------------------------
(* The account                                                             *)

CloudTrail(a, denied) ==
  IF "cloudtrail" \notin denied /\ \E t \in a.trails : t.logging /\ t.everywhere
  THEN "PASS" ELSE "WARNING"

RootMfa(a, denied) == IF "root_mfa" \notin denied /\ a.rootMfa THEN "PASS" ELSE "WARNING"

\* check_iam_access_key_age returns at the first key that was never used: only the
\* keys before it, and that one, are looked at.
KeysWalked(a) ==
  {i \in DOMAIN a.keys : \A j \in 1..(i - 1) : a.keys[j].used # "never"}

AccessKeys(a, denied) ==
  LET keys == {a.keys[i] : i \in KeysWalked(a)}
      stale == {k \in keys : k.old \/ k.used = "long_ago"}
      unused == {k \in keys : k.used = "never"}
  IN  CASE "access_keys" \in denied -> {Found("access_keys", "account", "WARNING")}
        [] OTHER ->
          (IF stale \union unused = {} THEN {} ELSE {Found("access_keys", "account", "WARNING")})
          \union
          (IF unused # {} THEN {} ELSE {Found("access_keys", "account", "INFO")})
          \union
          (IF stale \union unused # {} THEN {} ELSE {Found("access_keys", "account", "PASS")})

\* Only rules that begin at exactly port 22 or 5000 are looked at.
SecurityGroups(a) ==
  {Found("security_group", g.name, IF g.port = 22 THEN "CRITICAL" ELSE "WARNING") :
     g \in {h \in a.groups : h.world /\ h.port \in {22, 5000}}}

Databases(a, denied) ==
  CASE "rds" \in denied -> {Found("rds", "account", "WARNING")}
    [] "rds" \notin denied /\ a.databases = {} -> {Found("rds", "account", "INFO")}
    [] OTHER -> {Found("rds", d.name, IF d.public THEN "CRITICAL" ELSE "PASS") :
                   d \in a.databases}

AccountFindings(a, denied) ==
  {Found("cloudtrail", "account", CloudTrail(a, denied)),
   Found("root_mfa", "account", RootMfa(a, denied))}
  \union AccessKeys(a, denied) \union SecurityGroups(a) \union Databases(a, denied)

-----------------------------------------------------------------------------
(* The report of a scan, and its rows in the database                      *)

Report(time, a, denied) ==
  [time |-> time,
   account |-> AccountFindings(a, denied),
   buckets |-> [n \in DOMAIN a.buckets |->
                 [score |-> SecurityScore(a.buckets[n], denied),
                  findings |-> BucketFindings(n, a.buckets[n], denied)]]]

\* A text that begins with "ERROR" has none of the prefixes the database code knows.
Stored(findings) ==
  {IF f.severity = "ERROR" THEN [f EXCEPT !.severity = "INFO"] ELSE f : f \in findings}

Details(found) ==
  [account |-> Stored(found.account),
   buckets |-> [n \in DOMAIN found.buckets |->
                 [score |-> found.buckets[n].score,
                  findings |-> Stored(found.buckets[n].findings)]]]

\* Mutant: the findings of the buckets are not looked through.
AccountCriticals(details) == {f \in details.account : f.severity = "CRITICAL"}

\* get_critical_findings
CriticalFindings(details) ==
  {f \in details.account \union UNION {details.buckets[n].findings : n \in DOMAIN details.buckets} :
     f.severity = "CRITICAL"}
=============================================================================
