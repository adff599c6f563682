----------------------------- MODULE CloudChecks -----------------------------
(***************************************************************************)
(* The verdicts of the AWS scanners (scanners/aws/*.py) on what an API     *)
(* call shows of one resource.  A resource is a record of the facets the   *)
(* checks tell apart:                                                      *)
(*   bucket    [pab, encrypted, versioned, logged, policy]                 *)
(*   trail     [logging, everywhere]           detector  [enabled]         *)
(*   group     [rules], of [world, all, from, to]                          *)
(*   database  [public, encrypted]             function  [url]             *)
(*   key       [active, old, used]                                         *)
(*   document  [parses, statements], of [allow, condition, actions,        *)
(*             resources, anyone]                                          *)
(***************************************************************************)
EXTENDS Integers, FiniteSets

PassUnless(bad, severity) == IF bad THEN severity ELSE "PASS"

BucketChecks ==
  {"public_access_block", "default_encryption", "versioning", "access_logging", "public_policy"}

BucketVerdict(check, b) ==
  CASE check = "public_access_block" ->
         [all |-> "PASS", part |-> "HIGH", none |-> "CRITICAL"][b.pab]
    [] check = "default_encryption" -> PassUnless(~b.encrypted, "MEDIUM")
    [] check = "versioning" -> PassUnless(~b.versioned, "MEDIUM")
    [] check = "access_logging" -> PassUnless(~b.logged, "MEDIUM")
    [] check = "public_policy" -> PassUnless(b.policy = "public", "CRITICAL")

TrailLogging(t) == PassUnless(~t.logging, "HIGH")
TrailEverywhere(t) == PassUnless(~t.everywhere, "MEDIUM")

Detector(d) == PassUnless(~d.enabled, "HIGH")

DatabaseAccess(d) == PassUnless(d.public, "CRITICAL")
DatabaseEncryption(d) == PassUnless(~d.encrypted, "HIGH")

FunctionUrl(f) == PassUnless(f.url = "open", "HIGH")

-----------------------------------------------------------------------------
(* Security groups: the [check, severity] of every finding                 *)

SensitivePorts ==
  [p \in {22, 3389, 3306, 5432, 6379, 27017, 9200} |->
     IF p \in {22, 3389} THEN "CRITICAL" ELSE "HIGH"]

\* A rule without ports has an empty range.
\* Mutant: the last port of a range is left out.
CoveredExclusive(r) == {p \in DOMAIN SensitivePorts : r.from <= p /\ p < r.to}

Covered(r) == {p \in DOMAIN SensitivePorts : r.from <= p /\ p <= r.to}

GroupVerdicts(g) ==
  LET open == {r \in g.rules : r.world}
      found == {<<"security_group_all_ingress", "CRITICAL">> : r \in {q \in open : q.all}}
               \union
               {<<"security_group_public_sensitive_port", SensitivePorts[p]>> :
                  p \in UNION {Covered(r) : r \in {q \in open : ~q.all}}}
  IN  IF found = {} THEN {<<"security_group_public_sensitive_ports", "PASS">>} ELSE found

-----------------------------------------------------------------------------
(* IAM                                                                     *)

KeyAge(k) == PassUnless(k.old, "MEDIUM")
KeyUse(k) == PassUnless(k.used # "recently", "MEDIUM")

\* _unrestricted_statement_indexes: some statement allows everything everywhere.
Unrestricted(document) ==
  \E s \in document.statements :
    s.allow /\ ~s.condition /\ "*" \in s.actions /\ "*" \in s.resources

\* Everything, and the actions of STS, and patterns of them, that begin with
\* sts:AssumeRole.
AssumeActions ==
  {"*", "sts:AssumeRole", "sts:AssumeRole*", "sts:AssumeRoleWithSAML",
   "sts:AssumeRoleWithWebIdentity"}

\* The trust policy of a role lets anyone assume it.
TrustsAnyone(document) ==
  \E s \in document.statements :
    s.allow /\ ~s.condition /\ s.anyone /\ s.actions \intersect AssumeActions # {}

TrustVerdict(document) ==
  IF ~document.parses THEN "ERROR" ELSE PassUnless(TrustsAnyone(document), "HIGH")
=============================================================================
