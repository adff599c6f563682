----------------------------- MODULE ScanGates -----------------------------
(***************************************************************************)
(* The pure judgements a finished scan is put through: coverage            *)
(* (coverage.py), the full-coverage gate (coverage.py), the severity gate  *)
(* (policy.py), and the status of a ScanResult (runner.py).  A list of     *)
(* findings is abstracted to a tally, how many findings of each severity:  *)
(* none of these judgements looks at anything else in a finding.           *)
(***************************************************************************)
EXTENDS Naturals

\* models.Severity
Severity == {"PASS", "INFO", "LOW", "MEDIUM", "HIGH", "CRITICAL", "ERROR"}

\* policy.SECURITY_SEVERITY_RANK: PASS, INFO and ERROR have no rank.
SecurityRank == [LOW |-> 1, MEDIUM |-> 2, HIGH |-> 3, CRITICAL |-> 4]
Ranked == {"LOW", "MEDIUM", "HIGH", "CRITICAL"}

\* --fail-on: absent, or one of the ranked severities.
FailOn == {"none"} \union Ranked

Tally == [Severity -> Nat]
NoFindings == [s \in Severity |-> 0]
OnlyErrors(n) == [s \in Severity |-> IF s = "ERROR" THEN n ELSE 0]

-----------------------------------------------------------------------------
(* coverage.assess_coverage, on the set of executed scanners and the error  *)
(* count of each.                                                           *)

Affected(scanners, errors) == {s \in scanners : errors[s] > 0}

CoverageStatus(scanners, errors) ==
    LET affected == Affected(scanners, errors)
    IN  IF scanners = {} THEN "UNKNOWN"
        ELSE IF affected = {} THEN "FULL"
        ELSE IF affected = scanners THEN "LIMITED"
        ELSE "PARTIAL"

RiskConfidence(status) ==
    [UNKNOWN |-> "UNKNOWN", FULL |-> "HIGH", LIMITED |-> "LOW",
     PARTIAL |-> "REDUCED"][status]

\* runner.ScanResult.status: UNKNOWN falls through to COMPLETE.
ResultStatus(coverage) ==
    IF coverage = "LIMITED" THEN "FAILED"
    ELSE IF coverage = "PARTIAL" THEN "PARTIAL" ELSE "COMPLETE"

-----------------------------------------------------------------------------
(* coverage.evaluate_coverage_gate and policy.evaluate_policy               *)

GatePassed(coverage, requireFull) == requireFull => coverage = "FULL"

\* The findings of a scan are kept per scanner that produced them.
Triggered(scanners, findings, failOn) ==
    \E s \in scanners : \E sev \in Ranked :
        /\ findings[s][sev] > 0
        /\ SecurityRank[sev] >= SecurityRank[failOn]

\* Mutant: "at or above" read as "above".
PolicyPassedStrict(scanners, findings, failOn) ==
    failOn = "none" \/
    ~ \E s \in scanners : \E sev \in Ranked :
        /\ findings[s][sev] > 0
        /\ SecurityRank[sev] > SecurityRank[failOn]

PolicyPassed(scanners, findings, failOn) ==
    failOn = "none" \/ ~Triggered(scanners, findings, failOn)

=============================================================================
