----------------------------- MODULE ScanRunner -----------------------------
(***************************************************************************)
(* One "blacklight scan <provider>" process, from parsed arguments to exit *)
(* code: cli._run_<provider>, ScanRunner.run and cli._finish_scan.  The    *)
(* scanners are the environment here: a call to one returns findings       *)
(* (abstracted to a tally) or raises.  What each kind of scanner really    *)
(* does is the business of the other modules.                              *)
(***************************************************************************)
EXTENDS ScanGates, Sequences

CONSTANTS
  Providers,      \* "aws", "docker", "kubernetes", "server"
  ScannerOrder,   \* provider |-> the names it registers, in sorted order
  Tallies         \* the tallies a scanner may return

NamesOf(p) == {ScannerOrder[p][i] : i \in DOMAIN ScannerOrder[p]}
Scanners == UNION {NamesOf(p) : p \in Providers}

ASSUME RegistryAssumption ==
  /\ Providers \subseteq {"aws", "docker", "kubernetes", "server"}
  /\ ScannerOrder \in [Providers -> Seq(STRING)]
  /\ \A p \in Providers :
       /\ ScannerOrder[p] # <<>>
       /\ \A i, j \in DOMAIN ScannerOrder[p] :
            ScannerOrder[p][i] = ScannerOrder[p][j] => i = j
  /\ "all" \notin Scanners

ASSUME TalliesAssumption == Tallies \subseteq Tally

NotExited == 256

\* The arguments argparse lets through.
Arguments ==
  {a \in [provider : Providers, service : {"all"} \union Scanners,
          format : {"console", "json", "html"}, output : BOOLEAN,
          image : BOOLEAN, failOn : FailOn, requireFull : BOOLEAN] :
     /\ a.service = "all" \/ a.service \in NamesOf(a.provider)
     /\ a.image => a.provider = "docker"}

VARIABLES
  pc,         \* where the process is
  args,       \* the parsed command line
  next,       \* index of the next scanner spec to run
  findings,   \* scanner |-> tally of the findings it contributed
  errors,     \* scanner_error_counts (0: the key is absent)
  identity,   \* ScanContext.identity_status
  file,       \* the report file: absent, stale (an earlier scan's), partial, fresh
  published,  \* has the report been printed, or written in full
  code        \* the process's exit code

vars == <<pc, args, next, findings, errors, identity, file, published, code>>

PCs == {"validate", "target", "context", "scan", "result", "deliver", "decide", "exit"}

TypeOK ==
  /\ pc \in PCs
  /\ args \in Arguments
  /\ next \in Nat \ {0}
  /\ findings \in [Scanners -> Tally]
  /\ errors \in [Scanners -> Nat]
  /\ identity \in {"none", "RESOLVED", "UNAVAILABLE", "NOT_APPLICABLE"}
  /\ file \in {"absent", "stale", "partial", "fresh"}
  /\ published \in BOOLEAN
  /\ code \in {0, 1, 2, NotExited}

-----------------------------------------------------------------------------
\* registry.scanner_specs
Specs == IF args.service = "all" THEN ScannerOrder[args.provider]
         ELSE <<args.service>>

Selected == {Specs[i] : i \in DOMAIN Specs}
Executed == {Specs[i] : i \in 1..(next - 1)}

Coverage == CoverageStatus(Executed, errors)

Init ==
  /\ pc = "validate"
  /\ args \in Arguments
  /\ next = 1
  /\ findings = [s \in Scanners |-> NoFindings]
  /\ errors = [s \in Scanners |-> 0]
  /\ identity = "none"
  /\ file \in {"absent", "stale"}
  /\ published = FALSE
  /\ code = NotExited

Exit(c) == pc' = "exit" /\ code' = c

\* A traceback: the interpreter exits with status 1.
Crash == Exit(1)

(* cli._validate_output_args                                               *)
ValidateOutput ==
  /\ pc = "validate"
  /\ IF args.format = "html" /\ ~args.output
     THEN Exit(2)
     ELSE pc' = "target" /\ UNCHANGED code
  /\ UNCHANGED <<args, next, findings, errors, identity, file, published>>

(* Build the session or scan target: boto3.Session may raise               *)
(* ProfileNotFound, a server target may be rejected (server_profiles), the *)
(* Docker image arguments may contradict the service.                      *)
BadImageArguments ==
  /\ args.provider = "docker"
  /\ \/ args.service = "image" /\ ~args.image
     \/ args.image /\ args.service \notin {"image", "all"}

OpenTarget ==
  /\ pc = "target"
  /\ \/ BadImageArguments /\ Exit(2)
     \/ args.provider \in {"aws", "server"} /\ Exit(2)
     \/ ~BadImageArguments /\ pc' = "context" /\ UNCHANGED code
  /\ UNCHANGED <<args, next, findings, errors, identity, file, published>>

(* resolve_scan_context: an STS failure is recorded, never raised.         *)
ResolveContext ==
  /\ pc = "context"
  /\ identity' \in IF args.provider = "aws" THEN {"RESOLVED", "UNAVAILABLE"}
                   ELSE {"NOT_APPLICABLE"}
  /\ pc' = "scan"
  /\ UNCHANGED <<args, next, findings, errors, file, published, code>>

\* Mutant: an error count belongs to the scanner that starts the run.
ContributeToFirst(s, tally) ==
  /\ findings' = [findings EXCEPT ![s] = tally]
  /\ errors' = [errors EXCEPT ![Specs[1]] = @ + tally["ERROR"]]
  /\ next' = next + 1

(* One turn of the loop over the specs: the scanner's findings are kept,   *)
(* its ERROR findings counted under its registered name.                   *)
Contribute(s, tally) ==
  /\ findings' = [findings EXCEPT ![s] = tally]
  /\ errors' = [errors EXCEPT ![s] = tally["ERROR"]]
  /\ next' = next + 1

AtScanner == pc = "scan" /\ next <= Len(Specs)

ScannerReturns ==
  /\ AtScanner
  /\ \E tally \in Tallies : Contribute(Specs[next], tally)
  /\ UNCHANGED <<pc, args, identity, file, published, code>>

\* ClientError, from the constructor or from scan(): one ERROR finding stands for it.
ScannerClientError ==
  /\ AtScanner
  /\ args.provider = "aws"
  /\ Contribute(Specs[next], OnlyErrors(1))
  /\ UNCHANGED <<pc, args, identity, file, published, code>>

\* Anything else a scanner raises ends the run and its findings are lost:
\* _run_aws turns a BotoCoreError into exit code 2, nobody catches the rest.
ScannerRaises ==
  /\ AtScanner
  /\ \/ args.provider = "aws" /\ Exit(2)
     \/ Crash
  /\ UNCHANGED <<args, next, findings, errors, identity, file, published>>

\* Mutant: the inferred counts only know the scanners that ran.
InferredOfExecuted ==
  [s \in Executed |-> findings[s]["ERROR"]]

(* ScanResult.__post_init__: with no count at all, infer the counts from   *)
(* the ERROR findings, whose service is the scanner's registered name.     *)
InferredErrors ==
  [s \in Scanners |-> IF s \in Executed THEN findings[s]["ERROR"] ELSE 0]

\* Mutant: the loop's end is missed by one.
BuildResultLate ==
  /\ pc = "scan" /\ next > Len(Specs) + 1
  /\ pc' = "deliver"
  /\ UNCHANGED <<args, next, findings, errors, identity, file, published, code>>

BuildResult ==
  /\ pc = "scan" /\ next > Len(Specs)
  /\ errors' = IF \E s \in Scanners : errors[s] > 0 THEN errors ELSE InferredErrors
  /\ pc' = "deliver"
  /\ UNCHANGED <<args, next, findings, identity, file, published, code>>

\* Mutant: a scan without usable coverage ends before its report is written.
DeliverUnlessLimited ==
  /\ pc = "deliver"
  /\ IF Coverage = "LIMITED"
     THEN Exit(2) /\ UNCHANGED <<published, file>>
     ELSE /\ pc' = "decide" /\ published' = TRUE
          /\ file' = IF args.output THEN "fresh" ELSE file
          /\ UNCHANGED code
  /\ UNCHANGED <<args, next, findings, errors, identity>>

(* cli._finish_scan, up to the report: mkdir may fail and leave the file   *)
(* as it was; write_text truncates first, so a failed write leaves part of *)
(* the report.  Both raise OSError, which nobody catches.                  *)
DeliverReport ==
  /\ pc = "deliver"
  /\ \/ /\ pc' = "decide" /\ published' = TRUE
        /\ file' = IF args.output THEN "fresh" ELSE file
        /\ UNCHANGED code
     \/ /\ args.output /\ Crash
        /\ file' \in {file, "partial"}
        /\ UNCHANGED published
  /\ UNCHANGED <<args, next, findings, errors, identity>>

\* Mutant: the exit code of the severity gate takes precedence.
VerdictPolicyFirst ==
  IF ~PolicyPassed(Executed, findings, args.failOn) THEN 1
  ELSE IF ResultStatus(Coverage) = "FAILED" THEN 2
  ELSE IF ~GatePassed(Coverage, args.requireFull) THEN 2 ELSE 0

\* cli._finish_scan, after the report
Verdict ==
  IF ResultStatus(Coverage) = "FAILED" THEN 2
  ELSE IF ~GatePassed(Coverage, args.requireFull) THEN 2
  ELSE IF ~PolicyPassed(Executed, findings, args.failOn) THEN 1 ELSE 0

DecideExitCode ==
  /\ pc = "decide"
  /\ Exit(Verdict)
  /\ UNCHANGED <<args, next, findings, errors, identity, file, published>>

Next ==
  \/ ValidateOutput \/ OpenTarget \/ ResolveContext
  \/ ScannerReturns \/ ScannerClientError \/ ScannerRaises
  \/ BuildResult \/ DeliverReport \/ DecideExitCode

\* Every call the process makes has a time limit or ends by itself (boto3
\* timeouts and retries, subprocess timeouts), so the process keeps moving.
Spec == Init /\ [][Next]_vars /\ WF_vars(Next)

-----------------------------------------------------------------------------
(* Properties                                                              *)

\* Exit code 0 is earned (docs/coverage-confidence.md, cli._finish_scan): the
\* whole report is out, every selected scanner ran, one of them at least without
\* an ERROR finding, all of them if full coverage was required, and no finding
\* of any scanner reaches the --fail-on threshold.
CleanExitIsEarned ==
  code = 0 =>
    /\ published /\ (args.output => file = "fresh")
    /\ Executed = Selected
    /\ \E s \in Selected : findings[s]["ERROR"] = 0
    /\ args.requireFull => \A s \in Selected : findings[s]["ERROR"] = 0
    /\ \A s \in Selected : \A sev \in Ranked :
         args.failOn # "none" /\ SecurityRank[sev] >= SecurityRank[args.failOn]
           => findings[s][sev] = 0

\* A scanner that could not inspect something always shows in the coverage of
\* the result, under its own name (ScanRunner.run, coverage.assess_coverage):
\* the affected scanners are exactly those that contributed an ERROR finding.
\* It is about the counts ScanRunner.run keeps: as it always passes them, the
\* inference of __post_init__ meets no ERROR finding of a scan.
AffectedAreTheFailed ==
  pc \in {"deliver", "decide"} =>
    Affected(Executed, errors) = {s \in Selected : findings[s]["ERROR"] > 0}

\* A pipeline that reads exit code 2 of a LIMITED scan, or 1 of the severity
\* gate, finds this run's report (docs: "A LIMITED scan returns exit code 2
\* after the report is rendered or written").  Only a process that gave up
\* before the end of its scanners or of its write leaves an old report behind.
StaleReportMeansGivenUp ==
  pc = "exit" /\ args.output /\ file # "fresh" =>
    /\ code # 0
    /\ ~published
    /\ code = 2 => next <= Len(Specs)

\* The contract, with the exit codes an aborted process really has.
Contract == INSTANCE ScanContract WITH
  AbortCodes <- {1, 2},
  scope      <- Selected,
  strict     <- args.requireFull,
  seen       <- [s \in Scanners |->
                   IF s \notin Executed THEN "pending"
                   ELSE IF findings[s]["ERROR"] = 0 THEN "clean" ELSE "affected"],
  alarm      <- ~PolicyPassed(Executed, findings, args.failOn),
  verdict    <- code

ImplementsContract == Contract!Spec

\* The process ends, with an exit code, whatever the scanners do.
EventuallyExits == <>(pc = "exit" /\ code # NotExited)

\* The invariant the proofs induct on: how far the scanners got in each phase,
\* that what a scanner contributed and what was counted for it agree, and what
\* an exit says about the way the process ended.
Progress ==
  /\ pc \in {"validate", "target", "context"} => next = 1
  /\ next <= Len(Specs) + 1
  /\ pc \in {"deliver", "decide"} \/ published => next = Len(Specs) + 1

Accounting ==
  /\ \A s \in Scanners : errors[s] = findings[s]["ERROR"]
  /\ \A s \in Scanners \ Executed : findings[s] = NoFindings

Ending ==
  /\ pc # "exit" <=> code = NotExited
  /\ published => pc \in {"decide", "exit"}
  /\ pc = "decide" => published
  /\ published /\ args.output => file = "fresh"
  /\ pc = "exit" /\ published => code = Verdict
  /\ pc = "exit" /\ ~published => code \in {1, 2}
  /\ pc = "exit" /\ ~published /\ code = 2 => next <= Len(Specs)

RunInv == TypeOK /\ Progress /\ Accounting /\ Ending

\* docs/coverage-confidence.md:55 reserves exit code 1 for the severity gate.
ExitOneMeansThreshold ==
  code = 1 => ~PolicyPassed(Executed, findings, args.failOn)
=============================================================================
