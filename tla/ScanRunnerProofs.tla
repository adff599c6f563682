-------------------------- MODULE ScanRunnerProofs --------------------------
(***************************************************************************)
(* Type correctness of ScanRunner, the inductive invariant behind its      *)
(* exit-code properties, and the safety part of its refinement of          *)
(* ScanContract, for any registry and any tallies.                         *)
(***************************************************************************)
EXTENDS ScanRunner, TLAPS

\* The registry gives every request a non-empty list of distinct scanners
\* (registry.scanner_specs).
LEMMA SpecsType ==
  ASSUME args \in Arguments
  PROVE  /\ Specs \in Seq(Scanners)
         /\ Len(Specs) \in Nat \ {0}
         /\ \A i, j \in 1..Len(Specs) : Specs[i] = Specs[j] => i = j
         /\ Selected \subseteq Scanners
         /\ Selected # {}
         /\ Selected = {Specs[i] : i \in 1..Len(Specs)}
<1> DEFINE p == args.provider
           order == ScannerOrder[p]
<1>1. p \in Providers /\ (args.service = "all" \/ args.service \in NamesOf(p))
  BY DEF Arguments
<1>2. order \in Seq(STRING) /\ order # <<>>
      /\ (\A i, j \in DOMAIN order : order[i] = order[j] => i = j)
  BY <1>1, RegistryAssumption
<1>3. NamesOf(p) \subseteq Scanners
  BY <1>1 DEF Scanners
<1>4. \A i \in 1..Len(order) : order[i] \in Scanners
  BY <1>2, <1>3 DEF NamesOf
<1>5. order \in Seq(Scanners) /\ Len(order) \in Nat \ {0}
  BY <1>2, <1>4
<1>6. Specs \in Seq(Scanners) /\ Len(Specs) \in Nat \ {0}
      /\ (\A i, j \in 1..Len(Specs) : Specs[i] = Specs[j] => i = j)
  <2>1. CASE args.service = "all"
    BY <2>1, <1>2, <1>5 DEF Specs
  <2>2. CASE args.service # "all"
    BY <2>2, <1>1, <1>3 DEF Specs
  <2>3. QED BY <2>1, <2>2
<1>7. DOMAIN Specs = 1..Len(Specs)
  BY <1>6
<1>8. QED BY <1>6, <1>7 DEF Selected

-----------------------------------------------------------------------------
LEMMA InitTypeOK == Init => TypeOK
<1> SUFFICES ASSUME Init PROVE TypeOK
  OBVIOUS
<1>1. findings \in [Scanners -> Tally] /\ errors \in [Scanners -> Nat]
  BY DEF Init, NoFindings, Tally
<1>2. published \in BOOLEAN
  BY DEF Init
<1>3. /\ pc \in PCs /\ args \in Arguments /\ next \in Nat \ {0}
      /\ identity \in {"none", "RESOLVED", "UNAVAILABLE", "NOT_APPLICABLE"}
      /\ file \in {"absent", "stale", "partial", "fresh"}
      /\ code \in {0, 1, 2, NotExited}
  BY DEF Init, PCs
<1>4. QED BY <1>1, <1>2, <1>3 DEF TypeOK

\* Every action keeps each variable in its type.
LEMMA TypeStep == TypeOK /\ [Next]_vars => TypeOK'
<1> SUFFICES ASSUME TypeOK, [Next]_vars PROVE TypeOK'
  OBVIOUS
<1> USE DEF TypeOK, PCs, NotExited, Exit, Crash
<1>0. \A s, t : s \in Scanners /\ t \in Tally =>
         [findings EXCEPT ![s] = t] \in [Scanners -> Tally]
         /\ [errors EXCEPT ![s] = t["ERROR"]] \in [Scanners -> Nat]
  BY DEF Tally, Severity
<1>1. CASE ValidateOutput
  BY <1>1 DEF ValidateOutput
<1>2. CASE OpenTarget
  BY <1>2 DEF OpenTarget
<1>3. CASE ResolveContext
  BY <1>3 DEF ResolveContext
<1>4. ASSUME AtScanner, NEW t \in Tally, Contribute(Specs[next], t)
      PROVE  /\ findings' \in [Scanners -> Tally]
             /\ errors' \in [Scanners -> Nat]
             /\ next' \in Nat \ {0}
  <2>1. Specs[next] \in Scanners
    BY <1>4, SpecsType DEF AtScanner
  <2>2. QED BY <2>1, <1>4, <1>0 DEF Contribute
<1>5. CASE ScannerReturns
  BY <1>5, <1>4, TalliesAssumption DEF ScannerReturns
<1>6. CASE ScannerClientError
  <2>1. OnlyErrors(1) \in Tally
    BY DEF OnlyErrors, Tally
  <2>2. QED BY <2>1, <1>6, <1>4 DEF ScannerClientError
<1>7. CASE ScannerRaises
  BY <1>7 DEF ScannerRaises
<1>8. CASE BuildResult
  <2>1. InferredErrors \in [Scanners -> Nat]
    BY DEF InferredErrors, Tally, Severity
  <2>2. QED BY <2>1, <1>8 DEF BuildResult
<1>9. CASE DeliverReport
  <2>1. published' \in BOOLEAN
    BY <1>9 DEF DeliverReport
  <2>2. file' \in {"absent", "stale", "partial", "fresh"}
    BY <1>9 DEF DeliverReport
  <2>3. pc' \in PCs /\ code' \in {0, 1, 2, NotExited}
    BY <1>9 DEF DeliverReport
  <2>4. QED BY <1>9, <2>1, <2>2, <2>3 DEF DeliverReport
<1>10. CASE DecideExitCode
  BY <1>10 DEF DecideExitCode, Verdict
<1>11. CASE UNCHANGED vars
  BY <1>11 DEF vars
<1>12. QED BY <1>1, <1>2, <1>3, <1>5, <1>6, <1>7, <1>8, <1>9, <1>10, <1>11 DEF Next

\* Type correctness (every variable of ScanRunner keeps its type).
THEOREM TypeCorrect == Spec => []TypeOK
BY InitTypeOK, TypeStep, PTL DEF Spec

-----------------------------------------------------------------------------
\* One more scanner has run: it is a new one, and nothing else changes in scope.
LEMMA ExecutedStep ==
  ASSUME TypeOK, AtScanner, args' = args, next' = next + 1
  PROVE  /\ Specs' = Specs
         /\ Specs[next] \in Scanners
         /\ Specs[next] \notin Executed
         /\ Executed' = Executed \union {Specs[next]}
<1>1. Specs' = Specs
  BY DEF Specs
<1>2. next \in 1..Len(Specs) /\ next \in Nat
  BY SpecsType DEF TypeOK, AtScanner
<1>3. 1..(next' - 1) = 1..(next - 1) \union {next}
  BY <1>2
<1>4. Specs[next] \in Scanners /\ Specs[next] \notin Executed
  BY <1>2, SpecsType DEF TypeOK, Executed
<1>5. Executed' = Executed \union {Specs[next]}
  BY <1>1, <1>2, <1>3 DEF Executed
<1>6. QED BY <1>1, <1>4, <1>5

\* The scope of the scan and what ran of it do not change outside the loop.
LEMMA ScopeStable ==
  ASSUME args' = args, next' = next
  PROVE  Specs' = Specs /\ Selected' = Selected /\ Executed' = Executed
<1>1. Specs' = Specs
  BY DEF Specs
<1>2. QED BY <1>1 DEF Selected, Executed

\* Past the last scanner, every selected scanner has run.
LEMMA AllExecuted ==
  ASSUME TypeOK, next = Len(Specs) + 1
  PROVE  Executed = Selected
<1>1. next - 1 = Len(Specs)
  BY SpecsType DEF TypeOK
<1>2. QED BY <1>1, SpecsType DEF TypeOK, Executed

\* Nothing the exit code is computed from changes after the scanners have run.
LEMMA VerdictStable ==
  ASSUME args' = args, next' = next, findings' = findings, errors' = errors
  PROVE  Verdict' = Verdict
<1>1. Executed' = Executed
  BY ScopeStable
<1>2. Coverage' = Coverage
  BY <1>1 DEF Coverage, CoverageStatus, Affected
<1>3. QED BY <1>1, <1>2 DEF Verdict, PolicyPassed, Triggered

LEMMA VerdictRange == Verdict \in {0, 1, 2}
BY DEF Verdict

-----------------------------------------------------------------------------
\* The inductive invariant: the loop's progress, the accounting of errors, and
\* what an exit code says about the way the process ended.
THEOREM RunInvariant == Spec => []RunInv
<1>1. Init => RunInv
  <2> SUFFICES ASSUME Init, TypeOK PROVE Progress /\ Accounting /\ Ending
    <3>1. Init => TypeOK
      BY InitTypeOK
    <3>2. QED BY <3>1 DEF RunInv
  <2>1. Len(Specs) \in Nat \ {0}
    BY SpecsType DEF TypeOK
  <2>2. Progress
    BY <2>1 DEF Init, Progress
  <2>3. Accounting
    BY DEF Init, Accounting, NoFindings, Severity
  <2>4. Ending
    BY DEF Init, Ending, NotExited
  <2>5. QED BY <2>2, <2>3, <2>4
<1>2. RunInv /\ [Next]_vars => RunInv'
  <2> SUFFICES ASSUME RunInv, [Next]_vars, TypeOK' PROVE (Progress /\ Accounting /\ Ending)'
    BY TypeStep DEF RunInv
  <2> USE DEF NotExited, Exit, Crash
  <2>t. TypeOK /\ next \in Nat \ {0} /\ Len(Specs) \in Nat \ {0}
    BY SpecsType DEF RunInv, TypeOK
  <2>s. ASSUME args' = args, next' = next, findings' = findings, errors' = errors
        PROVE  Accounting' /\ Verdict' = Verdict /\ Specs' = Specs
    BY <2>s, ScopeStable, VerdictStable DEF RunInv, Accounting
  <2>1. CASE ValidateOutput
    BY <2>1, <2>s, <2>t DEF ValidateOutput, RunInv, Progress, Ending
  <2>2. CASE OpenTarget
    BY <2>2, <2>s, <2>t DEF OpenTarget, RunInv, Progress, Ending
  <2>3. CASE ResolveContext
    BY <2>3, <2>s, <2>t DEF ResolveContext, RunInv, Progress, Ending
  <2>4. ASSUME AtScanner, NEW t \in Tally, Contribute(Specs[next], t),
               UNCHANGED <<pc, args, identity, file, published, code>>
        PROVE  (Progress /\ Accounting /\ Ending)'
    <3>1. /\ Specs' = Specs /\ Specs[next] \in Scanners
          /\ Executed' = Executed \union {Specs[next]}
      BY <2>4, <2>t, ExecutedStep DEF Contribute
    <3>2. next <= Len(Specs) /\ next' = next + 1 /\ pc = "scan" /\ pc' = "scan"
          /\ ~published /\ ~published'
      BY <2>4 DEF AtScanner, Contribute, RunInv, Ending
    <3>3. Progress'
      BY <3>1, <3>2, <2>t DEF Progress
    <3>4. Accounting'
      BY <2>4, <2>t, <3>1 DEF Contribute, RunInv, Accounting, TypeOK
    <3>5. Ending'
      BY <2>4, <3>2 DEF RunInv, Ending
    <3>6. QED BY <3>3, <3>4, <3>5
  <2>5. CASE ScannerReturns
    BY <2>5, <2>4, TalliesAssumption DEF ScannerReturns
  <2>6. CASE ScannerClientError
    <3>1. OnlyErrors(1) \in Tally
      BY DEF OnlyErrors, Tally
    <3>2. QED BY <3>1, <2>6, <2>4 DEF ScannerClientError
  <2>7. CASE ScannerRaises
    BY <2>7, <2>s, <2>t DEF ScannerRaises, AtScanner, RunInv, Progress, Ending
  <2>8. CASE BuildResult
    <3>1. Specs' = Specs /\ Executed' = Executed
      BY <2>8, ScopeStable DEF BuildResult
    <3>2. errors' = errors
      <4>1. \A s \in Scanners : InferredErrors[s] = errors[s]
        BY DEF InferredErrors, RunInv, Accounting, NoFindings, Severity
      <4>2. InferredErrors = errors
        BY <4>1 DEF InferredErrors, RunInv, TypeOK
      <4>3. QED BY <4>2, <2>8 DEF BuildResult
    <3>3. next = Len(Specs) + 1
      BY <2>8, <2>t DEF BuildResult, RunInv, Progress
    <3>4. QED BY <2>8, <2>s, <2>t, <3>1, <3>2, <3>3 DEF BuildResult, RunInv, Progress, Ending
  <2>9. CASE DeliverReport
    <3>1. Progress' /\ Accounting'
      BY <2>9, <2>s, <2>t DEF DeliverReport, RunInv, Progress
    <3>2. Ending'
      <4>1. pc = "deliver" /\ code = 256 /\ ~published
        BY <2>9 DEF DeliverReport, RunInv, Ending
      <4>2. CASE pc' = "decide" /\ published' = TRUE /\ UNCHANGED code
                 /\ file' = (IF args.output THEN "fresh" ELSE file) /\ args' = args
        BY <4>1, <4>2 DEF Ending
      <4>3. CASE pc' = "exit" /\ code' = 1 /\ UNCHANGED published
        BY <4>1, <4>3 DEF Ending
      <4>4. QED BY <2>9, <4>2, <4>3 DEF DeliverReport
    <3>3. QED BY <3>1, <3>2
  <2>10. CASE DecideExitCode
    <3>1. Progress' /\ Accounting'
      BY <2>10, <2>s, <2>t DEF DecideExitCode, RunInv, Progress
    <3>2. Ending'
      BY <2>10, <2>s, VerdictRange DEF DecideExitCode, RunInv, Ending
    <3>3. QED BY <3>1, <3>2
  <2>11. CASE UNCHANGED vars
    BY <2>11, <2>s, <2>t DEF vars, RunInv, Progress, Ending
  <2>12. QED BY <2>1, <2>2, <2>3, <2>5, <2>6, <2>7, <2>8, <2>9, <2>10, <2>11 DEF Next
<1>3. QED BY <1>1, <1>2, PTL DEF Spec

-----------------------------------------------------------------------------
\* Exit code 0 is earned: report published, every selected scanner run, enough
\* of them free of ERROR, no finding at or above the threshold (_finish_scan).
THEOREM CleanExit == Spec => []CleanExitIsEarned
<1>1. RunInv => CleanExitIsEarned
  <2> SUFFICES ASSUME RunInv, code = 0 PROVE CleanExitIsEarned
    BY DEF CleanExitIsEarned
  <2>1. pc = "exit" /\ published /\ Verdict = 0
    BY DEF RunInv, Ending, NotExited
  <2>2. Executed = Selected /\ Selected # {} /\ Selected \subseteq Scanners
    BY <2>1, AllExecuted, SpecsType DEF RunInv, Progress, TypeOK
  <2>3. \A s \in Selected : errors[s] = findings[s]["ERROR"] /\ errors[s] \in Nat
    BY <2>2 DEF RunInv, Accounting, TypeOK
  <2>4. /\ Coverage # "LIMITED"
        /\ args.requireFull => Coverage = "FULL"
        /\ PolicyPassed(Executed, findings, args.failOn)
    BY <2>1 DEF Verdict, ResultStatus, GatePassed
  <2>5. \E s \in Selected : findings[s]["ERROR"] = 0
    BY <2>2, <2>3, <2>4 DEF Coverage, CoverageStatus, Affected
  <2>6. args.requireFull => \A s \in Selected : findings[s]["ERROR"] = 0
    BY <2>2, <2>3, <2>4 DEF Coverage, CoverageStatus, Affected
  <2>7. \A s \in Selected : \A sev \in Ranked :
          args.failOn # "none" /\ SecurityRank[sev] >= SecurityRank[args.failOn]
            => findings[s][sev] = 0
    BY <2>2, <2>4 DEF PolicyPassed, Triggered, RunInv, TypeOK, Tally, Severity, Ranked
  <2>8. published /\ (args.output => file = "fresh")
    BY <2>1 DEF RunInv, Ending
  <2>9. QED BY <2>2, <2>5, <2>6, <2>7, <2>8 DEF CleanExitIsEarned
<1>2. QED BY <1>1, RunInvariant, PTL

\* The affected scanners of the result are those that reported an ERROR
\* (ScanRunner.run, ScanResult.__post_init__).
THEOREM CoverageHonest == Spec => []AffectedAreTheFailed
<1>1. RunInv => AffectedAreTheFailed
  <2> SUFFICES ASSUME RunInv, pc \in {"deliver", "decide"}
               PROVE  Affected(Executed, errors) = {s \in Selected : findings[s]["ERROR"] > 0}
    BY DEF AffectedAreTheFailed
  <2>1. Executed = Selected /\ Selected \subseteq Scanners
    BY AllExecuted, SpecsType DEF RunInv, Progress, TypeOK
  <2>2. QED BY <2>1 DEF Affected, RunInv, Accounting
<1>2. QED BY <1>1, RunInvariant, PTL

\* An old or partial report file is only left behind by a process that gave up
\* (_finish_scan writes before it decides).
THEOREM StaleReport == Spec => []StaleReportMeansGivenUp
<1>1. RunInv => StaleReportMeansGivenUp
  BY DEF RunInv, Ending, StaleReportMeansGivenUp, NotExited
<1>2. QED BY <1>1, RunInvariant, PTL

-----------------------------------------------------------------------------
\* A scanner past its turn is never pending in the contract's eyes.
LEMMA Seen ==
  ASSUME RunInv, next = Len(Specs) + 1
  PROVE  /\ Executed = Selected
         /\ Contract!Judgement = Verdict
<1>1. Executed = Selected /\ Selected # {} /\ Selected \subseteq Scanners
  BY AllExecuted, SpecsType DEF RunInv, TypeOK
<1>2. \A s \in Selected : /\ Contract!Clean(s) <=> errors[s] = 0
                          /\ errors[s] \in Nat
  BY <1>1 DEF Contract!Clean, RunInv, Accounting, TypeOK
<1>3. Coverage = "LIMITED" <=> \A s \in Selected : ~Contract!Clean(s)
  BY <1>1, <1>2 DEF Coverage, CoverageStatus, Affected
<1>4. Coverage = "FULL" <=> \A s \in Selected : Contract!Clean(s)
  BY <1>1, <1>2 DEF Coverage, CoverageStatus, Affected
<1>5. ResultStatus(Coverage) = "FAILED" <=> Coverage = "LIMITED"
  BY DEF ResultStatus
<1>6. CASE ResultStatus(Coverage) = "FAILED"
  BY <1>1, <1>3, <1>5, <1>6 DEF Contract!Judgement, Verdict
<1>7. CASE ResultStatus(Coverage) # "FAILED" /\ ~GatePassed(Coverage, args.requireFull)
  BY <1>1, <1>4, <1>7 DEF Contract!Judgement, Verdict, GatePassed
<1>8. CASE ResultStatus(Coverage) # "FAILED" /\ GatePassed(Coverage, args.requireFull)
  BY <1>1, <1>3, <1>4, <1>5, <1>8 DEF Contract!Judgement, Verdict, GatePassed
<1>9. QED BY <1>1, <1>6, <1>7, <1>8

\* One scanner's contribution is one inspection of the contract.
LEMMA ContributeInspects ==
  ASSUME RunInv, AtScanner, NEW t \in Tally, Contribute(Specs[next], t),
         UNCHANGED <<pc, args, identity, file, published, code>>
  PROVE  \E s \in Scanners : Contract!Inspect(s)
<1>0. PICK s \in Scanners : s = Specs[next]
  BY ExecutedStep DEF RunInv, Contribute
<1> DEFINE seen == [r \in Scanners |->
                      IF r \notin Executed THEN "pending"
                      ELSE IF findings[r]["ERROR"] = 0 THEN "clean" ELSE "affected"]
           alarm == ~PolicyPassed(Executed, findings, args.failOn)
<1>1. /\ s \in Scanners /\ s \notin Executed /\ Specs' = Specs
      /\ Executed' = Executed \union {s}
  BY <1>0, ExecutedStep DEF RunInv, Contribute
<1>2. next \in 1..Len(Specs) /\ code = 256 /\ ~published
  BY SpecsType DEF RunInv, TypeOK, AtScanner, Ending, NotExited
<1>3. Selected' = Selected /\ s \in Selected
  BY <1>0, <1>1, <1>2, SpecsType DEF Selected, RunInv, TypeOK
<1>4. findings' = [findings EXCEPT ![s] = t] /\ findings \in [Scanners -> Tally]
  BY <1>0 DEF Contribute, RunInv, TypeOK
<1>5. \A r \in Scanners \ {s} : findings'[r] = findings[r]
  BY <1>4
<1>6. seen' = [seen EXCEPT ![s] = IF t["ERROR"] = 0 THEN "clean" ELSE "affected"]
  BY <1>1, <1>4, <1>5
<1>7. alarm => alarm'
  <2>1. Executed \subseteq Scanners \ {s}
    BY <1>1, SpecsType DEF Executed, RunInv, TypeOK, Progress, Selected
  <2>2. QED BY <2>1, <1>1, <1>5 DEF PolicyPassed, Triggered
<1>8. alarm' \in {alarm, TRUE}
  BY <1>7
<1>9. seen[s] = "pending"
  BY <1>1
<1>10. QED BY <1>1, <1>2, <1>3, <1>6, <1>8, <1>9 DEF Contract!Inspect, Contract!Open

\* ScanRunner implements ScanContract: its steps are inspections, one
\* publication, one judgement or an abort, whatever the registry and the
\* scanners (safety; the liveness half is model-checked).
THEOREM RunnerImplementsContract == Spec => Contract!Safe
<1>1. Init => Contract!Init
  <2> SUFFICES ASSUME Init PROVE Contract!Init
    OBVIOUS
  <2>1. Executed = {}
    BY DEF Init, Executed
  <2>2. Selected \subseteq Scanners /\ args.requireFull \in BOOLEAN
    BY SpecsType DEF Init, Arguments
  <2>3. PolicyPassed(Executed, findings, args.failOn)
    BY <2>1 DEF PolicyPassed, Triggered
  <2>4. QED BY <2>1, <2>2, <2>3 DEF Init, Contract!Init, Contract!Open, NotExited
<1>2. RunInv /\ RunInv' /\ [Next]_vars => [Contract!Next]_(Contract!vars)
  <2> SUFFICES ASSUME RunInv, RunInv', [Next]_vars PROVE [Contract!Next]_(Contract!vars)
    OBVIOUS
  <2> USE DEF NotExited, Exit, Crash
  <2>s. ASSUME args' = args, next' = next, findings' = findings
        PROVE  UNCHANGED <<Selected, args.requireFull,
                 [s \in Scanners |->
                   IF s \notin Executed THEN "pending"
                   ELSE IF findings[s]["ERROR"] = 0 THEN "clean" ELSE "affected"],
                 ~PolicyPassed(Executed, findings, args.failOn)>>
    BY <2>s, ScopeStable DEF PolicyPassed, Triggered
  <2>a. ASSUME args' = args, next' = next, findings' = findings, published' = published,
               code' = code
        PROVE  UNCHANGED Contract!vars
    BY <2>a, <2>s DEF Contract!vars
  <2>b. ASSUME args' = args, next' = next, findings' = findings, published' = published,
               pc # "exit", ~published, code' \in {1, 2}
        PROVE  Contract!Abort
    BY <2>b, <2>s DEF Contract!Abort, Contract!Open, RunInv, Ending
  <2>1. CASE ValidateOutput
    BY <2>1, <2>a, <2>b DEF ValidateOutput, Contract!Next, RunInv, Ending
  <2>2. CASE OpenTarget
    BY <2>2, <2>a, <2>b DEF OpenTarget, Contract!Next, RunInv, Ending
  <2>3. CASE ResolveContext
    BY <2>3, <2>a DEF ResolveContext
  <2>4. CASE ScannerReturns
    <3>1. PICK t \in Tally : Contribute(Specs[next], t)
      BY <2>4, TalliesAssumption DEF ScannerReturns
    <3>2. QED BY <2>4, <3>1, ContributeInspects DEF ScannerReturns, Contract!Next
  <2>5. CASE ScannerClientError
    <3>1. OnlyErrors(1) \in Tally
      BY DEF OnlyErrors, Tally
    <3>2. QED BY <2>5, <3>1, ContributeInspects DEF ScannerClientError, Contract!Next
  <2>6. CASE ScannerRaises
    BY <2>6, <2>b DEF ScannerRaises, AtScanner, Contract!Next, RunInv, Ending
  <2>7. CASE BuildResult
    BY <2>7, <2>a DEF BuildResult
  <2>8. CASE DeliverReport
    <3>1. pc = "deliver" /\ ~published /\ code = 256 /\ next = Len(Specs) + 1
      BY <2>8 DEF DeliverReport, RunInv, Ending, Progress
    <3>2. args' = args /\ next' = next /\ findings' = findings
      BY <2>8 DEF DeliverReport
    <3>3. CASE published' = TRUE /\ code' = code
      <4>1. Executed = Selected /\ Selected \subseteq Scanners
        BY <3>1, Seen, SpecsType DEF RunInv, TypeOK
      <4>2. Contract!Publish
        BY <3>1, <3>2, <3>3, <4>1, <2>s DEF Contract!Publish, Contract!Open
      <4>3. QED BY <4>2 DEF Contract!Next
    <3>4. CASE published' = published /\ code' = 1
      BY <3>1, <3>2, <3>4, <2>b DEF Contract!Next
    <3>5. QED BY <2>8, <3>3, <3>4 DEF DeliverReport
  <2>9. CASE DecideExitCode
    <3>1. pc = "decide" /\ published /\ code = 256 /\ next = Len(Specs) + 1
      BY <2>9 DEF DecideExitCode, RunInv, Ending, Progress
    <3>2. code' = Contract!Judgement
      BY <2>9, <3>1, Seen DEF DecideExitCode
    <3>3. Contract!Judge
      BY <2>9, <3>1, <3>2, <2>s DEF DecideExitCode, Contract!Judge, Contract!Open
    <3>4. QED BY <3>3 DEF Contract!Next
  <2>10. CASE UNCHANGED vars
    BY <2>10, <2>a DEF vars
  <2>11. QED BY <2>1, <2>2, <2>3, <2>4, <2>5, <2>6, <2>7, <2>8, <2>9, <2>10 DEF Next
<1>3. QED BY <1>1, <1>2, RunInvariant, PTL DEF Spec, Contract!Safe
=============================================================================
