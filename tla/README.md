# Verification of Project Blacklight

TLA+ specifications of Blacklight Security (`src/blacklight_security`), their model-checking
configurations for TLC, and proofs for TLAPS. Blacklight is a read-only posture scanner: it
looks at AWS, Docker, Kubernetes and Linux servers through tools it does not control, turns what
it saw into findings, and turns the findings into a risk score, a coverage statement and an exit
code. What can go wrong is therefore rarely a crash. It is a claim nobody earned: a PASS for
something that was not inspected, an exit code that says more than the scan did, a correlation
between two things that were never there together. The properties here are about such claims.

Paths below are relative to `src/`; `P/` stands for `blacklight_security/`.

## 1. Inventory

| Component | State it keeps | Operations | Talks to |
|---|---|---|---|
| Scan runner, CLI (`P/runner.py`, `P/cli.py`, `P/registry.py`, `P/scan_context.py`) | findings, error counts per scanner, the report file, the exit code | validate arguments, open a target, run each scanner in name order, build the result, deliver the report, decide the exit code | every scanner; gates; risk engine |
| Coverage and policy (`P/coverage.py`, `P/policy.py`) | none | judge a list of findings | runner |
| Risk engine (`P/risk.py`) | none | weigh findings, correlate them by resource, by ServiceAccount and over the account | runner, reports |
| SBOM scanner, OSV client (`P/scanners/docker/sbom.py`) | package list, matches, page tokens, futures of a thread pool | parse documents, query in chunks and pages, fetch records concurrently, report | OSV.dev |
| Docker image scanner (`.../docker/image.py`) | the inspected image id | `docker image inspect`, Syft, then the OSV matcher | Docker, Syft |
| Kubernetes rbac and posture scanners (`.../kubernetes/rbac.py`, `posture.py`) | indexes of roles and ServiceAccounts, lists of bindings, Pods, policies | four and three `kubectl get` calls, then the analysis | the cluster |
| Server scanners (`.../server/*.py`, nine of them) | results of the commands of one scan | a probe, one to five commands, the checks | OpenSSH, the host |
| Kubernetes cluster, admission, manifest scanners (`.../kubernetes/cluster.py`, `admission.py`, `manifests.py`) | inventories of Pods, Services, namespaces and webhooks; documents of YAML files | two and four `kubectl get` calls, without `--context` in whatever context is current; read each file | the cluster, the file system |
| Docker daemon, Dockerfile scanners (`.../docker/daemon.py`, `dockerfile.py`) | the containers' ids; the last build stage | `docker version`, `docker ps`, one `docker inspect` of all; parse | Docker |
| AWS scanners (`.../aws/*.py`, seven services) | lists of resources and, per resource, what its calls returned | paginated list calls, then one or more gets per resource; for IAM a managed policy's default version and then its document | boto3 |
| Legacy dashboard (`legacy/cloudguard_flask`) | SQLite rows, report files, one mail per alarming scan | web request and scheduled job: list, inspect, write the report, look up, insert the row, save the details, alert; pages | boto3, SMTP |
| Profiles, analyst, reports, demo script | none | validate, call, format, compare | CLI |

Everything is sequential Python except the OSV client's thread pool and the legacy dashboard's
scheduler. Concurrency comes from outside: a scan takes seconds to minutes, consists of separate
commands and requests, and the cluster, host, image store or vulnerability service it reads keeps
changing and failing in between.

What is hard, per component, and what being correct means:

- **Runner.** Three verdicts compete for one exit code; a scanner may raise; writing the report may
  fail half way. Exit 0 must mean a complete report about a complete enough scan without a finding at
  the threshold, and coverage must name exactly the scanners that reported an error.
- **Risk engine.** Findings arrive in scanner order, and the tuple of correlations follows it, but
  neither the score nor what is correlated may depend on that order; one more
  finding must not lower a score although correlations change tier; rules must not join findings of
  different resources.
- **OSV client.** A follow-up page answers only the packages that had a token; pages may not end;
  records arrive in any order, as errors, or not at all. No id may be lost, and "no known
  vulnerability" may only be said of what was read to the end.
- **Kubernetes.** Seven reads of a cluster others change, by two scanners, joined a second time by the
  risk engine. What stays as it is must be reported whatever else moves.
- **Servers.** Each command is a session of its own. A lost session, a command that failed, an exit
  status that means something else, a host that changes between two commands: none may look like safety.
- **AWS, Docker daemon, live cluster, files.** What was listed may be changed or gone when it is asked for,
  and "not found" means different things for different calls. A risk that stays must be reported, nothing
  may be put together that never was, and a call that failed must show.
- **Legacy dashboard.** Two writers, separate commits, no lock, a worker that may be killed between any
  two of them, and a report that travels from one function to the next as "the newest file". Nobody may
  read half a scan as a whole one, and a mail must be about what was open, and be missing for a known reason only.

The full list of hazards, each at its line, is in `PROJECT.json`.

## 2. Modules

| Module | Models | State and actions, and the code they stand for |
|---|---|---|
| `ScanGates` | coverage, full-coverage gate, severity gate, result status | operators over a *tally*, the number of findings of each severity; these judgements read nothing else of a finding |
| `ScanContract` | the promise of one invocation | inspect every selected scanner in any order, publish, judge; or abort |
| `ScanRunner` | one process from parsed arguments to exit code | `ValidateOutput`, `OpenTarget`, `ResolveContext`, a turn of the scanner loop (`ScannerReturns`, `ScannerClientError`, `ScannerRaises`), `BuildResult` (`__post_init__`), `DeliverReport`, `DecideExitCode` (`_finish_scan`) |
| `ScanRunnerProofs` | | theorems about `ScanRunner` |
| `RiskEngine` | `assess_risk` | every weight, rule and tier as an operator; the machine only feeds and reorders findings, so that assessments can be compared |
| `RiskEngineProofs` | | theorems about `RiskEngine` |
| `FoldProofs` | | facts about folds, sums and lists of sets that the other proofs cite |
| `OsvMatch` | `DockerSBOMScanner`, `OSVClient` | the main thread (`ParseSbom`, `QueryChunk`, `QueryPage`, `SubmitFutures`, `Collect`, `Report` ...) and the pool (`ThreadTakes`, `ThreadFinishes`) |
| `DockerImage` | `DockerImageScanner` in front of `OsvMatch` | `InspectImage`, `RunSyft`, then the matcher's own actions; `Retag` is somebody else |
| `DockerImageProofs` | | theorems about `OsvMatch` and `DockerImage` |
| `KubeApi` | the cluster | environment: roles, bindings, Pods, accounts and policies that others change |
| `KubeRbac`, `KubePosture` | the two scanners | one action per `kubectl get`, then the analysis |
| `KubeScan` | their composition with the risk engine | posture, then rbac, on one changing cluster |
| `ServerHost` | the host and the fixed commands | which facets a command shows and what it exits with; administrators change facets |
| `ServerChecks` | the checks of all nine scanners | one operator per check, from what was shown to a severity |
| `ServerScan` | one server scan | `Probe`, `Run(c)` for each command in the order of `scan()`, `Judge` |
| `ServerScanProofs` | | theorems about `ServerScan` |
| `KubeScanProofs` | | theorems about `KubeScan` |
| `ScanStore` | the promise of the dashboard's database | `Archive` (a scan appears at once and whole), `Mail` (at most once, about an alarming scan) |
| `LegacyChecks` | the checks and scores of `scanner.py`, what `save_report_to_database` stores | operators from an account to a report, from a report to rows |
| `Dashboard` | the dashboard's two processes | `List`, `Inspect`, `Open`, `Close` (`list_s3_buckets`), `Fetch` (`get_last_report`), `Lookup`, `Insert`, `Save` (`save_report_to_database`), `Alert`, `View`, `ViewAccount`; `Reconfigure` is the owners of the account, `Crash` a kill or a redeployment |
| `DashboardProofs` | | theorems about `Dashboard` |
| `Inventory` | what the list-then-get scanners look at, and their calls | resources `<<kind, name>>`; what a call shows, when what it asks for is missing, how it fails; `Change` is others |
| `CloudChecks`, `WorkloadChecks` | the judgement of each AWS, Docker and Kubernetes workload check | one operator per check, from what was shown to a severity |
| `AwsScan`, `WorkloadScan` | which calls a scanner makes, which follow from an answer, which findings it draws | `AwsFirst`, `AwsFollow`, `AwsFindings` and their counterparts |
| `InventoryScan` | one scan by any of these scanners | an agenda of calls: `Answered`, `Missing`, `Denied`, `TimedOut`, `Raise`, then `Judge`; `Others` |
| `InventoryScanProofs` | | theorems about `InventoryScan` |

`InventoryScan` treats twelve scanners alike because the code does: each asks one call after the other, and
an answer may put more calls in front of those that remain. What differs is data: the first calls, the
calls that follow from an answer, which failure ends the scan, and the findings.

`MC*` modules give the constants their values. The detailed line numbers of every definition are
in the `map` of `PROJECT.json`.

Conventions:

- A finding is a record of the fields a property or the risk engine reads. Text, remediation and
  the rest of the evidence are left out. Check ids lose their `provider.service.` prefix.
- A tool's answer is abstracted to what it says. Parsing appears where it decides something, such as
  an item without a `vulns` list (`garbled` in `OsvMatch`) or null rules of an aggregated ClusterRole.
- *History variables* only remember and are read by no action: `garbled`, `inventoried`,
  `steadyBindings`, `steadyPods`, `steady`, `past` (also read by the bound on changes), `disturbed`, `unsaved`,
  `unalerted`. The three `steady` ones and `past` tell what nobody has touched since the scan
  began. Properties of a scan over a moving target are about these: nothing can be promised about an
  object that comes or goes between two reads.
- An operator whose comment begins with "Mutant:" is an erroneous variant of the definition that
  follows it. It is used nowhere in the specification; put in that definition's place, it makes the
  property that `PROJECT.json` lists with it fail, which shows that the property bites.

## 3. Runs

`tlc -workers 2 -config <cfg> <module>`; times are for two workers.

| Run | Configuration | Distinct states | Shows |
|---|---|---|---|
| `scan` | `ScanRunner.cfg`, `MCScanRunner` | 128 940 (36 s) | see 3.1 |
| `risk` | `RiskEngine.cfg`, `MCRiskEngine` | 88 741 (98 s) | see 3.2 |
| `osv` | `DockerImage.cfg`, `MCDockerImage` | 299 304 (27 s) | see 3.3 |
| `kube` | `KubeScan.cfg`, `MCKubeScan` | 473 963 (25 s) | see 3.4 |
| `server` | `ServerScan.cfg`, `MCServerScan` | 123 720 (34 s) | see 3.5 |
| `dashboard` | `Dashboard.cfg`, `MCDashboard` | 1 099 442 (98 s) | see 3.6 |
| `inventory` | `InventoryScan.cfg`, `MCInventoryScan` | 551 999 (51 s) | see 3.7 |
| `scan_doc`, `image_doc`, `kube_doc`, `server_pass_doc`, `server_error_doc` | `*Doc.cfg` | | each violates one documented statement, see 4 |

Deadlock is not checked: a scan is a program that ends, and so are the states after its end. The dashboard
runs for ever, but its scans are bounded, and a model that has used them up stops.

### 3.1 The scan process

*Bounds*: four providers with two or three scanners; four tallies (a PASS, an ERROR, a MEDIUM, a HIGH
beside two ERRORs) so that every judgement has both outcomes; every command line. No counter is capped.
Two scanners already give one affected of several (PARTIAL), all (LIMITED) and none (FULL); the third
gives a scanner behind and one before the failing one.

- `CleanExitIsEarned`: what exit code 0 says, across argument, loop, report and gates.
- `AffectedAreTheFailed`: the counts the loop keeps name the scanners that really reported an error. As the loop
  always passes them, the inference of `ScanResult.__post_init__` has no say in a scan.
- `StaleReportMeansGivenUp`: an old or half-written report is only left behind by a process that gave
  up, never with exit 0, and with exit 2 only before its scanners were through.
- `ImplementsContract`: the process implements `ScanContract`, with the scanners in any order, the
  report before the verdict, and coverage before severity. Checked with fairness.
- `EventuallyExits`: liveness.

*Fairness*: `WF_vars(Next)`. Every call the process makes ends: the subprocesses have a `timeout`, boto3
has connect, read and retry limits, and file operations return. That the process itself is not stopped
from outside is assumed.

### 3.2 The risk engine

*Bounds*: lists of up to `MaxFindings` = 4 findings from a catalog of 17. Four is enough for both halves
of one rule, a third finding that changes its tier or adds a rule, and one more to compare with. The
catalog has a pair for each kind of rule (same-resource, two rules on one resource, whole account,
ServiceAccount with each tier) and PASS and ERROR findings of the same checks. `RuleList` holds all ten
same-resource rules as a table of data, in the order of the code. The catalog completes three of them, of two
services, and the others go through the same operators.

`CorrelationList` is the tuple of the code. `by_resource` is a dict, so its first part lists the resources in
the order of their first actionable findings, each with its rules in the order of the code; the accounts follow
sorted by name, and then the three rules over the account. The sorting is modelled by `SetToSeq`, an order of
the accounts that does not depend on the findings. The sets (`Correlations` and its three parts) say what is
found, whatever its order, and are what the other scans' properties use.

- `ReorderingOnlyReorders` says where the order of the findings shows: two findings that change places may
  change places of two resources' correlations in the tuple, and move no score, lose or repeat nothing, leave what is
  said of accounts where it is, and change nothing at all unless both are the first of their resource.
- `OneMoreFindingNeverLowersTheScore`, `NoEvidenceNoChange` are action properties too;
  `ResourceCorrelationsAreLocal` and `OneTierPerServiceAccount` are invariants.

### 3.3 The OSV matcher and the image scanner

*Bounds*: three packages in chunks of `ChunkSize` = 2 (the code has 500), so there is a second chunk with an
offset; `PageLimit` = 2 (10), answers with one, two and three pages, pages that start empty and one
answer without an end, so the limit is met exactly and exceeded; `PoolSize` = 2 (8) for three ids, so
the pool is full while one waits. All are constants of the module and appear in its guards.

- `PassIsEarned`, `MatchesAreComplete`: the two directions of "what is reported is what OSV knows".
  Packages about which OSV sent an item without a list are excluded, because the code takes such an
  item for "no vulnerability" (`sbom.py:157`); that is listed as a hazard without a property.
- `NoFutureIsLost`: each id is waiting, with a thread, answered, or filed once.
- `Terminates`: with `WF(Scan)`, `WF(MatchMain)` and `WF(MatchThreads)`. Requests have a timeout, and a
  thread that took a future ends it. There is no fairness for `Retag`.

### 3.4 Kubernetes posture, RBAC and correlation

*Bounds*: `MaxChanges` = 2 changes by others, `MaxFailures` = 1 failed read, five initial clusters. Two
changes are what the worst order needs: one between the reads of two objects that belong together, and one
that changes it back or changes the other half. More changes touch more objects and leave less that is
steady. The clusters hold two namespaces with an account of the same name, a subject without a namespace,
one of another namespace, a `cluster-admin` binding alone and beside a broad group, a role with null
rules and a binding without a role.

- `StableGrantIsReported`, `PassMeansSteadilySafe`: what a scan of a moving cluster may claim.
- `StableExposureIsCorrelated`: seven reads of two scanners and the risk engine fit together.
- `CorrelatedByIdentity`: a correlation never joins accounts by name or namespace alone.

### 3.5 Server scans

*Bounds*: a quiet and a risky host, `MaxChanges` = 2 changes of any facet the running scanner looks at to any
of its values, `MaxTrouble` = 2 commands lost or failed, `Patience` = 1 silent TLS port per command (with
the default connect timeout the code outlasts two or three; only the comparison matters). Two troubles
let both halves of every two-command judgement fail, and more than one of four firewall backends.

- `SteadyRiskIsReported`: a scan without an ERROR has reported, at the documented severity, every risk that
  was there throughout. `Risks` states the documented risks of each scanner in terms of the host, not of
  the checks.
- `TroubleShows`: every lost or failed command is visible as an ERROR, with two exceptions that the code
  makes: the baseline scanner ignores exit statuses, and a firewall backend no longer matters once another
  one is active.
- `FirewallVerdictIsEarned`: four sessions, one verdict, on a host whose administrator may switch backends.
- `EmptyPasswordPathIsCorrelated`: the risk engine's rule fires on what two sessions of the auth scanner found.

### 3.6 The legacy dashboard

*Bounds*: `MaxScans` = 2 scans started by the request, the job or both; `MaxTime` = 2 seconds, so that both
may run in one second and share a file name, or in two; `MaxCrashes` = 1 kill, with or without the files;
`MaxChanges` = 1 change between any two of four accounts: two buckets of which one has no public access block
and the other a public policy, SSH open to the world, a public database, and no bucket at all. The denied checks
leave each of the two buckets in turn as the only one seen to be open, or hide the database; a refused
versioning or logging call, which nothing catches, ends the scan. So each of the four reasons for an alert
decides alone in some scan, and some scans have none. That the database refuses, a look-up or the mail fails or
a bucket is gone is not bounded. Two scans are enough for what goes wrong here: two writers
of one file, two savers of one report, a saver and a reader, a kill and a later attempt.
A report file is its content, and whose writes are mixed in it; `newest` is the file changed last.

- `NoProcessSavesTwice`: the look-up before the insert. Two rows of one second can only be the request's and
  the job's, whose look-ups may both come before either insert.
- `EmptyScanHasAReason`: a row without details has a writer on its way, or one that was stopped right there.
- `UndisturbedRequestSavesItsOwn`: the request goes through "the newest file" and still saves its own scan,
  unless the job touched the files meanwhile.
- `PageIsOfOneScan`: a page takes two queries and mixes neither two scans nor half of one, and its risk
  level never plays down a public or unreadable bucket.
- `ImplementsStore`: the rows that have details are an archive in the sense of `ScanStore`.
- `AlertsFollowExposure`: across the checks, the scores, the database and the query for what is critical, mails are
  about accounts that really were open to the world when they were scanned, and about each saved scan of such
  an account there is a mail, unless its writer is at the mail, or the query or the mail failed, or the worker
  was killed, right there.

*Fairness*: none. A scan need not end: `smtplib.SMTP_SSL` is called without a timeout (`app.py:226`), so the job can
stay in `Alert` for ever with its scan saved and nobody told, and nothing restarts the scheduler's thread. That a mail
is eventually sent is therefore not claimed; `AlertsFollowExposure` says where a scan without one may be.

What the module leaves as it is in the code and claims nothing about: the text of the RDS finding, that the
list of keys stops at the first key that was never used, that an account without buckets is never checked
at all, and that a security group is judged by its exact port.

### 3.7 Scans that list and then get

*Bounds*: one resource or two per service, with the states in which checks and combination rules differ;
`MaxChanges` = 1 resource that others change, as often as they like and to or from "gone"; `MaxTrouble` = 1
call that fails for a reason of its own. Calls that find nothing because the resource is gone are not
counted. One changing resource is what tears a pair of reads apart (its list entry from its gets, a policy
from its version, one cluster from the other); one failed call can be any call of the scan. Lists of
databases, functions and users have two pages, so a failure can hit the second.

- `SteadyRiskIsReported`: whatever is wrong with a resource nobody touches is reported, if every call about
  it was answered. `Wrong` says what is wrong in terms of resources, not of replies.
- `NothingIsMadeUp`: every finding was true of its resource at some time of the scan. With `--context` no
  other cluster gets in; without it this, like the others, is only claimed while the context stays
  (`OneCluster`), because a switch really mixes two clusters in one report.
- `TroubleShows`: every failed call is an ERROR in the right place. A function without a URL and a tool or
  daemon that is not there are answers, not failures. A call without any reply raises (`BotoCoreError` is
  no `ClientError`), and then there are no findings at all; the runner is responsible from there.
- `PassIsEarned`: no PASS about something wrong, also when calls fail.
- `SteadyPairsAreCorrelated`: two findings that calls far apart produced name their resource alike, so that
  the risk engine combines them.

These say what they say because the proofs (5.7) found the limits of earlier versions. "Was true at some time"
cannot mean one instant where the code reads twice: a user's keys and the use of a key, or a policy's default and
the document of that version. `Wrong` therefore lets the two reads be of two states the resource has been in, so a
key that is deactivated between them is still a true report. Two manifests may hold workloads of the same kind,
namespace and name, which then share a resource id (`manifests.py:522`); a PASS about the one says nothing about
the other, and `Namesakes` leaves such pairs out.

An IAM resource of the model has its kind and its name. The report only has the name (`iam.py:113`), so a user, a
group and a role of one name share a group in the risk engine; no rule joins checks of two kinds of identity.

Not claimed: what an IAM identity that moves a permission from an inline to an attached policy between the
two reads is reported for; whether the PASS of a key check, which names the user, is about each key; the
PASS of the admission scanner for an empty inventory, which the code cannot reach.

## 4. Where code and documentation disagree

Each has a run that ends with a counterexample.

| Run | Property | Statement | What happens |
|---|---|---|---|
| `scan_doc` | `ExitOneMeansThreshold` | `docs/coverage-confidence.md:55`: exit 1 is the severity gate's | an exception nobody catches also exits with 1 |
| `image_doc` | `EvidenceNamesTheScannedImage` | `docs/docker-scanning.md:209`: the evidence has the immutable image id | the tag may move between inspect and Syft, which is given the reference again |
| `kube_doc` | `ClusterAdminIsTopTier` | `docs/risk-engine.md:126`: +30 for a `cluster-admin` binding | beside a broad group the account gets the wildcard tier |
| `server_error_doc` | `ErrorMeansUnseen` | `docs/scanner-authoring.md:115`: ERROR means that the check could not be completed | three commands exit with the status of their last test: `services` is an ERROR on every systemd host without an active xinetd, `sudoers` on every host with a sudoers file, `privileged_groups` without an lxd group |
| `server_pass_doc` | `SteadyRiskNeverPasses` | `SECURITY.md:27`: failures are not interpreted as secure state | after a lost inventory the groups are judged without accounts; a Docker socket that stat cannot see, or whose command failed, is a PASS |

## 5. Proofs

Eight modules, each checked by `tlapm <module>.tla`: `ScanRunnerProofs`, `DashboardProofs`, `ServerScanProofs`,
`KubeScanProofs`, `RiskEngineProofs`, `DockerImageProofs`, `InventoryScanProofs` and, for what they share,
`FoldProofs`. They assume nothing but the `ASSUME`s of the modules they are about, all of which TLC evaluates in
the runs:

- `RegistryAssumption`, `TalliesAssumption`: each provider registers a non-empty list of distinct names, none of
  them "all" (`registry.py`, argparse), and tallies are functions from severities to naturals.
- `DashboardAssumption`: bounds are naturals, the clock has a second, accounts have buckets. `AccessAssumption`: a public
  access block has all of its switches on, some, or is not there.
- `HostAssumption`, `FacetsAssumption`, `PasswdAssumption`, `FirewallAssumption`, `ReadingsAssumption`: what the facets of a
  host can be, and that what a command shows are facets of the host.
- `CatalogAssumption`, `SubjectsAssumption`, `GrantsAssumption`: findings have their fields and finitely many subjects, the
  binding that an rbac finding is about is nobody's subject, and rbac's findings about grants are risks or INFO.
- `PoolAssumption`, `IdAssumption`, `AnswerAssumption`: batches and the pool have room for one, ids are sorted without
  duplicates, and OSV's pages hold such ids. `FileAssumption`, `InventoryAssumption`: what a parser makes of a document.
  `KeyAssumption`: no package is called "SBOM", as both parsers only keep coordinates that begin with `pkg:`.
- `ClusterAssumption`, `PodsAssumption`, `BindingsAssumption`, `ChangesAssumption`, `FailuresAssumption`: initial clusters have their type, there are
  two kinds of roles and of bindings, and a binding refers to a role key, whether or not the role exists.
- `WorldAssumption`: what a scanner lists is finite and of its own kinds; documents, versions, keys and Kubernetes
  objects have unique names; an attached policy may be gone, but is one of the resources; an account has one root
  user; kubectl answers for every kind of object in every cluster a kubeconfig may name. `WorldOK` is also where
  a world has room for a trail or a detector, although there need not be one.

The number of providers, scanners, scans, restarts, facets, bindings, changes, failures, findings, packages, pages, ids,
threads, cloud resources, policies, containers, files and workloads is arbitrary.

| Theorem | Says |
|---|---|
| `ScanRunnerProofs!TypeCorrect`, `RunInvariant` | `TypeOK`, and the inductive invariant `RunInv` |
| `CleanExit`, `CoverageHonest`, `StaleReport` | `CleanExitIsEarned`, `AffectedAreTheFailed`, `StaleReportMeansGivenUp` |
| `RunnerImplementsContract` | initial states and steps of the process are initial states and steps, or stutters, of `ScanContract` |
| `DashboardProofs!DashboardTypes`, `DashboardInvariant` | `TypeOK`, and the inductive invariant `DashInv` |
| `SavedOncePerProcess`, `EmptyScansExplained`, `OwnReportSaved`, `PagesAreWhole` | `NoProcessSavesTwice`, `EmptyScanHasAReason`, `UndisturbedRequestSavesItsOwn`, `PageIsOfOneScan` |
| `ExposureIsNotPassedOver` | `AlertsFollowExposure` |
| `DatabaseIsAStore` | `Spec => ImplementsStore`: the dashboard implements `ScanStore` |
| `ServerScanProofs!ServerTypes`, `ServerInvariant` | `TypeOK`, and the inductive invariant `ServerInv` |
| `TroubleIsShown`, `FirewallVerdictEarned`, `SteadyRisksReported` | `TroubleShows`, `FirewallVerdictIsEarned`, `SteadyRiskIsReported` |
| `KubeScanProofs!KubeTypes`, `KubeInvariant` | `TypeOK`, and the inductive invariant `KubeInv` |
| `StableGrants`, `PassIsSafe` | `StableGrantIsReported`, `PassMeansSteadilySafe` |
| `RiskInvariant` | the inductive invariant `RiskInv` of the scan together with its correlations |
| `CorrelationsFollowIdentity`, `StableExposures` | `CorrelatedByIdentity`, `StableExposureIsCorrelated` |
| `ServerScanProofs!PasswordPathIsCorrelated` | `EmptyPasswordPathIsCorrelated` |
| `RiskEngineProofs!ScoreStaysInRange` | `TypeOK`: a score within 0..100, and findings of their type |
| `EvidenceNeverHelps`, `OrderOnlyReorders`, `NoEvidenceChangesNothing` | `OneMoreFindingNeverLowersTheScore`, `ReorderingOnlyReorders`, `NoEvidenceNoChange` |
| `ResourceRulesAreLocal`, `OneTierEach` | `ResourceCorrelationsAreLocal`, `OneTierPerServiceAccount` |
| `DockerImageProofs!MatchTypes`, `ImageInvariant` | `OsvMatch!TypeOK`, and the inductive invariant `ImageInv` |
| `FuturesAreKept`, `CleanClaimIsEarned`, `MatchesComplete` | `NoFutureIsLost`, `PassIsEarned`, `MatchesAreComplete` |
| `InventoryScanProofs!Types`, `ScanInvariant` | `InventoryScan!TypeOK`, and the inductive invariant `ScanInv` |
| `EveryTroubleShows`, `OnlyTrueFindings` | `TroubleShows`, `NothingIsMadeUp` |
| `PassesAreEarned`, `SteadyRiskIsAlwaysReported`, `PairsAreCorrelated` | `PassIsEarned`, `SteadyRiskIsReported`, `SteadyPairsAreCorrelated` |

### 5.1 The scan process

None of the three properties is inductive: each speaks of the end of a run and needs to know how it was
reached. `RunInv` adds that memory:

- `Progress`: the loop has not begun before `scan` and is over from `deliver` on. Without it "every selected
  scanner ran" has no support at exit.
- `Accounting`: the error count of a scanner is the number of its ERROR findings, zero before it ran. This is
  why `BuildResult`, which infers counts when there are none, changes nothing, and why coverage is right.
- `Ending`: an exit after publication has the code `Verdict` computes from the unchanged findings; one
  without is 1 or 2, and 2 only before the end of the loop.

The refinement proof maps the loop's turn to `Inspect`, `DeliverReport` to `Publish` or `Abort`,
`DecideExitCode` to `Judge`, and the rest to stuttering.

### 5.2 The dashboard

`DashInv` says where each thing is while two processes pass it on:

- `FilesOK`, `LocalsOK`: file contents are scans or torn, and a process in a given place holds what that place needs.
  Without them a report that comes out of a file need not be a scan at all.
- `Budget`: rows, plus processes that may still insert one, are at most the scans begun. It bounds ids, which
  the refinement needs (`ScanIds`).
- `Writers`: a process between its two commits holds its own row, still empty; one about to mail holds a whole
  and alarming one, and the two never hold the same row. Hence a details commit never touches another scan.
- `Histories`, `MailsOK`: who was stopped, and who was mailed about, are rows; a row about to be mailed has not been yet.
- `Inserters`: a process about to insert has no row of that second. The look-up established it, and only the
  process itself could destroy it: this is the whole reason for `NoProcessSavesTwice`.
- `AlertsOK`: a whole row that alarms has been mailed about, is at its mail, or was given up there, and mails are about alarming rows only.
  `AppendIsNew` and `AlertIsLeft` keep it, and `StoringKeepsCriticals` and `CriticalMeansExposed` turn "alarming", which is about stored
  rows, into "exposed", which is about the account.
- `Undisturbed`: while the job keeps away, the newest file is the request's own, through open, close and fetch.
- `PageOK`: between the two queries of a page its first half stays what the row says, as whole rows never change.

`DatabaseIsAStore` maps `Save` to `Archive` and `Alert` to `Mail`; `Insert` stutters, because a row without details is not
in the archive. That a saved scan is never empty (`DetailsAreSome`) rests on the CloudTrail check, which always
reports something.

### 5.3 Server scans

`ServerInv` has six parts. `Progress` ties the replies to the script: exactly the commands before the current one have
been asked. `Truth`: a reply shows a state the host was in and, for a facet nobody touched, the one it is in.
`PackagesAskOn` and `Complete`: a scan that leaves its script early has a reason, which is the only way to know that a
check that found nothing had all it needed. `Judged` says which findings a finished scan has, and `HostTypes` types the
rest. From them each theorem is a case analysis over the nine scanners: `SteadyRisksReported` needs, per scanner, that an
ERROR-free scan had each answer its documented risks are read from, and that those answers were true.

### 5.4 The Kubernetes scan

`KubeInv` follows the four reads of rbac. `NotAhead`: no role is indexed before its kind is read. `RolesKnown`: for a
steady binding whose kind of role has been read, the index agrees with the cluster, in that the role is on it
exactly when it has a list of rules, and then with these rules. It survives changes by others because touching a
role makes its bindings unsteady. `BindingsListed`: steady bindings of a kind that was read are on the list. `OnlyErrors`:
before the end there is no PASS to defend. At `Analyze`, without a failed read, these give both properties.

`RiskInv` extends this to what the risk engine is given: what a finished posture scan says of tokens is what its lists
and index of accounts say (`TokensKnown`, `UsersSeen`), what rbac says of grants comes from bindings on its list
(`GrantsSeen`), and every grant of a listed binding is said (`GrantsReported`). A steady Pod and a steady binding are on
these lists, so that both halves of the correlation are among the findings, whatever order they were appended in.

### 5.5 The risk engine

The rules lose nothing when the set of the findings grows: a correlation of the smaller set is
one of the larger, or, for a ServiceAccount, has become one of a higher tier. The score is a sum of weights over the
list and of points over the tuple of correlations. `TupleLists` shows that the tuple has each correlation of the set
exactly once: a resource is opened by one finding only (`OpenedOnce`), a rule is known by its name, and no account's
id is a binding's (`SubjectsAssumption`). So the points of the tuple are those of the set (`PointsOfTuple`). `FoldProofs` shows of such sums, by induction over the finite sets on which
they run, that a larger index set or a larger summand does not make them smaller and that a permutation changes
nothing. `EvidenceNeverHelps` therefore maps each old correlation to a new one, not lower and never the same for two;
`NoEvidenceChangesNothing` adds a zero, and an empty block to the tuple. For `OrderOnlyReorders` the tuple is
flattened from one block per finding (`Blocks`): a swap permutes the summands of the score, keeps the length of the part
about resources and all that follows, and, unless both findings open a resource, two neighbouring blocks
together list the same before and after (`NeighboursKeepTheTuple`, by `FlattenedNeighbours` of `FoldProofs`).

The library's induction theorems take an operator and cannot be used here. `FoldProofs` states induction over a
set instead: a set of numbers, or of subsets of a finite set, that has each element whose predecessors it has,
is everything. `CountingUp` gets this from the library's fact about minimal elements of well-founded relations,
which quantifies over sets.

### 5.6 The OSV matcher and the image scanner

`MatchInv` follows a package from its document to its finding.

- `Documents`, `Lists`: packages are listed once, and once there are queries each has one set of ids.
- `Pending`: no package has two queries, and one with a query has been sent before.
- `Progress`, with `ReadSoFar`: a package without a garbled item has no ids before it is sent, the ids of the pages before
  the one it waits for while it waits, and all of its ids when it waits no more, in which case its answer has an end.
  This is what makes follow-up pages, which answer only some of the packages, and chunks with an offset come together.
- `Futures`: the places of an id, and that nobody is in the pool before or after the fetching.
- `Said`: a finished scan has asked nothing, failed in its query, or reported a `Verdict` about what it read.

`PassIsEarned` and `MatchesAreComplete` compare this verdict with what OSV knows. `ImageInv` adds that the image scanner
has found and said nothing before it hands over an inventory, so that everything above holds of it as well.

### 5.7 Scans that list and then get

Twelve scanners, one invariant, `ScanInv`. The properties are about the end of a scan; what holds at the end is a
matter of what was asked, what the answers were worth, and what was made of them.

- `WorldInv`: the world stays one of its kind, and `past` holds every state a resource has been in.
- `Tree`: a call about a resource is one of the first calls or is named by the answer of its `Parent`, which is in.
  `Offspring` says this with sets; the code's agenda is made of lists, and `FollowListed` shows that the list of the
  calls that follow an answer has each of its offspring once.
- `Once`: nothing is asked twice or put on the agenda again. It needs `Tree`: a call that an answer adds could
  only be there already if its parent had been answered before.
- `Order`: the tool is probed first, the context is asked next, and a scan whose tool or context is not there asks
  nothing else. `Unavailable` is judged on this alone.
- `Complete`: unless an essential call failed, all first calls and all calls that follow from an answer are asked or
  waiting. With an empty agenda this becomes: every listed resource was looked at (`ResourcesAsked`,
  `IdentityAsked`).
- `Truth`: what an answer shows was so at some time of the scan, and a list has everything that was there all the time
  (`TrueAnswer`). This is kept when others change the world, because `past` only grows.
- `Said`: the findings are those of `Judge`.

`OnlyTrueFindings` and `PassesAreEarned` are one pass over all findings of all scanners (`HonestFindings`): each finding is
about a resource, whose replies were true of states it has been in, and its check is right about such a state. For
a steady resource there is one such state only. `SteadyRiskIsAlwaysReported` goes the other way, from a flaw of a
steady resource to its list entry, from there to the calls about it and to the finding (`WrongIsTold`).
`EveryTroubleShows` goes from a failed call to its finding, service by service. `PairsAreCorrelated` needs in addition
that the findings are finitely many, because the risk engine is given them as a list, and that a rule of the
engine fires when each check it needs is among them.

### 5.8 Only model-checked

- Liveness and fairness: `EventuallyExits`, `Terminates` and the fairness half of `ImplementsContract` are beyond the
  prover.
- The statements of section 4, which do not hold.

## 6. Not modelled

- Text: report formats, wording, evidence beyond what is named, argparse itself. Whether and when a report is
  written is modelled.
- The internals of one command or request: it happens at one point in time. In particular a shell loop
  over several units or groups is one step.
- Self-signed notes of the TLS scanner (INFO), selectors and ports of NetworkPolicies, malformed list items
  of `kubectl`, CVSS vectors.
- Malformed answers: a Kubernetes list without a list of items counts as an empty one (`rbac.py:370`), malformed
  records of `docker inspect` and items of other inventories. OSV's are modelled (`garbled`).
- More than one page of an IAM user's access keys, of policies or of versions; the order of elements in a list
  is fixed, as nothing the checks do depends on it.
- In the dashboard: PDF, CSV, the text report, severity counts and trends. The checks of one scan read the
  account at one instant.
- Server target profiles (validation of one TOML table, whose two outcomes are in `ScanRunner.OpenTarget`), the
  external analyst (one subprocess call without state), report rendering and the demo script: they hold no
  state that a scan depends on.

## 7. Plan

Done, in this order: the scan process, its gates and contract; the risk engine; the OSV matcher with its pool and
the image scanner on top; the Kubernetes reads and their correlation; server scans; the dashboard and its store;
the list-then-get scanners. Proofs of the scan process, the dashboard, the server and the Kubernetes scan with
their correlations, the risk engine, the OSV matcher and the image scanner, and the list-then-get scanners.

Every invariant of the passing runs is now a theorem. What is left:

1. Kubernetes answers without a list, as `garbled` answers in `KubeApi`, and malformed records of `docker inspect`.
