---------------------------- MODULE InventoryScan ----------------------------
(***************************************************************************)
(* One scan by a scanner that lists resources and then asks for more about *)
(* each: the calls it makes, one after the other, on a world that others   *)
(* keep changing, through an API that refuses, loses or no longer finds    *)
(* what it is asked for, and the findings at the end.                      *)
(***************************************************************************)
EXTENDS WorkloadScan

VARIABLES
  agenda,      \* the calls still to be made, in order
  replies,     \* the reply to every call made
  findings,    \* what scan() returns
  pc           \* "asking", "done", or "raised" when scan() raises

vars == <<worldVars, agenda, replies, findings, pc>>

First == IF service \in Aws THEN AwsFirst ELSE WorkloadFirst

Follow(c, known) == IF service \in Aws THEN AwsFollow(c, known) ELSE WorkloadFollow(c, known)

Findings == IF service \in Aws THEN AwsFindings(replies) ELSE WorkloadFindings(replies)

Init ==
  /\ WorldInit
  /\ agenda = First
  /\ replies = <<>>
  /\ findings = {}
  /\ pc = "asking"

-----------------------------------------------------------------------------
Asking == pc = "asking" /\ agenda # <<>>

Recorded(c, reply) == [d \in {c} \union DOMAIN replies |-> IF d = c THEN reply ELSE replies[d]]

\* The reply to the next call is in: what follows from it comes before the rest, and
\* the scan is over when an essential call failed.
Take(reply) ==
  LET c == Head(agenda)
  IN  /\ replies' = Recorded(c, reply)
      /\ agenda' = IF reply.how = "answered" THEN Follow(c, replies') \o Tail(agenda)
                   ELSE IF Essential(c) THEN <<>> ELSE Tail(agenda)
      /\ UNCHANGED <<worldVars, findings, pc>>

Answered == Asking /\ Exists(Head(agenda)) /\ Take(Answer(Head(agenda)))

Missing == Asking /\ ~Exists(Head(agenda)) /\ Take(Failure("missing"))

Troubled == {c \in DOMAIN replies : replies[c].how \in {"denied", "lost"}}

MayFail(how) ==
  Asking /\ how \in Troubles(Head(agenda)) /\ Cardinality(Troubled) < MaxTrouble

Denied == MayFail("denied") /\ Take(Failure("denied"))

\* docker and kubectl time out, which the scanners catch as they catch a refusal.
TimedOut == service \notin Aws /\ MayFail("lost") /\ Take(Failure("lost"))

\* BotoCoreError is not a ClientError: nothing catches it before _run_aws does.
Raise ==
  /\ service \in Aws
  /\ MayFail("lost")
  /\ replies' = Recorded(Head(agenda), Failure("lost"))
  /\ agenda' = <<>>
  /\ pc' = "raised"
  /\ UNCHANGED <<worldVars, findings>>

Judge ==
  /\ pc = "asking" /\ agenda = <<>>
  /\ findings' = Findings
  /\ pc' = "done"
  /\ UNCHANGED <<worldVars, agenda, replies>>

\* What others do matters only while calls are still to be made.
Others == Asking /\ Change /\ UNCHANGED <<agenda, replies, findings, pc>>

Next == Answered \/ Missing \/ Denied \/ TimedOut \/ Raise \/ Judge \/ Others

Spec == Init /\ [][Next]_vars

-----------------------------------------------------------------------------
(* What is wrong with a world, said of the resources and not of replies    *)

Risk == INSTANCE RiskEngine WITH Catalog <- {}, MaxFindings <- 0, findings <- <<>>

Actionable(severity) == severity \in DOMAIN Risk!SeverityWeights

\* The checks a set of [check, severity] asks to be reported.
Reportable(verdicts) == {v[1] : v \in {w \in verdicts : Actionable(w[2])}}

OnlyIf(holds, check) == IF holds THEN {check} ELSE {}

\* The checks that state v of resource k fails; the parts of a manifest, a cluster's
\* inventory and the documents an identity only points at are in Wrong.
Flaws(k, v) ==
  IF v = Gone THEN {} ELSE
  CASE k[1] = "bucket" -> {ch \in BucketChecks : Actionable(BucketVerdict(ch, v))}
    [] k[1] = "trail" -> OnlyIf(~v.logging, "logging") \union OnlyIf(~v.everywhere, "multi_region")
    [] k[1] = "detector" -> OnlyIf(~v.enabled, "detector_enabled")
    [] k[1] = "securityGroup" ->
         OnlyIf(\E r \in v.rules : r.world /\ r.all, "security_group_all_ingress")
         \union
         OnlyIf(\E r \in v.rules : /\ r.world /\ ~r.all
                                  /\ r.from..r.to \intersect DOMAIN SensitivePorts # {},
            "security_group_public_sensitive_port")
    [] k[1] = "database" ->
         OnlyIf(v.public, "public_access") \union OnlyIf(~v.encrypted, "storage_encryption")
    [] k[1] = "function" -> OnlyIf(v.url = "open", "function_url_auth")
    [] k[1] = "root" -> OnlyIf(~v.mfa, "root_mfa")
    [] k[1] = "role" -> OnlyIf(v.trust.parses /\ TrustsAnyone(v.trust), "role_trust_wildcard")
    [] k[1] = "user" ->
         OnlyIf(\E key \in v.keys : key.is.active /\ key.is.old, "access_key_age")
    [] k[1] = "container" ->
         {ch \in ContainerChecks \ {"docker_socket_mount"} : Actionable(ContainerVerdict(ch, v))}
         \union OnlyIf(\E m \in v.mounts : m.source = "socket", "docker_socket_mount")
         \union OnlyIf(\E m \in v.mounts : m.bind /\ m.source = "sensitive" /\ m.writable,
                   "writable_sensitive_host_mount")
    [] k[1] = "dockerfile" -> Reportable(DockerfileVerdicts(v.lines))
    [] OTHER -> {}

(* What is wrong somewhere, as [resource, check], when every resource k may be *)
(* in any of the states S[k].                                                  *)

Own(S) == UNION {{k} \X UNION {Flaws(k, v) : v \in S[k]} : k \in DOMAIN S}

Absent(S) ==
  LET None(kind) == \A k \in DOMAIN S : k[1] = kind => Gone \in S[k]
  IN  (IF service = "cloudtrail" /\ None("trail") THEN {<<Account, "trail_present">>} ELSE {})
      \union
      (IF service = "guardduty" /\ None("detector") THEN {<<Region, "detector_enabled">>} ELSE {})

\* The resources of a kind with the states they may be in.
States(S, kind) ==
  UNION {{k} \X (S[k] \ {Gone}) : k \in {j \in DOMAIN S : j[1] = kind}}

\* A user has an active key that was not used recently.  The list of the keys and the use
\* of a key are two reads, and may be of two states.
IdleKeys(S) ==
  {<<k, "access_key_last_used">> : k \in
     {j \in DOMAIN S : /\ j[1] = "user"
                      /\ \E v, w \in S[j] \ {Gone} : \E key \in v.keys, use \in w.keys :
                           key.is.active /\ key.name = use.name /\ use.is.used # "recently"}}

\* An identity has an inline document or an attached policy that allows everything.  Which
\* version is the policy's default and what that version says are two reads as well.
Unlimited(S, v) ==
  \/ \E d \in v.inline : Matched({d.is})
  \/ \E p, q \in States(S, "policy") :
       /\ p[1] = q[1] /\ p[1][2] \in v.attached
       /\ \E d \in q[2].versions : d.name = p[2].default /\ Matched({d.is})

Permissions(S) ==
  UNION {{<<s[1], WildcardCheck[kind]>> : s \in {i \in States(S, kind) : Unlimited(S, i[2])}} :
           kind \in DOMAIN WildcardCheck}

PodFlaws(pod) == {ch \in PodChecks : Actionable(PodVerdict(ch, pod))}

\* All the clusters S speaks of, with the items of one kind of object.
Inventories(S, kind) == {<<s[1][2], s[2].items>> : s \in States(S, kind)}

Specs(S) ==
  (UNION {{<<"workload", d.name>>} \X PodFlaws(d.is) :
           d \in UNION {s[2].workloads : s \in States(S, "manifest")}})
  \union
  (IF service # "cluster" THEN {}
   ELSE (UNION {{<<"pod", p.name>>} \X PodFlaws(p.is) :
                 p \in UNION {i[2] : i \in Inventories(S, "pods")}})
        \union
        {<<Live, "external_service">> :
           i \in {j \in Inventories(S, "services") : ServiceVerdict(j[2]) = "LOW"}})

\* The namespaces of a cluster's own pods.
Inhabited(S) ==
  UNION {{n \in i[2] : /\ n.name \notin SystemNamespaces
                       /\ \E j \in Inventories(S, "pods") :
                            j[1] = i[1] /\ \E p \in j[2] : p.ns = n.name} :
           i \in Inventories(S, "namespaces")}

Admitted(S) ==
  IF service # "admission" THEN {}
  ELSE (UNION {{<<"namespace", n.name>>} \X Reportable({PodSecurityVerdict(n.enforce)}) :
                n \in Inhabited(S)})
       \union
       UNION {UNION {{<<<<kind, w.name>>, WebhookVerdict(w)[1]>> : w \in FailOpen(i[2])} :
                       i \in Inventories(S, kind)} :
                kind \in {"validatingwebhooks", "mutatingwebhooks"}}

Wrong(S) ==
  Own(S) \union Absent(S) \union IdleKeys(S) \union Permissions(S) \union Specs(S)
  \union Admitted(S)

-----------------------------------------------------------------------------
(* Properties                                                              *)

\* The clusters that kubectl may have talked to.
Clusters == IF named THEN {"a"} ELSE {v.current : v \in past[Context]}

OneCluster == service \in Kubectl => \E name \in Clusters : Clusters = {name}

InScope(k) == service \in Kubectl => k[2] \in Clusters

\* Every call that the findings about resource k rest on was answered.
Undisturbed(k) ==
  \A c \in DOMAIN replies :
    \/ Got(replies, c)
    \/ c.by # k /\ (c.op \in {"list", "kubectl"} => c.key[1] # k[1])
       /\ ~Essential(c) /\ c.op # "inspect"

SteadyWorld(Known(_)) ==
  [k \in DOMAIN world |->
     IF InScope(k) /\ Steady(k) /\ Known(k) THEN {world[k]} ELSE {}]

PastWorld == [k \in DOMAIN world |-> IF InScope(k) THEN past[k] ELSE {}]

\* Finding f reports that [resource, check] is wrong.
Reports(f, w) ==
  /\ f.resource = w[1] /\ Actionable(f.severity)
  /\ f.check = w[2] \/ (w[2] = "writable_sensitive_host_mount"
                        /\ f.check = "sensitive_host_mount" /\ f.writable)

\* A call is made once, about a resource of this world, and the findings are ones the
\* risk engine accepts.
TypeOK ==
  /\ pc \in {"asking", "done", "raised"} /\ named \in BOOLEAN
  /\ \A k \in DOMAIN world : world[k] \in past[k]
  /\ \A c \in ToSet(agenda) : c \notin DOMAIN replies
  /\ IsInjective(agenda)
  /\ \A c \in DOMAIN replies : replies[c].how \in {"answered", "missing", "denied", "lost"}
  /\ \A f \in findings : Risk!FindingOK(f)

\* What is wrong during the whole scan is reported, whatever others change in the
\* meantime between the list and the calls about its elements, unless a call it takes
\* fails (TroubleShows is about those).
SteadyRiskIsReported ==
  pc = "done" /\ OneCluster =>
    \A w \in Wrong(SteadyWorld(Undisturbed)) : \E f \in findings : Reports(f, w)

\* A finding was true of its resource at some time during the scan: no two reads are
\* put together to something that never was, and with --context no other cluster than
\* the one named is reported on (cluster.py:27).
NothingIsMadeUp ==
  pc = "done" /\ OneCluster =>
    \A f \in findings :
      Actionable(f.severity) => <<f.resource, f.check>> \in Wrong(PastWorld)

\* Where a failure has to show: at the resource the call was made for, or at the account,
\* region or daemon that a list or a whole inventory is about.
Places(c) ==
  IF c.op \in {"list", "kubectl", "inspect"} THEN {Account, Region, Live} ELSE {c.by}

\* A scan that came to an end has an ERROR for every call that failed, which is what
\* gates and coverage see.  Two cases are meant otherwise: a function without a URL, and
\* tools or a daemon that are not there (INFO).  A scan that raised has no findings.
TroubleShows ==
  /\ pc = "raised" => findings = {}
  /\ pc = "done" =>
       \A c \in {d \in DOMAIN replies : ~Got(replies, d)} :
         \/ c.op = "get_function_url_config" /\ replies[c].how = "missing"
         \/ c \in {Probe, CurrentContext} /\ findings = Connection
         \/ \E f \in findings : f.severity = "ERROR" /\ f.resource \in Places(c)

Summaries == {"security_group_public_sensitive_ports", "psa", "fail_open_webhook"}

\* A PASS says that [resource, check] is not wrong.  Some speak for all the checks of
\* a resource, or for all resources of a kind.
Denies(f, w) ==
  \/ w = <<f.resource, f.check>>
  \/ /\ f.check \in Summaries
     /\ w[1] = f.resource \/ (f.resource[2] = "any" /\ w[1][1] = f.resource[1])

\* Two workloads of a manifest, or of two, share their resource id when kind, namespace
\* and name are the same: what is said of one says nothing of the other.
Namesakes(resource) ==
  \E s, t \in States(PastWorld, "manifest") : \E d \in s[2].workloads, e \in t[2].workloads :
    /\ resource = <<"workload", d.name>> /\ d.name = e.name /\ d.is # e.is
    /\ s[1] = t[1] => s[2] = t[2]

\* No PASS about what is wrong during the whole scan, even when calls fail: a list or a
\* document that could not be read is not an empty one.  The two key checks name the
\* user, who may have a good key next to a bad one.
PassIsEarned ==
  pc = "done" /\ OneCluster =>
    \A f \in {g \in findings : g.severity = "PASS"} :
      f.check \in {"access_key_age", "access_key_last_used"} \/ Namesakes(f.resource)
      \/ ~\E w \in Wrong(SteadyWorld(LAMBDA k : TRUE)) : Denies(f, w)

\* Two steady risks of one resource that a rule of the risk engine combines are combined,
\* although their reads are apart and the resource is named anew by each check.
SteadyPairsAreCorrelated ==
  pc = "done" /\ OneCluster =>
    LET wrong == Wrong(SteadyWorld(Undisturbed))
        fired == Risk!ResourceCorrelations(InOrder(findings))
    IN  \A r \in {q \in Risk!ResourceRules : q.service = service} :
          \A res \in {w[1] : w \in wrong} :
            {res} \X r.needs \subseteq wrong =>
            \E c \in fired : c.rule = r.rule /\ c.resources = {res}
=============================================================================
