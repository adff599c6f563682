---------------------------- MODULE WorkloadScan ----------------------------
(***************************************************************************)
(* The Docker daemon, Dockerfile, Kubernetes manifest, live cluster and    *)
(* admission scanners: the calls they make, in AwsScan's terms, and the    *)
(* findings the replies amount to.  "probe" is docker version or kubectl   *)
(* version --client.                                                       *)
(***************************************************************************)
EXTENDS AwsScan, WorkloadChecks

Probe == Get("probe", <<"tool", "cli">>)
CurrentContext == Get("current-context", Context)

\* kubectl get <kind>, in whatever cluster kubectl talks to.
Kube(kind) == Get("kubectl", <<kind, "live">>)

Inspect(ids) == Call("inspect", <<"container", "all">>, ids, <<"container", "all">>)

AdmissionReads == <<"namespaces", "pods", "validatingwebhooks", "mutatingwebhooks">>

WorkloadFirst ==
  CASE service = "daemon" -> <<Probe, List("container", "1")>>
    [] service = "dockerfile" -> <<List("dockerfile", "1")>>
    [] service = "manifest" -> <<List("manifest", "1")>>
    [] service = "cluster" ->
         <<Probe>> \o (IF named THEN <<>> ELSE <<CurrentContext>>)
         \o <<Kube("pods"), Kube("services")>>
    [] service = "admission" ->
         <<Probe>> \o [i \in DOMAIN AdmissionReads |-> Kube(AdmissionReads[i])]

WorkloadFollow(c, replies) ==
  LET found == {r.name : r \in replies[c].show}
  IN  IF c.op # "list" \/ found = {} THEN <<>>
      ELSE IF c.key[1] = "container" THEN <<Inspect(found)>>
      ELSE Each({<<c.key[1], name>> : name \in found}, LAMBDA key : Get("read", key))

\* The scan returns when one of these fails.
Essential(c) == c \in {Probe, CurrentContext} \/ (service = "cluster" /\ c = Kube("pods"))

Unavailable(replies) ==
  \E c \in DOMAIN replies \intersect {Probe, CurrentContext} : ~Got(replies, c)

Live == <<"live", service>>

Connection == {Finding("connection", "INFO", Live)}

-----------------------------------------------------------------------------
(* Docker                                                                  *)

ContainerFindings(r) ==
  {[Finding(check, ContainerVerdict(check, r.is), <<"container", r.name>>)
      EXCEPT !.writable = check = "sensitive_host_mount" /\ Writable(SensitiveMounts(r.is)) # {}] :
     check \in ContainerChecks}

DaemonFindings(replies) ==
  LET ids == {r.name : r \in Listed(replies, "container")}
      inspect == Inspect(ids)
  IN  IF Unavailable(replies) THEN Connection
      ELSE IF ListFailed(replies, "container") THEN {Finding("container_inventory", "ERROR", Live)}
      ELSE IF ids = {} THEN {Finding("running_containers", "INFO", Live)}
      ELSE IF ~Got(replies, inspect) THEN {Finding("container_inspect", "ERROR", Live)}
      ELSE UNION {ContainerFindings(r) : r \in replies[inspect].show}

-----------------------------------------------------------------------------
(* Files                                                                   *)

\* _check_resource of a pod spec.
PodFindings(pod, resource) ==
  {Finding(check, PodVerdict(check, pod), resource) : check \in PodChecks}

\* A manifest of other kinds of objects gets no finding at all.
ManifestFindings(text, key) ==
  IF ~text.parses THEN {Finding("parse", "ERROR", key)}
  ELSE UNION {PodFindings(d.is, <<"workload", d.name>>) : d \in text.workloads}

FileFindings(text, key) ==
  IF key[1] = "manifest" THEN ManifestFindings(text, key)
  ELSE {Finding(v[1], v[2], key) : v \in DockerfileVerdicts(text.lines)}

FilesFindings(replies) ==
  LET keys == {<<service, r.name>> : r \in Listed(replies, service)}
      Of(key) == LET c == Get("read", key)
                 IN  IF Got(replies, c) THEN FileFindings(replies[c].show, key)
                     ELSE {Finding("read", "ERROR", key)}
  IN  IF keys = {} THEN {Finding("discovery", "ERROR", Live)}
      ELSE UNION {Of(key) : key \in keys}

-----------------------------------------------------------------------------
(* Kubernetes                                                              *)

\* The items of a kubectl answer.
Items(replies, kind) == replies[Kube(kind)].show.is.items

ClusterFindings(replies) ==
  LET pods == Items(replies, "pods")
  IN  IF Unavailable(replies) THEN Connection
      ELSE IF ~Got(replies, Kube("pods")) THEN {Finding("pod_inventory", "ERROR", Live)}
      ELSE (IF pods = {} THEN {Finding("pod_inventory", "INFO", Live)} ELSE {})
           \union (UNION {PodFindings(p.is, <<"pod", p.name>>) : p \in pods})
           \union
           {IF Got(replies, Kube("services"))
            THEN Finding("external_service", ServiceVerdict(Items(replies, "services")), Live)
            ELSE Finding("service_inventory", "ERROR", Live)}

\* _check_pod_security_admission: the namespaces of the live pods.
AdmissionOf(namespaces, pods) ==
  LET Verdict(name) ==
        LET known == {n \in namespaces : n.name = name}
            found == PodSecurityVerdict((CHOOSE n \in known : TRUE).enforce)
        IN  IF known = {} THEN Finding("namespace_resolution", "ERROR", <<"namespace", name>>)
            ELSE Finding(found[1], found[2], <<"namespace", name>>)
      found == {Verdict(name) : name \in {p.ns : p \in pods} \ SystemNamespaces}
  IN  IF found = {} THEN {Finding("psa", "PASS", <<"namespace", "any">>)} ELSE found

WebhookFindings(kind, webhooks) ==
  LET found == {Finding(WebhookVerdict(w)[1], WebhookVerdict(w)[2], <<kind, w.name>>) :
                  w \in FailOpen(webhooks)}
  IN  IF found = {} THEN {Finding("fail_open_webhook", "PASS", <<kind, "any">>)} ELSE found

AdmissionFindings(replies) ==
  LET failed == {kind \in ToSet(AdmissionReads) : ~Got(replies, Kube(kind))}
      found ==
        {Finding(kind, "ERROR", Live) : kind \in failed}
        \union
        (IF failed \intersect {"namespaces", "pods"} # {} THEN {}
         ELSE AdmissionOf(Items(replies, "namespaces"), Items(replies, "pods")))
        \union
        UNION {WebhookFindings(kind, Items(replies, kind)) :
                 kind \in {"validatingwebhooks", "mutatingwebhooks"} \ failed}
  IN  IF Unavailable(replies) THEN Connection
      ELSE IF found = {} THEN {Finding("inventory", "PASS", Live)} ELSE found

WorkloadFindings(replies) ==
  CASE service = "daemon" -> DaemonFindings(replies)
    [] service \in {"dockerfile", "manifest"} -> FilesFindings(replies)
    [] service = "cluster" -> ClusterFindings(replies)
    [] service = "admission" -> AdmissionFindings(replies)
=============================================================================
