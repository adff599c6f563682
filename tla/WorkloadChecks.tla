--------------------------- MODULE WorkloadChecks ---------------------------
(***************************************************************************)
(* The verdicts of the Docker daemon, Dockerfile and Kubernetes workload   *)
(* scanners on a running container, a Dockerfile, a pod spec, a namespace  *)
(* and an admission webhook:                                               *)
(*   container  [privileged, shares, mounts, capabilities, devices,        *)
(*              anyDevice, unconfined, user, published]                    *)
(*     mounts   set of [bind, source, writable]                            *)
(*   dockerfile sequence of [name, value], value one of a few kinds        *)
(*   pod        [hostNamespaces, hostPath, root, unconfined, containers]   *)
(*     containers  set of [privileged, root, escalates, all, unconfined,   *)
(*                 hostPort, latest, secret]                               *)
(***************************************************************************)
EXTENDS Integers, FiniteSets, Sequences

OrPass(bad, severity) == IF bad THEN severity ELSE "PASS"

\* HIGH for one kind of match, MEDIUM for a lesser one.
Graded(worse, bad, high, medium) ==
  IF worse THEN high ELSE OrPass(bad, medium)

-----------------------------------------------------------------------------
(* Running containers (scanners/docker/daemon.py)                          *)

ContainerChecks ==
  {"privileged", "host_namespace", "docker_socket_mount", "sensitive_host_mount",
   "capabilities_all", "dangerous_capability", "device_access", "unconfined_security",
   "root_user", "nonloopback_publish"}

HighRiskCapabilities ==
  {"SYS_ADMIN", "SYS_MODULE", "SYS_RAWIO", "SYS_BOOT", "DAC_READ_SEARCH", "DAC_OVERRIDE"}
MediumRiskCapabilities ==
  {"SYS_PTRACE", "NET_ADMIN", "NET_RAW", "MKNOD", "AUDIT_CONTROL", "MAC_ADMIN"}

\* Mutant: the socket counts only when it is bind-mounted, as the other paths do.
BoundSockets(c) == {m \in c.mounts : m.bind /\ m.source = "socket"}

Sockets(c) == {m \in c.mounts : m.source = "socket"}

\* The socket has its own check, whatever kind of mount it is; only bind mounts of the
\* other paths count.
SensitiveMounts(c) == {m \in c.mounts : m.bind /\ m.source = "sensitive"}

Writable(mounts) == {m \in mounts : m.writable}

Isolation(check, c) ==
  IF check = "privileged" THEN OrPass(c.privileged, "CRITICAL")
  ELSE OrPass(c.shares # {}, "HIGH")

CapabilityRisk(c) ==
  Graded(c.capabilities \intersect HighRiskCapabilities # {},
         c.capabilities \intersect MediumRiskCapabilities # {}, "HIGH", "MEDIUM")

DeviceRisk(c) == Graded("disk" \in c.devices \/ c.anyDevice, c.devices # {}, "HIGH", "MEDIUM")

ContainerVerdict(check, c) ==
  CASE check \in {"privileged", "host_namespace"} -> Isolation(check, c)
    [] check = "docker_socket_mount" ->
         Graded(Writable(Sockets(c)) # {}, Sockets(c) # {}, "CRITICAL", "HIGH")
    [] check = "sensitive_host_mount" ->
         Graded(Writable(SensitiveMounts(c)) # {}, SensitiveMounts(c) # {}, "HIGH", "MEDIUM")
    [] check = "dangerous_capability" -> CapabilityRisk(c)
    [] check = "device_access" -> DeviceRisk(c)
    [] check = "capabilities_all" -> OrPass("ALL" \in c.capabilities, "HIGH")
    [] check = "unconfined_security" -> OrPass(c.unconfined, "HIGH")
    [] check = "root_user" -> OrPass(c.user \in {"unset", "root"}, "HIGH")
    [] check = "nonloopback_publish" -> OrPass("all" \in c.published, "LOW")

-----------------------------------------------------------------------------
(* Dockerfiles (scanners/docker/dockerfile.py)                             *)

Has(file, name, values) == \E i \in DOMAIN file : file[i].name = name /\ file[i].value \in values

\* The instructions after the last FROM, or all of them.
FinalStage(file) ==
  {i \in DOMAIN file : \A j \in DOMAIN file : file[j].name = "FROM" => j < i}

RuntimeUser(file) ==
  LET users == {i \in FinalStage(file) : file[i].name = "USER"}
      last == file[CHOOSE i \in users : \A j \in users : j <= i].value
  IN  IF users = {} \/ (users # {} /\ last = "root") THEN "HIGH"
      ELSE IF last = "variable" THEN "INFO" ELSE "PASS"

\* A file without FROM has no base_image_latest verdict but an ERROR of its own.
BaseImage(file) ==
  IF ~\E i \in DOMAIN file : file[i].name = "FROM" THEN <<"base_image", "ERROR">>
  ELSE <<"base_image_latest", OrPass(Has(file, "FROM", {"latest"}), "MEDIUM")>>

EmbeddedSecret(file) ==
  OrPass(Has(file, "ARG", {"secret"}) \/ Has(file, "ENV", {"secret"}), "HIGH")

DockerfileVerdicts(file) ==
  {BaseImage(file),
   <<"root_user", RuntimeUser(file)>>,
   <<"embedded_secret", EmbeddedSecret(file)>>,
   <<"remote_add", OrPass(Has(file, "ADD", {"remote"}), "MEDIUM")>>,
   <<"remote_shell_pipe", OrPass(Has(file, "RUN", {"pipe"}), "HIGH")>>,
   <<"world_writable_permissions", OrPass(Has(file, "RUN", {"chmod"}), "MEDIUM")>>}

-----------------------------------------------------------------------------
(* Kubernetes workloads (scanners/kubernetes/manifests.py, cluster.py)     *)

PodChecks ==
  {"privileged_container", "root_user", "privilege_escalation", "host_namespace", "host_path",
   "capabilities_all", "seccomp_unconfined", "host_port", "image_latest", "literal_secret_env"}

SomeContainer(pod, facet) == \E c \in pod.containers : c[facet]

PodPrivileges(check, pod) ==
  CASE check = "privileged_container" -> OrPass(SomeContainer(pod, "privileged"), "CRITICAL")
    [] check = "root_user" -> OrPass(pod.root \/ SomeContainer(pod, "root"), "HIGH")
    [] check = "privilege_escalation" -> OrPass(SomeContainer(pod, "escalates"), "HIGH")
    [] check = "host_namespace" -> OrPass(pod.hostNamespaces # {}, "HIGH")

PodConfinement(check, pod) ==
  CASE check = "host_path" -> OrPass(pod.hostPath, "HIGH")
    [] check = "capabilities_all" -> OrPass(SomeContainer(pod, "all"), "HIGH")
    [] check = "seccomp_unconfined" ->
         OrPass(pod.unconfined \/ SomeContainer(pod, "unconfined"), "HIGH")

PodContents(check, pod) ==
  CASE check = "host_port" -> OrPass(SomeContainer(pod, "hostPort"), "MEDIUM")
    [] check = "image_latest" -> OrPass(SomeContainer(pod, "latest"), "MEDIUM")
    [] check = "literal_secret_env" -> OrPass(SomeContainer(pod, "secret"), "HIGH")

PodVerdict(check, pod) ==
  CASE check \in {"privileged_container", "root_user", "privilege_escalation", "host_namespace"} ->
         PodPrivileges(check, pod)
    [] check \in {"host_path", "capabilities_all", "seccomp_unconfined"} ->
         PodConfinement(check, pod)
    [] OTHER -> PodContents(check, pod)

\* Services are counted as exposed by their type, external addresses or ingress.
ServiceVerdict(services) ==
  OrPass(\E s \in services : s.type \in {"NodePort", "LoadBalancer"} \/ s.addressed, "LOW")

-----------------------------------------------------------------------------
(* Kubernetes admission (scanners/kubernetes/admission.py)                 *)

SystemNamespaces == {"kube-system", "kube-public", "kube-node-lease"}

\* The pod security level a namespace enforces ("" for none) as [check, severity].
PodSecurityVerdict(enforce) ==
  CASE enforce = "" -> <<"psa_enforce_missing", "LOW">>
    [] enforce = "privileged" -> <<"psa_enforce_privileged", "MEDIUM">>
    [] enforce = "baseline" -> <<"psa_enforce_baseline", "INFO">>
    [] enforce = "restricted" -> <<"psa_enforce_restricted", "PASS">>
    [] OTHER -> <<"psa_enforce_unknown", "INFO">>

FailOpen(webhooks) == {w \in webhooks : w.ignores}

WebhookVerdict(w) ==
  IF w.broad THEN <<"fail_open_broad_webhook", "MEDIUM">> ELSE <<"fail_open_webhook", "LOW">>
=============================================================================
