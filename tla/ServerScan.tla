----------------------------- MODULE ServerScan -----------------------------
(***************************************************************************)
(* One server scanner against one host (scanners/server/*.py): a probe,    *)
(* then its commands, each an SSH session of its own (SSHCommandRunner)    *)
(* that may be lost, fail on the host, or come back; then its checks.      *)
(***************************************************************************)
EXTENDS ServerHost, ServerChecks, SequencesExt

CONSTANT MaxTrouble     \* bound: commands of one scan that are lost or fail

ASSUME TroubleAssumption == MaxTrouble \in Nat

\* The readings the checks have a severity for.
ASSUME ReadingsAssumption ==
  /\ \A c \in HostStates["sshConfig"] : c.mode \in {"world", "group", "strict", "unseen"}
  /\ HostStates["home"] \subseteq {"bad", "unseen", "good"}
  /\ \A d \in HostStates["sshdT"] :
       {d.strict, d.gateway, d.environment, d.hosts} \subseteq {"risky", "fine", "unset"}
  /\ \A t \in HostStates["tls"] : \A p \in DOMAIN t :
       t[p] \in NoCertificate \union {"expired", "soon", "fine", "undated"}

VARIABLES
  service,    \* the scanner that runs
  pc,         \* "probe", "inspect", "judge", "done"
  at,         \* index of its next command
  replies,    \* command |-> [how, rc, show]
  findings

scanVars == <<service, pc, at, replies, findings>>
vars == <<hostVars, scanVars>>

Finding(check, severity) ==
  [service |-> service, check |-> check, severity |-> severity, resource |-> "host",
   subjects |-> {}, writable |-> FALSE]

Init ==
  /\ HostInit
  /\ service \in Services
  /\ pc = "probe" /\ at = 1 /\ replies = <<>> /\ findings = {}

-----------------------------------------------------------------------------
(* Every scan() starts alike: no connection, an answer that is not the      *)
(* probe's, or a system that is not Linux end it with one ERROR finding.    *)
Probe ==
  /\ pc = "probe"
  /\ \/ pc' = "inspect" /\ UNCHANGED findings
     \/ /\ pc' = "done"
        /\ \E check \in {"connection", "platform_probe", "unsupported_platform"} :
             findings' = {Finding(check, "ERROR")}
  /\ UNCHANGED <<hostVars, service, at, replies>>

\* SSHCommandRunner.run: a timeout, no ssh, or status 255 raise SSHExecutionError
\* ("lost"); any other status is a result, also when the command did not work.
Lost == [how |-> "lost"]
Failed == [how |-> "failed", rc |-> 1]
Answered(c) ==
  [how |-> "answered", rc |-> ExitStatus(c, host), show |-> [f \in Shows[c] |-> host[f]]]

Troubled == {c \in DOMAIN replies : replies[c].how # "answered"}

\* Mutant: the last command is missed by one.
EndsScanLate(c, r) ==
  \/ at > Len(Script[service])
  \/ r.how = "lost" /\ service \notin {"accounts", "auth", "hardening", "network"}
  \/ c = "package_manager" /\ (r.how = "failed" \/ r.show["manager"] = "none")
  \/ c = "pending_updates" /\ replies["package_manager"].show["manager"] = "apt"

\* Is reply r to c the last thing scan() asks for?  accounts, auth, hardening and
\* network carry on after a lost command, the others give up.
EndsScan(c, r) ==
  \/ at = Len(Script[service])
  \/ r.how = "lost" /\ service \notin {"accounts", "auth", "hardening", "network"}
  \/ c = "package_manager" /\ (r.how = "failed" \/ r.show["manager"] = "none")
  \/ c = "pending_updates" /\ replies["package_manager"].show["manager"] = "apt"

Run(c) ==
  /\ pc = "inspect" /\ c = Script[service][at]
  /\ \E r \in {Lost, Failed, Answered(c)} :
       /\ OutlastsSsh(c, host) => r = Lost
       /\ r.how # "answered" => Cardinality(Troubled) < MaxTrouble
       /\ replies' = [d \in DOMAIN replies \union {c} |-> IF d = c THEN r ELSE replies[d]]
       /\ pc' = IF EndsScan(c, r) THEN "judge" ELSE "inspect"
  /\ at' = at + 1
  /\ UNCHANGED <<hostVars, service, findings>>

-----------------------------------------------------------------------------
(* The checks, on what came back                                           *)

Gone(c) == c \in DOMAIN replies /\ replies[c].how = "lost"
Got(c) == c \in DOMAIN replies /\ replies[c].how # "lost"
Answer(c) == Got(c) /\ replies[c].how = "answered"
Succeeded(c) == Answer(c) /\ replies[c].rc = 0
See(c, f) == replies[c].show[f]

Errors(checks) == {Finding(c, "ERROR") : c \in checks}

\* Mutant: a command that did not work gives no finding.
OnAnswer(c, check, found) == IF Succeeded(c) THEN found ELSE {}

\* A check of a command whose exit status is looked at.
OnSuccess(c, check, found) ==
  IF Succeeded(c) THEN found ELSE IF Got(c) THEN {Finding(check, "ERROR")} ELSE {}

\* The accounts of the inventory, or none without one.
Inventory == IF Succeeded("account_inventory") THEN See("account_inventory", "passwd") ELSE {}

AccountFindings ==
  OnSuccess("account_inventory", "account_inventory",
    {Finding("duplicate_uids", DuplicateUids(Inventory)),
     Finding("system_login_shells",
             SystemLogins(Inventory, See("account_inventory", "shells")))})
  \union
  OnSuccess("privileged_groups", "privileged_groups",
    {Finding("privileged_groups",
             PrivilegedGroups(Inventory, See("privileged_groups", "groups")))})
  \union
  OnSuccess("sudoers", "sudoers_readability",
    {Finding("broad_nopasswd_sudo", BroadSudo(See("sudoers", "sudoers"))),
     Finding("sudoers_readability", SudoReadability(See("sudoers", "sudoers")))})

AuthFindings ==
  OnSuccess("pam_policy", "pam_policy",
    LET pam == See("pam_policy", "pam")
    IN  {Finding("pam_permit_auth", PamRule(pam, "permit")),
         Finding("pam_null_passwords", PamRule(pam, "nullok")),
         Finding("pam_policy_visibility", PamVisibility(pam))})
  \union
  OnSuccess("account_state", "account_state",
    LET of(f) == See("account_state", f)
    IN  {Finding("connected_password_state", ConnectedPassword(of("self"))),
         Finding("empty_password_accounts",
                 EmptyPasswords(of("passwd"), of("shells"), of("shadow"))),
         Finding("shadow_visibility", "INFO")})

\* The exit status of the baseline commands is not looked at: one that failed has
\* printed nothing.  After a lost one nothing that came back is judged.
BaselineFindings ==
  LET Of(c, check, severity, nothing) ==
        Finding(check, IF Answer(c) THEN severity ELSE nothing)
  IN  {Finding("ssh_connection", "PASS")} \union
      IF \E c \in DOMAIN replies : Gone(c) THEN {}
      ELSE {Of("ssh_directives", check, Directive(See("ssh_directives", "sshConfig"), check),
               "INFO") : check \in DOMAIN DirectiveSeverity}
           \union
           {Of("ssh_config_mode", "ssh_config_permissions",
               ConfigPermissions(See("ssh_config_mode", "sshConfig").mode), "INFO"),
            Of("uid_zero_accounts", "uid_zero_accounts",
               UidZero(See("uid_zero_accounts", "passwd")), "INFO"),
            Of("docker_socket", "docker_socket_permissions",
               DockerSocket(See("docker_socket", "dockerSocket")), "PASS")}

HardeningFindings ==
  OnSuccess("sensitive_files", "sensitive_file_permissions",
    {Finding("sensitive_file_permissions", SensitiveFiles(See("sensitive_files", "files")))})
  \union
  OnSuccess("ssh_paths", "ssh_key_permissions",
    {Finding("ssh_key_permissions", SshPaths(See("ssh_paths", "home")))})
  \union
  OnSuccess("automatic_updates", "automatic_security_updates",
    {Finding("automatic_security_updates", AutomaticUpdates(See("automatic_updates", "auto")))})

\* _firewall_state
FirewallState(b) ==
  CASE Gone(b) -> "transport-error"
    [] ~Gone(b) /\ ~Answer(b) -> "unreadable"
    [] OTHER -> [absent |-> "unavailable", odd |-> "unknown", unreadable |-> "unreadable",
                 active |-> "active", inactive |-> "inactive"][See(b, b)]

NetworkFindings ==
  OnSuccess("listening_sockets", "listening_sockets",
    {Finding("listening_sockets", Listening(See("listening_sockets", "sockets")))})
  \union
  {Finding("firewall_controls", Firewall([b \in Firewalls |-> FirewallState(b)]))}

PackageFindings ==
  LET updates == See("pending_updates", "updates")
      apt == See("package_manager", "manager") = "apt"
      known == IF apt THEN updates.security
               ELSE See("security_advisories", "advisories") = "some"
      failed == ~apt /\ ~(Succeeded("security_advisories")
                          /\ See("security_advisories", "advisories") # "failing")
  IN  CASE ~Got("package_manager") -> {}
        [] Got("package_manager") /\ ~Succeeded("package_manager") -> {Finding("package_manager", "ERROR")}
        [] Succeeded("package_manager") /\ See("package_manager", "manager") = "none" ->
             {Finding("package_manager", "INFO")}
        [] OTHER ->
             OnSuccess("pending_updates", "pending_updates",
               IF ~updates.works THEN {Finding("pending_updates", "ERROR")}
               ELSE {Finding("pending_updates", IF updates.pending THEN "INFO" ELSE "PASS"),
                     Finding("security_updates",
                             IF failed THEN "ERROR" ELSE IF known THEN "MEDIUM" ELSE "PASS"),
                     Finding("metadata_snapshot", "INFO")})

ServiceFindings ==
  OnSuccess("service_inventory", "inventory",
    LET units == See("service_inventory", "units")
    IN  IF ~See("service_inventory", "systemctl") THEN {Finding("inventory", "INFO")}
        ELSE {Finding("legacy_remote_access", IF "telnet.socket" \in units THEN "HIGH" ELSE "PASS"),
              Finding("tftp", IF "tftp.service" \in units THEN "MEDIUM" ELSE "PASS"),
              Finding("ftp", "INFO"), Finding("legacy_multiplexer", "INFO")})

SshdFindings ==
  OnSuccess("effective_config", "effective_config",
    LET shown == See("effective_config", "sshdT")
    IN  CASE shown.is = "missing" -> {Finding("effective_config", "INFO")}
          [] shown.is \in {"fails", "empty"} -> {Finding("effective_config", "ERROR")}
          [] OTHER -> {Finding("weak_crypto", WeakCrypto(shown.crypto)),
                       Finding("strict_modes", Setting(shown.strict)),
                       Finding("gateway_ports", Setting(shown.gateway)),
                       Finding("user_environment", Setting(shown.environment)),
                       Finding("hostbased_authentication", Setting(shown.hosts))})

TlsFindings ==
  OnSuccess("certificate_inventory", "certificate_inventory",
    LET ports == {See("certificate_inventory", "tls")[p] :
                    p \in DOMAIN See("certificate_inventory", "tls")}
        unknown == ports \intersect (NoCertificate \ {"closed"})
    IN  IF ~See("certificate_inventory", "tlsTools") \/ ports = {"closed"}
        THEN {Finding("certificate_inventory", "INFO")}
        ELSE {Finding("certificate_expiry", CertificateExpiry(c)) : c \in ports \ NoCertificate}
             \union IF unknown = {} THEN {} ELSE {Finding("unverified_listener", "INFO")})

Judgement ==
  CASE service = "accounts" -> AccountFindings   [] service = "auth" -> AuthFindings
    [] service = "baseline" -> BaselineFindings  [] service = "hardening" -> HardeningFindings
    [] service = "network" -> NetworkFindings    [] service = "packages" -> PackageFindings
    [] service = "services" -> ServiceFindings   [] service = "sshd" -> SshdFindings
    [] service = "tls" -> TlsFindings

\* A lost command is an ERROR finding of its own, except for a firewall backend.
TransportErrors == Errors({c \in DOMAIN replies \ Firewalls : Gone(c)})

Judge ==
  /\ pc = "judge"
  /\ findings' = TransportErrors \union Judgement
  /\ pc' = "done"
  /\ UNCHANGED <<hostVars, service, at, replies>>

\* Only what the scanner looks at matters to it.
Others ==
  /\ pc \in {"probe", "inspect"}
  /\ \E f \in Looks(service) : \E to \in HostStates[f] : ChangeFacet(f, to)
  /\ UNCHANGED scanVars

Next == Probe \/ (\E c \in Commands : Run(c)) \/ Judge \/ Others

Spec == Init /\ [][Next]_vars
-----------------------------------------------------------------------------
(* Properties                                                              *)

TypeOK ==
  /\ HostOK(host) /\ steady \subseteq Facets /\ changes \in 0..MaxChanges
  /\ service \in Services /\ pc \in {"probe", "inspect", "judge", "done"}
  /\ at \in 1..(Len(Script[service]) + 1)
  /\ pc = "inspect" => at <= Len(Script[service])
  /\ DOMAIN replies = {Script[service][i] : i \in 1..(at - 1)}
  /\ \A c \in DOMAIN replies : Answer(c) => DOMAIN replies[c].show = Shows[c]
  /\ \A f \in findings : f.service = service /\ f.severity \in Severities

Says(check, severity) == Finding(check, severity) \in findings
Erred == \E f \in findings : f.severity = "ERROR"

\* What docs/server-scanning.md calls a risk, as it is on the host: the check that
\* reports it, the documented severity, and the facets it is a matter of.
Risks ==
  LET R(check, severity, facets, present) ==
        IF present THEN {[check |-> check, severity |-> severity, facets |-> facets]} ELSE {}
      InGroup(a, g) == a.name \in g.members \/ a.gid = g.gid
  IN  CASE service = "accounts" ->
             R("duplicate_uids", "HIGH", {"passwd"},
               Cardinality({a \in host.passwd : a.uid = 0}) > 1)
             \union
             R("privileged_groups", "MEDIUM", {"passwd", "groups"},
               \E g \in host.groups : \E a \in host.passwd :
                 g.name \in {"docker", "lxd"} /\ a.name # "root" /\ InGroup(a, g))
             \union
             R("broad_nopasswd_sudo", "HIGH", {"sudoers"},
               \E f \in host.sudoers : f.readable /\ f.broad)
        [] service = "auth" ->
             R("pam_null_passwords", "HIGH", {"pam"}, \E f \in host.pam : f.readable /\ f.nullok)
             \union
             R("empty_password_accounts", "HIGH", {"passwd", "shells", "shadow"},
               host.shadow.readable /\ \E a \in host.passwd :
                 a.name \in host.shadow.empty /\ a.name = "root")
        [] service = "baseline" ->
             R("uid_zero_accounts", "HIGH", {"passwd"},
               \E a \in host.passwd : a.uid = 0 /\ a.name # "root")
             \union
             R("docker_socket_permissions", "HIGH", {"dockerSocket"},
               host.dockerSocket.mode = "world")
             \union
             R("ssh_empty_passwords", "CRITICAL", {"sshConfig"},
               host.sshConfig.readable /\ "ssh_empty_passwords" \in host.sshConfig.enabled)
        [] service = "hardening" ->
             R("sensitive_file_permissions", "HIGH", {"files"},
               host.files.core = "bad" \/ host.files.sudo = "bad")
             \union
             R("automatic_security_updates", "MEDIUM", {"auto"},
               host.auto.family # "unknown" /\ host.auto.config = "off")
        [] service = "network" ->
             R("firewall_controls", "MEDIUM", Firewalls,
               /\ \A b \in Firewalls : host[b] \in {"absent", "inactive"}
               /\ \E b \in Firewalls : host[b] = "inactive")
        [] service = "packages" ->
             R("security_updates", "MEDIUM", {"manager", "updates"},
               host.manager = "apt" /\ host.updates.security)
             \union
             R("security_updates", "MEDIUM", {"manager", "advisories"},
               host.manager = "dnf" /\ host.advisories = "some")
        [] service = "services" ->
             R("legacy_remote_access", "HIGH", {"units", "systemctl"},
               host.systemctl /\ "telnet.socket" \in host.units)
        [] service = "sshd" ->
             R("gateway_ports", "MEDIUM", {"sshdT"},
               host.sshdT.is = "shown" /\ host.sshdT.gateway = "risky")
        [] service = "tls" ->
             R("certificate_expiry", "HIGH", {"tls", "tlsTools"},
               host.tlsTools /\ \E p \in DOMAIN host.tls : host.tls[p] = "expired")

SteadyRisks == {r \in Risks : r.facets \subseteq steady}

\* A scanner that counts as fully evaluated (no ERROR finding,
\* docs/coverage-confidence.md) has reported, at the documented severity, every risk
\* that was there from its probe to its last command, whatever else changed between
\* its commands.  The baseline, which ignores exit statuses, and a Docker socket stat
\* cannot see are left to SteadyRiskNeverPasses.
SteadyRiskIsReported ==
  pc = "done" /\ ~Erred /\ (service = "baseline" => Troubled = {}) =>
    \A r \in SteadyRisks :
      \/ Says(r.check, r.severity)
      \/ r.check = "docker_socket_permissions" /\ ~host.dockerSocket.visible

\* A command that was lost, or failed where the status is looked at, shows in the
\* coverage: an ERROR finding stands for it.  The one exception is a firewall
\* backend, when another one is seen active (network.py:203).
TroubleShows ==
  pc = "done" /\ replies # <<>> =>
    \A c \in Troubled :
      \/ Erred
      \/ service = "baseline" /\ replies[c].how = "failed"
      \/ c \in Firewalls /\ \E b \in Firewalls \ {c} : Answer(b) /\ See(b, b) = "active"

\* The four backends are asked one after the other, on a host that may switch from
\* one to another in between.  MEDIUM means all were asked, and none was steadily
\* active or unreadable; PASS means one was active, now or before somebody changed
\* it; a backend that stays active is never overlooked.
FirewallVerdictIsEarned ==
  pc = "done" /\ service = "network" =>
    /\ Says("firewall_controls", "MEDIUM") =>
         \A b \in Firewalls :
           Answer(b) /\ (b \in steady => host[b] \in {"absent", "inactive"})
    /\ Says("firewall_controls", "PASS") =>
         \E b \in Firewalls : Answer(b) /\ (b \in steady => host[b] = "active")
    /\ (\E b \in Firewalls \intersect steady : Answer(b) /\ host[b] = "active")
         => Says("firewall_controls", "PASS")

Risk == INSTANCE RiskEngine WITH Catalog <- {}, MaxFindings <- 0, findings <- <<>>

\* An empty password and a PAM nullok path that both stay are correlated by the risk
\* engine ("when the same host has both", docs/server-scanning.md:212), although two
\* commands had to come back to see them.
EmptyPasswordPathIsCorrelated ==
  pc = "done" /\ service = "auth" /\ replies # <<>> /\ Troubled = {}
  /\ {"pam", "passwd", "shells", "shadow"} \subseteq steady
  /\ (\E f \in host.pam : f.readable /\ f.nullok)
  /\ host.shadow.readable /\ host.shadow.empty # {} =>
    \E c \in Risk!ResourceCorrelations(SetToSeq(findings)) :
      c.rule = "empty_password_with_pam_nullok"

\* SECURITY.md:27: failures are "represented as coverage limitations or ERROR findings
\* rather than being interpreted as secure state".  Not so when the check of a risk that
\* was there all along says PASS and nothing else (two TLS ports may differ).
SteadyRiskNeverPasses ==
  pc = "done" => \A r \in SteadyRisks : Says(r.check, "PASS") => Says(r.check, r.severity)

\* docs/scanner-authoring.md:115: ERROR means that "Blacklight could not complete the
\* check"; not so when every command came back and every sudoers file was readable.
ErrorMeansUnseen ==
  pc = "done" /\ service \in {"accounts", "services"} /\ replies # <<>> /\ Troubled = {} =>
    \/ ~Erred
    \/ service = "accounts" /\ \E f \in See("sudoers", "sudoers") : ~f.readable
=============================================================================
