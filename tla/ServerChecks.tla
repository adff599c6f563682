---------------------------- MODULE ServerChecks ----------------------------
(***************************************************************************)
(* What the nine server scanners (scanners/server/) conclude from the      *)
(* output of their commands: each check is an operator from what a command *)
(* showed to the severity of the finding it gives.  Every check yields     *)
(* exactly one finding, an absence of evidence included.                   *)
(***************************************************************************)
EXTENDS Naturals

Severities == {"PASS", "INFO", "LOW", "MEDIUM", "HIGH", "CRITICAL", "ERROR"}

UidMin == 1000   \* of login.defs, and the fallback

-----------------------------------------------------------------------------
(* accounts: an account is [name, uid, gid, shell], its shell "listed" in   *)
(* /etc/shells, a "nologin" one, or "other"; a group is [name, gid,         *)
(* members], a sudoers file [readable, broad].                              *)

DuplicateUids(passwd) ==
  LET twins == {a \in passwd : \E b \in passwd : b # a /\ b.uid = a.uid}
  IN  IF twins = {} THEN "PASS"
      ELSE IF \E a \in twins : a.uid = 0 THEN "HIGH" ELSE "MEDIUM"

\* shells: is /etc/shells readable
SystemLogins(passwd, shells) ==
  IF ~shells THEN "INFO"
  ELSE IF \E a \in passwd : 0 < a.uid /\ a.uid < UidMin /\ a.shell = "listed"
  THEN "MEDIUM" ELSE "PASS"

\* Mutant: supplementary members only, as /etc/group lists them.
MembersListed(group, passwd) == group.members \ {"root"}

Members(group, passwd) ==
  (group.members \union {a.name : a \in {b \in passwd : b.gid = group.gid}}) \ {"root"}

PrivilegedGroups(passwd, groups) ==
  LET peopled == {g \in groups : Members(g, passwd) # {}}
  IN  IF \E g \in peopled : g.name \in {"docker", "lxd"} THEN "MEDIUM"
      ELSE IF peopled # {} THEN "INFO" ELSE "PASS"

BroadSudo(files) ==
  LET readable == {f \in files : f.readable}
  IN  IF \E f \in readable : f.broad THEN "HIGH"
      ELSE IF readable # {} THEN "PASS" ELSE "INFO"

SudoReadability(files) == IF \E f \in files : ~f.readable THEN "ERROR" ELSE "PASS"

-----------------------------------------------------------------------------
(* auth: a PAM file is [readable, permit, nullok]; shadow is [readable,     *)
(* empty], the names with an empty password field.                          *)

\* Mutant: one file without the rule clears the others.
PamRuleEverywhere(files, rule) ==
  IF files # {} /\ \A f \in files : f.readable /\ f[rule] THEN "HIGH" ELSE "INFO"

PamRule(files, rule) ==
  IF \E f \in files : f.readable /\ f[rule] THEN "HIGH" ELSE "INFO"

PamVisibility(files) ==
  IF files # {} /\ \A f \in files : f.readable THEN "PASS" ELSE "INFO"

\* self: the state passwd -S prints for the connected account
ConnectedPassword(self) ==
  CASE self = "NP" -> "HIGH" [] self = "L" -> "PASS" [] OTHER -> "INFO"

CanLogin(account, shells) ==
  \/ account.name = "root"
  \/ /\ account.shell # "nologin"
     /\ IF shells THEN account.shell = "listed" ELSE account.uid >= UidMin

EmptyPasswords(passwd, shells, shadow) ==
  IF ~shadow.readable THEN "INFO"
  ELSE IF \E a \in passwd : a.name \in shadow.empty /\ CanLogin(a, shells) THEN "HIGH"
  ELSE IF shadow.empty # {} THEN "MEDIUM" ELSE "PASS"

-----------------------------------------------------------------------------
(* baseline: sshConfig is [readable, enabled, mode], the Docker socket       *)
(* [mode, visible]: "absent", "world" or "strict", and can stat tell.       *)

DirectiveSeverity ==
  [ssh_root_login |-> "HIGH", ssh_password_authentication |-> "MEDIUM",
   ssh_empty_passwords |-> "CRITICAL"]

Directive(config, check) ==
  IF config.readable /\ check \in config.enabled THEN DirectiveSeverity[check] ELSE "INFO"

ConfigPermissions(mode) ==
  [world |-> "HIGH", group |-> "MEDIUM", strict |-> "PASS", unseen |-> "INFO"][mode]

UidZero(passwd) ==
  LET zero == {a.name : a \in {b \in passwd : b.uid = 0}}
  IN  IF zero \ {"root"} # {} THEN "HIGH" ELSE IF zero = {"root"} THEN "PASS" ELSE "INFO"

\* No mode means no socket, also when there is one and stat could not tell.
DockerSocket(socket) == IF socket.visible /\ socket.mode = "world" THEN "HIGH" ELSE "PASS"

-----------------------------------------------------------------------------
(* network                                                                 *)

Listening(scope) == IF scope = "wide" THEN "INFO" ELSE "PASS"

\* Mutant: a backend whose command was lost counts like one that is not there.
FirewallForgiving(states) ==
  LET seen == {states[b] : b \in DOMAIN states}
  IN  IF "active" \in seen THEN "PASS"
      ELSE IF seen \intersect {"unreadable", "unknown"} # {} \/ seen \subseteq {"unavailable"}
      THEN "ERROR" ELSE "MEDIUM"

\* _check_firewall_controls, on the state of each backend
Firewall(states) ==
  LET seen == {states[b] : b \in DOMAIN states}
  IN  IF "active" \in seen THEN "PASS"
      ELSE IF seen \intersect {"unreadable", "transport-error", "unknown"} # {} THEN "ERROR"
      ELSE IF seen = {"unavailable"} THEN "ERROR" ELSE "MEDIUM"

-----------------------------------------------------------------------------
(* hardening: files is [core, sudo], the worst of each kind; automatic      *)
(* updates are [family, config, timer].                                     *)

SensitiveFiles(files) ==
  IF "bad" \in {files.core, files.sudo} THEN "HIGH"
  ELSE IF files.core = "unseen" THEN "INFO" ELSE "PASS"

SshPaths(home) == [bad |-> "HIGH", unseen |-> "INFO", good |-> "PASS"][home]

AutomaticUpdates(auto) ==
  IF auto.family = "unknown" THEN "INFO"
  ELSE IF auto.config = "on" /\ auto.timer = "on" THEN "PASS"
  ELSE IF auto.config = "off" \/ auto.timer = "off" THEN "MEDIUM" ELSE "INFO"

-----------------------------------------------------------------------------
(* sshd: what sshd -T shows, [crypto, strict, gateway, environment, hosts], *)
(* each "risky", "fine" or "unset"; tls: port |-> its certificate.          *)

WeakCrypto(crypto) == IF crypto = "risky" THEN "MEDIUM" ELSE "PASS"

Setting(value) == [risky |-> "MEDIUM", fine |-> "PASS", unset |-> "INFO"][value]

CertificateExpiry(certificate) ==
  [expired |-> "HIGH", soon |-> "MEDIUM", fine |-> "PASS", undated |-> "INFO"][certificate]

\* Ports where nothing listens, or no certificate came back in time.
NoCertificate == {"closed", "plain", "silent"}
=============================================================================
