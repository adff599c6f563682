----------------------------- MODULE ServerHost -----------------------------
(***************************************************************************)
(* The Linux host a server scan looks at, and the fixed shell commands it  *)
(* is looked at with: which facets of the host a command shows and the     *)
(* exit status it ends with.  The host is the environment: its             *)
(* administrators change it between two commands of a scan.                *)
(***************************************************************************)
EXTENDS Naturals, FiniteSets, Sequences

CONSTANTS
  HostStates,     \* facet |-> the values it may have
  InitialHosts,   \* the hosts a scan may start on
  MaxChanges,     \* bound: changes others make while a scan lasts
  Patience        \* silent TLS listeners one SSH command outlasts

Facets == DOMAIN HostStates

HostOK(h) == DOMAIN h = Facets /\ \A f \in Facets : h[f] \in HostStates[f]

ASSUME HostAssumption == \A h \in InitialHosts : HostOK(h)
ASSUME BoundsAssumption == MaxChanges \in Nat /\ Patience \in Nat

VARIABLES
  host,      \* facet |-> its value now
  steady,    \* history: the facets nobody has touched since the scan began
  changes    \* how many changes others have made

hostVars == <<host, steady, changes>>

-----------------------------------------------------------------------------
Firewalls == {"ufw", "firewalld", "nftables", "iptables"}

\* The commands of each scanner, in the order scan() runs them after its probe.
Script ==
  [accounts  |-> <<"account_inventory", "privileged_groups", "sudoers">>,
   auth      |-> <<"pam_policy", "account_state">>,
   baseline  |-> <<"ssh_directives", "ssh_config_mode", "uid_zero_accounts", "docker_socket">>,
   hardening |-> <<"sensitive_files", "ssh_paths", "automatic_updates">>,
   network   |-> <<"listening_sockets", "ufw", "firewalld", "nftables", "iptables">>,
   packages  |-> <<"package_manager", "pending_updates", "security_advisories">>,
   services  |-> <<"service_inventory">>,
   sshd      |-> <<"effective_config">>,
   tls       |-> <<"certificate_inventory">>]

Services == DOMAIN Script
CommandsOf(service) == {Script[service][i] : i \in DOMAIN Script[service]}
Commands == UNION {CommandsOf(s) : s \in Services}

\* The facets a command prints.
Shows ==
  [account_inventory |-> {"passwd", "shells"}, privileged_groups |-> {"groups", "getent"},
   sudoers |-> {"sudoers"}, pam_policy |-> {"pam"},
   account_state |-> {"passwd", "shells", "shadow", "self"},
   ssh_directives |-> {"sshConfig"}, ssh_config_mode |-> {"sshConfig"},
   uid_zero_accounts |-> {"passwd"}, docker_socket |-> {"dockerSocket"},
   sensitive_files |-> {"files"}, ssh_paths |-> {"home"}, automatic_updates |-> {"auto"},
   listening_sockets |-> {"sockets"},
   ufw |-> {"ufw"}, firewalld |-> {"firewalld"}, nftables |-> {"nftables"},
   iptables |-> {"iptables"},
   package_manager |-> {"manager"}, pending_updates |-> {"updates"},
   security_advisories |-> {"advisories"},
   service_inventory |-> {"systemctl", "units"}, effective_config |-> {"sshdT"},
   certificate_inventory |-> {"tlsTools", "tls"}]

Looks(service) == UNION {Shows[c] : c \in CommandsOf(service)}

(* What a command that ran to its end exits with.  Three of them end with a *)
(* test in front of &&, whose outcome is then theirs: the last of five      *)
(* groups is missing, a sudoers file was seen, the last unit is not active. *)
ExitStatus(c, h) ==
  CASE c = "privileged_groups" ->
         IF h.getent /\ \A g \in h.groups : g.name # "lxd" THEN 1 ELSE 0
    [] c = "sudoers" -> IF h.sudoers = {} THEN 0 ELSE 1
    [] c = "service_inventory" ->
         IF h.systemctl /\ "xinetd.service" \notin h.units THEN 1 ELSE 0
    [] c = "listening_sockets" -> IF h.sockets = "toolless" THEN 127 ELSE 0
    [] c \in Firewalls ->
         CASE h[c] = "absent" -> 127 [] h[c] = "unreadable" -> 1
           [] c = "firewalld" /\ h[c] = "inactive" -> 252 [] OTHER -> 0
    [] OTHER -> 0

\* The host's silent TLS ports cost an SSH command five seconds each.
Silent(h) == {p \in DOMAIN h.tls : h.tls[p] = "silent"}
OutlastsSsh(c, h) ==
  c = "certificate_inventory" /\ h.tlsTools /\ Cardinality(Silent(h)) > Patience

-----------------------------------------------------------------------------
(* What the host is made of: every facet a command prints, a finite account *)
(* database, and firewall backends in one of five states.                   *)

ASSUME FacetsAssumption == \A c \in DOMAIN Shows : Shows[c] \subseteq Facets
ASSUME PasswdAssumption == \A p \in HostStates["passwd"] : IsFiniteSet(p)
ASSUME FirewallAssumption ==
  \A b \in Firewalls :
    HostStates[b] \subseteq {"absent", "active", "inactive", "unreadable", "odd"}

-----------------------------------------------------------------------------
HostInit == host \in InitialHosts /\ steady = Facets /\ changes = 0

ChangeFacet(f, to) ==
  /\ changes < MaxChanges /\ changes' = changes + 1
  /\ host[f] # to
  /\ host' = [host EXCEPT ![f] = to]
  /\ steady' = steady \ {f}
=============================================================================
