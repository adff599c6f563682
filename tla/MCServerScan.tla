---------------------------- MODULE MCServerScan ----------------------------
(* A quiet host, the same host with one risk of each kind, and for every    *)
(* facet the values that tell the checks apart; two changes by others and   *)
(* two commands in trouble.                                                 *)
EXTENDS ServerScan

User(name, uid, gid, shell) == [name |-> name, uid |-> uid, gid |-> gid, shell |-> shell]
Root == User("root", 0, 0, "other")
Plain == {Root, User("ann", 1000, 1000, "listed")}
Group(name, gid, members) == [name |-> name, gid |-> gid, members |-> members]
File(broad, readable) == [broad |-> broad, readable |-> readable]
Pam(nullok) == [readable |-> TRUE, permit |-> FALSE, nullok |-> nullok]
Sshd(is, gateway) == [is |-> is, gateway |-> gateway, crypto |-> "fine", strict |-> "fine",
                      environment |-> "unset", hosts |-> "risky"]
Ssh(readable, enabled, mode) == [readable |-> readable, enabled |-> enabled, mode |-> mode]
Auto(config, timer) == [family |-> "apt", config |-> config, timer |-> timer]
Updates(works, security) == [works |-> works, pending |-> security, security |-> security]
Tls(a, b, c) == [p \in {443, 636, 993} |-> IF p = 443 THEN a ELSE IF p = 636 THEN b ELSE c]
Socket(mode, visible) == [mode |-> mode, visible |-> visible]
Firewall5 == {"absent", "active", "inactive", "unreadable"}

MCHostStates ==
  [passwd |-> {Plain, Plain \union {User("eve", 0, 998, "listed")},
               Plain \union {User("svc", 5, 998, "nologin")}},
   shells |-> BOOLEAN, getent |-> BOOLEAN,
   groups |-> {{Group("sudo", 27, {"ann"})},
               {Group("docker", 998, {}), Group("lxd", 997, {"root"})}},
   sudoers |-> {{}, {File(TRUE, TRUE)}, {File(FALSE, TRUE), File(TRUE, FALSE)}},
   pam |-> {{Pam(FALSE)}, {Pam(TRUE), Pam(FALSE)}},
   shadow |-> {[readable |-> r, empty |-> e] : r \in BOOLEAN, e \in {{}, {"root"}, {"svc"}}},
   self |-> {"L", "NP"},
   sshConfig |-> {Ssh(TRUE, {}, "strict"), Ssh(TRUE, {"ssh_empty_passwords"}, "world"),
                  Ssh(FALSE, {"ssh_empty_passwords"}, "unseen")},
   dockerSocket |-> {Socket("absent", TRUE), Socket("world", TRUE), Socket("world", FALSE)},
   files |-> {[core |-> c, sudo |-> d] : c \in {"good", "bad", "unseen"}, d \in {"good", "bad"}},
   home |-> {"good", "bad", "unseen"},
   auto |-> {Auto("on", "on"), Auto("off", "on"), Auto("unset", "unknown")},
   sockets |-> {"toolless", "loopback", "wide"},
   ufw |-> Firewall5 \union {"odd"}, firewalld |-> Firewall5 \union {"odd"},
   nftables |-> Firewall5, iptables |-> Firewall5,
   manager |-> {"apt", "dnf", "none"},
   updates |-> {Updates(TRUE, FALSE), Updates(TRUE, TRUE), Updates(FALSE, FALSE)},
   advisories |-> {"none", "some", "failing"},
   systemctl |-> BOOLEAN,
   units |-> {{}, {"telnet.socket"}, {"telnet.socket", "xinetd.service"}, {"tftp.service"}},
   sshdT |-> {Sshd("missing", "unset"), Sshd("fails", "unset"), Sshd("shown", "risky"),
              Sshd("shown", "fine")},
   tlsTools |-> BOOLEAN,
   tls |-> {Tls("closed", "closed", "closed"), Tls("expired", "silent", "fine"),
            Tls("silent", "silent", "expired"), Tls("soon", "plain", "closed")}]

Quiet ==
  [passwd |-> Plain, shells |-> TRUE, getent |-> TRUE, groups |-> {Group("sudo", 27, {"ann"})},
   sudoers |-> {}, pam |-> {Pam(FALSE)}, shadow |-> [readable |-> TRUE, empty |-> {}],
   self |-> "L", sshConfig |-> Ssh(TRUE, {}, "strict"), dockerSocket |-> Socket("absent", TRUE),
   files |-> [core |-> "good", sudo |-> "good"], home |-> "good", auto |-> Auto("on", "on"),
   sockets |-> "loopback", ufw |-> "inactive", firewalld |-> "absent", nftables |-> "absent",
   iptables |-> "absent", manager |-> "apt", updates |-> Updates(TRUE, FALSE),
   advisories |-> "none", systemctl |-> TRUE, units |-> {}, sshdT |-> Sshd("shown", "fine"),
   tlsTools |-> TRUE, tls |-> Tls("closed", "closed", "closed")]

Risky ==
  [passwd |-> Plain \union {User("svc", 5, 998, "nologin")}, shells |-> TRUE, getent |-> TRUE,
   groups |-> {Group("docker", 998, {}), Group("lxd", 997, {"root"})},
   sudoers |-> {}, pam |-> {Pam(TRUE), Pam(FALSE)},
   shadow |-> [readable |-> TRUE, empty |-> {"root"}], self |-> "NP",
   sshConfig |-> Ssh(TRUE, {"ssh_empty_passwords"}, "world"),
   dockerSocket |-> Socket("world", TRUE), files |-> [core |-> "good", sudo |-> "bad"],
   home |-> "bad", auto |-> Auto("off", "on"), sockets |-> "wide", ufw |-> "active",
   firewalld |-> "inactive", nftables |-> "absent", iptables |-> "unreadable",
   manager |-> "dnf", updates |-> Updates(TRUE, TRUE), advisories |-> "some",
   systemctl |-> TRUE, units |-> {"telnet.socket", "xinetd.service"},
   sshdT |-> Sshd("shown", "risky"), tlsTools |-> TRUE, tls |-> Tls("expired", "silent", "fine")]

MCInitialHosts == {Quiet, Risky}
=============================================================================
