-------------------------- MODULE ServerScanProofs --------------------------
(***************************************************************************)
(* What a server scan shows, proved for every host, every number of        *)
(* changes by others and every number of commands in trouble.              *)
(***************************************************************************)
EXTENDS ServerScan, FoldProofs

\* The scan is where its script says, and has replies to the commands before.
Progress ==
  /\ service \in Services /\ pc \in {"probe", "inspect", "judge", "done"}
  /\ at \in Nat /\ 1 <= at /\ at <= Len(Script[service]) + 1
  /\ DOMAIN replies = {Script[service][i] : i \in 1..(at - 1)}
  /\ at = 1 => replies = <<>>
  /\ pc = "probe" => at = 1
  /\ pc = "inspect" => at <= Len(Script[service])
  /\ pc = "judge" => at > 1

\* The host has its facets, and others have a budget of changes.
HostTypes ==
  /\ HostOK(host) /\ steady \subseteq Facets
  /\ changes \in Nat /\ changes <= MaxChanges

\* An answer shows a state the host was in, and of a steady facet the state it is in.
Truthful(c) ==
  /\ replies[c].how \in {"lost", "failed", "answered"}
  /\ Answer(c) =>
       /\ DOMAIN replies[c].show = Shows[c]
       /\ \A f \in Shows[c] : /\ See(c, f) \in HostStates[f]
                              /\ f \in steady => See(c, f) = host[f]

\* Every reply is truthful.
Truth == \A c \in DOMAIN replies : Truthful(c)

\* The packages scanner asks on only after it has seen a manager, and for
\* advisories only when the manager is not apt.
Manager == See("package_manager", "manager")

PackagesAskOn ==
  service = "packages" =>
    /\ at > 2 \/ (at > 1 /\ pc = "inspect") => Answer("package_manager") /\ Manager # "none"
    /\ at > 3 \/ (at > 2 /\ pc = "inspect") => Manager # "apt"

\* A scan that has left its script early has a reason to.
Complete ==
  pc \in {"judge", "done"} /\ at > 1 =>
    \/ at = Len(Script[service]) + 1
    \/ /\ service \notin {"accounts", "auth", "hardening", "network"}
       /\ \E c \in DOMAIN replies : Gone(c)
    \/ /\ service = "packages" /\ at = 2
       /\ Answer("package_manager") => Manager = "none"
    \/ service = "packages" /\ at = 3 /\ Manager = "apt"

\* What a scan that ends with its probe says, and what any other scan says when it is done.
ProbeErrors == {"connection", "platform_probe", "unsupported_platform"}

Judged ==
  IF pc # "done" THEN findings = {}
  ELSE IF at = 1 THEN \E check \in ProbeErrors : findings = {Finding(check, "ERROR")}
  ELSE findings = TransportErrors \union Judgement

\* The inductive invariant.
ServerInv == Progress /\ HostTypes /\ Truth /\ PackagesAskOn /\ Complete /\ Judged

-----------------------------------------------------------------------------
(* The scripts                                                             *)

\* The nine scanners.
LEMMA ServiceNames ==
  Services = {"accounts", "auth", "baseline", "hardening", "network", "packages", "services",
              "sshd", "tls"}
BY DEF Services, Script

\* How many commands each of them runs.
LEMMA ScriptLengths ==
  /\ Len(Script["accounts"]) = 3 /\ Len(Script["auth"]) = 2 /\ Len(Script["baseline"]) = 4
  /\ Len(Script["hardening"]) = 3 /\ Len(Script["network"]) = 5
  /\ Len(Script["packages"]) = 3 /\ Len(Script["services"]) = 1
  /\ Len(Script["sshd"]) = 1 /\ Len(Script["tls"]) = 1
BY DEF Script

\* Every scanner runs at least one command.
LEMMA LengthType == \A s \in Services : Len(Script[s]) \in Nat /\ Len(Script[s]) >= 1
<1> TAKE s \in Services
<1>1. CASE s = "accounts" BY <1>1, ScriptLengths
<1>2. CASE s = "auth" BY <1>2, ScriptLengths
<1>3. CASE s = "baseline" BY <1>3, ScriptLengths
<1>4. CASE s = "hardening" BY <1>4, ScriptLengths
<1>5. CASE s = "network" BY <1>5, ScriptLengths
<1>6. CASE s = "packages" BY <1>6, ScriptLengths
<1>7. CASE s = "services" BY <1>7, ScriptLengths
<1>8. CASE s = "sshd" BY <1>8, ScriptLengths
<1>9. CASE s = "tls" BY <1>9, ScriptLengths
<1>10. QED BY <1>1, <1>2, <1>3, <1>4, <1>5, <1>6, <1>7, <1>8, <1>9, ServiceNames

\* A script is a sequence.
LEMMA ScriptDomains == \A s \in Services : DOMAIN Script[s] = 1..Len(Script[s])
<1> TAKE s \in Services
<1>1. CASE s = "accounts" BY <1>1, ScriptLengths DEF Script
<1>2. CASE s = "auth" BY <1>2, ScriptLengths DEF Script
<1>3. CASE s = "baseline" BY <1>3, ScriptLengths DEF Script
<1>4. CASE s = "hardening" BY <1>4, ScriptLengths DEF Script
<1>5. CASE s = "network" BY <1>5, ScriptLengths DEF Script
<1>6. CASE s = "packages" BY <1>6, ScriptLengths DEF Script
<1>7. CASE s = "services" BY <1>7, ScriptLengths DEF Script
<1>8. CASE s = "sshd" BY <1>8, ScriptLengths DEF Script
<1>9. CASE s = "tls" BY <1>9, ScriptLengths DEF Script
<1>10. QED BY <1>1, <1>2, <1>3, <1>4, <1>5, <1>6, <1>7, <1>8, <1>9, ServiceNames

\* No script asks a command twice.
LEMMA AskedOnce ==
  \A s \in Services : \A i, j \in 1..Len(Script[s]) : Script[s][i] = Script[s][j] => i = j
<1> SUFFICES ASSUME NEW s \in Services, NEW i \in 1..Len(Script[s]), NEW j \in 1..Len(Script[s]),
                    i # j
             PROVE  Script[s][i] # Script[s][j]
  OBVIOUS
<1>1. CASE s \in {"services", "sshd", "tls"}
  <2>1. Len(Script[s]) = 1
    BY <1>1, ScriptLengths
  <2>2. QED BY <2>1
<1>2. CASE s = "accounts" BY <1>2, ScriptLengths DEF Script
<1>3. CASE s = "auth" BY <1>3, ScriptLengths DEF Script
<1>4. CASE s = "baseline" BY <1>4, ScriptLengths DEF Script
<1>5. CASE s = "hardening" BY <1>5, ScriptLengths DEF Script
<1>6. CASE s = "network" BY <1>6, ScriptLengths DEF Script
<1>7. CASE s = "packages" BY <1>7, ScriptLengths DEF Script
<1>8. QED BY <1>1, <1>2, <1>3, <1>4, <1>5, <1>6, <1>7, ServiceNames

\* What a script asks prints something; only one script asks for packages.
LEMMA ScriptCommands ==
  \A s \in Services : \A i \in 1..Len(Script[s]) :
    /\ Script[s][i] \in DOMAIN Shows
    /\ s # "packages" => Script[s][i] \notin {"package_manager", "pending_updates"}
<1> TAKE s \in Services
<1> TAKE i \in 1..Len(Script[s])
<1>1. CASE s = "accounts" BY <1>1, ScriptLengths DEF Script, Shows
<1>2. CASE s = "auth" BY <1>2, ScriptLengths DEF Script, Shows
<1>3. CASE s = "baseline" BY <1>3, ScriptLengths DEF Script, Shows
<1>4. CASE s = "hardening" BY <1>4, ScriptLengths DEF Script, Shows
<1>5. CASE s = "network" BY <1>5, ScriptLengths DEF Script, Shows
<1>6. CASE s = "packages" BY <1>6, ScriptLengths DEF Script, Shows
<1>7. CASE s = "services" BY <1>7, ScriptLengths DEF Script, Shows
<1>8. CASE s = "sshd" BY <1>8, ScriptLengths DEF Script, Shows
<1>9. CASE s = "tls" BY <1>9, ScriptLengths DEF Script, Shows
<1>10. QED BY <1>1, <1>2, <1>3, <1>4, <1>5, <1>6, <1>7, <1>8, <1>9, ServiceNames

\* What the next command adds to the replies.
LEMMA NextReply ==
  ASSUME Progress, pc = "inspect", NEW c, c = Script[service][at]
  PROVE  /\ c \notin DOMAIN replies
         /\ DOMAIN replies \union {c} = {Script[service][i] : i \in 1..at}
<1>1. c \notin DOMAIN replies
  <2>1. SUFFICES ASSUME NEW i \in 1..(at - 1), Script[service][i] = c PROVE FALSE
    BY DEF Progress
  <2>2. i \in 1..Len(Script[service]) /\ at \in 1..Len(Script[service]) /\ i # at
    BY LengthType DEF Progress
  <2>3. QED BY <2>1, <2>2, AskedOnce DEF Progress
<1>2. 1..at = (1..(at - 1)) \union {at}
  BY DEF Progress
<1>3. DOMAIN replies \union {c} = {Script[service][i] : i \in 1..at}
  BY <1>2 DEF Progress
<1>4. QED BY <1>1, <1>3

-----------------------------------------------------------------------------
(* The actions keep the invariant                                          *)

\* A scan starts in a state of the invariant.
LEMMA InitInv == Init => ServerInv
<1> SUFFICES ASSUME Init PROVE ServerInv
  OBVIOUS
<1>1. DOMAIN replies = {} /\ 1..(at - 1) = {}
  BY DEF Init
<1>2. Progress
  BY <1>1, LengthType DEF Init, Progress
<1>3. HostTypes
  BY HostAssumption, BoundsAssumption DEF Init, HostInit, HostTypes
<1>4. Truth
  BY <1>1 DEF Truth
<1>5. PackagesAskOn /\ Complete /\ Judged
  BY DEF Init, PackagesAskOn, Complete, Judged
<1>6. QED BY <1>2, <1>3, <1>4, <1>5 DEF ServerInv

\* What the checks make of the replies depends on nothing else.
LEMMA JudgementIsOfReplies ==
  ASSUME service' = service, replies' = replies
  PROVE  Judgement' = Judgement /\ TransportErrors' = TransportErrors
<1>1. TransportErrors' = TransportErrors
  BY DEF TransportErrors, Errors, Gone, Finding
<1>2. AccountFindings' = AccountFindings
  BY DEF AccountFindings, OnSuccess, Succeeded, Answer, Got, See, Inventory, Finding
<1>3. AuthFindings' = AuthFindings
  BY DEF AuthFindings, OnSuccess, Succeeded, Answer, Got, See, Finding
<1>4. BaselineFindings' = BaselineFindings
  BY DEF BaselineFindings, Gone, Answer, Got, See, Finding
<1>5. HardeningFindings' = HardeningFindings
  BY DEF HardeningFindings, OnSuccess, Succeeded, Answer, Got, See, Finding
<1>6. NetworkFindings' = NetworkFindings
  BY DEF NetworkFindings, FirewallState, OnSuccess, Succeeded, Gone, Answer, Got, See, Finding
<1>7. PackageFindings' = PackageFindings
  BY DEF PackageFindings, OnSuccess, Succeeded, Answer, Got, See, Finding
<1>8. ServiceFindings' = ServiceFindings
  BY DEF ServiceFindings, OnSuccess, Succeeded, Answer, Got, See, Finding
<1>9. SshdFindings' = SshdFindings
  BY DEF SshdFindings, OnSuccess, Succeeded, Answer, Got, See, Finding
<1>10. TlsFindings' = TlsFindings
  BY DEF TlsFindings, OnSuccess, Succeeded, Answer, Got, See, Finding
<1>11. QED
  BY <1>1, <1>2, <1>3, <1>4, <1>5, <1>6, <1>7, <1>8, <1>9, <1>10 DEF Judgement

\* The probe keeps it: a scan it ends has one finding, and no reply.
LEMMA ProbeStep == ServerInv /\ Probe => ServerInv'
<1> SUFFICES ASSUME ServerInv, Probe PROVE ServerInv'
  OBVIOUS
<1>1. /\ at = 1 /\ at' = at /\ service' = service /\ replies' = replies
      /\ pc' \in {"inspect", "done"}
  BY DEF ServerInv, Progress, Probe
<1>2. host' = host /\ steady' = steady /\ changes' = changes
  BY DEF Probe, hostVars
<1>3. Progress'
  BY <1>1, LengthType DEF ServerInv, Progress
<1>4. HostTypes'
  BY <1>2 DEF ServerInv, HostTypes, HostOK, Facets
<1>5. Truth'
  <2>1. DOMAIN replies' = {}
    BY <1>1 DEF ServerInv, Progress
  <2>2. QED BY <2>1 DEF Truth
<1>6. PackagesAskOn' /\ Complete'
  BY <1>1 DEF PackagesAskOn, Complete
<1>7. Judged'
  <2>1. pc' # "done" => findings' = {}
    BY <1>1 DEF Probe, ServerInv, Judged
  <2>2. SUFFICES ASSUME pc' = "done"
                 PROVE  \E check \in ProbeErrors : findings' = {Finding(check, "ERROR")'}
    BY <1>1, <2>1 DEF Judged
  <2>3. PICK check \in ProbeErrors : findings' = {Finding(check, "ERROR")}
    BY <2>2, <1>1 DEF Probe, ProbeErrors
  <2>4. Finding(check, "ERROR")' = Finding(check, "ERROR")
    BY <1>1 DEF Finding
  <2>5. QED BY <2>3, <2>4
<1>8. QED BY <1>3, <1>4, <1>5, <1>6, <1>7 DEF ServerInv

\* A command keeps it: its reply shows the host as it is now.
LEMMA RunStep ==
  ASSUME NEW c, ServerInv, Run(c)
  PROVE  ServerInv'
<1>1. /\ pc = "inspect" /\ c = Script[service][at] /\ at' = at + 1
      /\ service' = service /\ pc' \in {"inspect", "judge"}
      /\ at \in Nat /\ 1 <= at /\ at <= Len(Script[service])
  BY DEF ServerInv, Progress, Run
<1>2. host' = host /\ steady' = steady /\ changes' = changes
  BY DEF Run, hostVars
<1>3. PICK r \in {Lost, Failed, Answered(c)} :
        /\ replies' = [d \in DOMAIN replies \union {c} |-> IF d = c THEN r ELSE replies[d]]
        /\ pc' = IF EndsScan(c, r) THEN "judge" ELSE "inspect"
  BY DEF Run
<1>4. /\ c \notin DOMAIN replies
      /\ DOMAIN replies \union {c} = {Script[service][i] : i \in 1..at}
  BY <1>1, NextReply DEF ServerInv
<1>5. /\ DOMAIN replies' = DOMAIN replies \union {c}
      /\ replies'[c] = r
      /\ \A d \in DOMAIN replies : replies'[d] = replies[d]
  BY <1>3, <1>4
<1>6. Progress'
  <2>1. DOMAIN replies' = {Script[service'][i] : i \in 1..(at' - 1)}
    BY <1>1, <1>4, <1>5
  <2>2. pc' = "inspect" => at # Len(Script[service])
    BY <1>3 DEF EndsScan
  <2>3. QED BY <1>1, <2>1, <2>2, LengthType DEF ServerInv, Progress
<1>7. HostTypes'
  BY <1>2 DEF ServerInv, HostTypes, HostOK, Facets
<1>8. c \in DOMAIN Shows /\ Shows[c] \subseteq Facets
  <2>1. c \in DOMAIN Shows
    BY <1>1, ScriptCommands DEF ServerInv, Progress
  <2>2. QED BY <2>1, FacetsAssumption
<1>9. Truth'
  <2>1. SUFFICES ASSUME NEW d \in DOMAIN replies' PROVE Truthful(d)'
    BY DEF Truth
  <2>2. CASE d = c
    <3>1. CASE r = Lost \/ r = Failed
      BY <2>2, <3>1, <1>5 DEF Truthful, Answer, Got, Lost, Failed
    <3>2. CASE r = Answered(c)
      <4>1. replies'[c].how = "answered" /\ replies'[c].show = [f \in Shows[c] |-> host[f]]
        BY <3>2, <1>5 DEF Answered
      <4>2. \A f \in Shows[c] : host[f] \in HostStates[f]
        BY <1>8 DEF ServerInv, HostTypes, HostOK
      <4>3. QED BY <2>2, <4>1, <4>2, <1>2 DEF Truthful, See
    <3>3. QED BY <3>1, <3>2
  <2>3. CASE d # c
    <3>1. d \in DOMAIN replies /\ replies'[d] = replies[d]
      BY <2>3, <1>5
    <3>2. Truthful(d)
      BY <3>1 DEF ServerInv, Truth
    <3>3. QED BY <3>1, <3>2, <1>2 DEF Truthful, See, Answer, Got
  <2>4. QED BY <2>2, <2>3
<1>10. ASSUME service = "packages"
       PROVE  PackagesAskOn' /\ Complete'
  <2>1. /\ Len(Script[service]) = 3 /\ service' = "packages"
        /\ at = 1 => c = "package_manager"
        /\ at = 2 => c = "pending_updates"
        /\ at = 3 => c = "security_advisories"
    BY <1>1, <1>10, ScriptLengths DEF Script
  <2>2. r.how = "lost" => c \in DOMAIN replies' /\ Gone(c)'
    BY <1>5 DEF Gone
  <2>3. CASE at = 1
    <3>1. ~EndsScan(c, r) => r.how = "answered" /\ r.show["manager"] # "none"
      BY <2>1, <2>3, <1>10 DEF EndsScan, Lost, Failed, Answered
    <3>2. PackagesAskOn'
      BY <1>1, <1>3, <1>5, <2>1, <2>3, <3>1 DEF PackagesAskOn, Manager, See, Answer, Got
    <3>3. EndsScan(c, r) => \/ r.how = "lost"
                            \/ r.how = "failed" \/ r.show["manager"] = "none"
      BY <2>1, <2>3 DEF EndsScan
    <3>4. Complete'
      BY <1>1, <1>3, <1>5, <2>1, <2>2, <2>3, <3>3 DEF Complete, Manager, See, Answer, Got
    <3>5. QED BY <3>2, <3>4
  <2>4. CASE at = 2 \/ at = 3
    <3>1. Answer("package_manager") /\ Manager # "none" /\ (at = 3 => Manager # "apt")
      BY <1>1, <1>10, <2>4 DEF ServerInv, PackagesAskOn
    <3>2. c # "package_manager"
      BY <2>1, <2>4
    <3>3. /\ Answer("package_manager")' <=> Answer("package_manager")
          /\ Manager' = Manager
      BY <1>5, <3>1, <3>2 DEF Answer, Got, Manager, See
    <3>4. EndsScan(c, r) => at = 3 \/ r.how = "lost" \/ (at = 2 /\ Manager = "apt")
      BY <2>1, <2>4, <3>2 DEF EndsScan, Manager, See
    <3>5. at = 2 /\ ~EndsScan(c, r) => Manager # "apt"
      BY <2>1 DEF EndsScan, Manager, See
    <3>6. PackagesAskOn'
      BY <1>1, <1>3, <2>1, <2>4, <3>1, <3>3, <3>5 DEF PackagesAskOn
    <3>7. Complete'
      BY <1>1, <1>3, <2>1, <2>2, <2>4, <3>3, <3>4 DEF Complete
    <3>8. QED BY <3>6, <3>7
  <2>5. QED BY <1>1, <2>1, <2>3, <2>4
<1>11. ASSUME service # "packages"
       PROVE  PackagesAskOn' /\ Complete'
  <2>1. c # "package_manager" /\ c # "pending_updates"
    BY <1>1, <1>11, ScriptCommands DEF ServerInv, Progress
  <2>2. pc' = "judge" =>
          \/ at = Len(Script[service])
          \/ r.how = "lost" /\ service \notin {"accounts", "auth", "hardening", "network"}
    BY <1>3, <2>1 DEF EndsScan
  <2>3. r.how = "lost" => c \in DOMAIN replies' /\ Gone(c)'
    BY <1>5 DEF Gone
  <2>4. Complete'
    BY <1>1, <2>2, <2>3, LengthType DEF Complete, ServerInv, Progress
  <2>5. QED BY <2>4, <1>1, <1>11 DEF PackagesAskOn
<1>12. Judged'
  BY <1>1 DEF Run, ServerInv, Judged
<1>13. QED BY <1>6, <1>7, <1>9, <1>10, <1>11, <1>12 DEF ServerInv

\* The checks keep it: they only look at the replies.
LEMMA JudgeStep == ServerInv /\ Judge => ServerInv'
<1> SUFFICES ASSUME ServerInv, Judge PROVE ServerInv'
  OBVIOUS
<1>1. /\ pc = "judge" /\ pc' = "done" /\ at' = at /\ service' = service /\ replies' = replies
      /\ host' = host /\ steady' = steady /\ changes' = changes
  BY DEF Judge, hostVars
<1>2. Progress'
  BY <1>1 DEF ServerInv, Progress
<1>3. HostTypes'
  BY <1>1 DEF ServerInv, HostTypes, HostOK, Facets
<1>4. Truth'
  BY <1>1 DEF ServerInv, Truth, Truthful, See, Answer, Got
<1>5. PackagesAskOn'
  BY <1>1 DEF ServerInv, PackagesAskOn, Manager, See, Answer, Got
<1>6. Complete'
  BY <1>1 DEF ServerInv, Complete, Manager, See, Answer, Got, Gone
<1>7. Judged'
  BY <1>1, JudgementIsOfReplies DEF Judge, Judged, ServerInv, Progress
<1>8. QED BY <1>2, <1>3, <1>4, <1>5, <1>6, <1>7 DEF ServerInv

\* Others keep it: what they touch is no longer steady.
LEMMA OthersStep == ServerInv /\ Others => ServerInv'
<1> SUFFICES ASSUME ServerInv, Others PROVE ServerInv'
  OBVIOUS
<1>1. /\ pc \in {"probe", "inspect"} /\ pc' = pc /\ at' = at /\ service' = service
      /\ replies' = replies /\ findings' = findings
  BY DEF Others, scanVars
<1>2. PICK f \in Looks(service) : \E to \in HostStates[f] : ChangeFacet(f, to)
  BY DEF Others
<1>3. PICK to \in HostStates[f] : ChangeFacet(f, to)
  BY <1>2
<1>4. Progress'
  BY <1>1 DEF ServerInv, Progress
<1>5. HostTypes'
  <2>1. changes \in Nat /\ MaxChanges \in Nat
    BY BoundsAssumption DEF ServerInv, HostTypes
  <2>2. DOMAIN host' = Facets /\ \A g \in Facets : host'[g] \in HostStates[g]
    BY <1>3 DEF ChangeFacet, ServerInv, HostTypes, HostOK
  <2>3. QED BY <1>3, <2>1, <2>2 DEF ChangeFacet, ServerInv, HostTypes, HostOK, Facets
<1>6. Truth'
  <2>1. SUFFICES ASSUME NEW c \in DOMAIN replies PROVE Truthful(c)'
    BY <1>1 DEF Truth
  <2>2. Truthful(c)
    BY DEF ServerInv, Truth
  <2>3. \A g \in steady' : g \in steady /\ host'[g] = host[g]
    BY <1>3 DEF ChangeFacet, ServerInv, HostTypes, HostOK
  <2>4. QED BY <1>1, <2>2, <2>3 DEF Truthful, See, Answer, Got
<1>7. PackagesAskOn'
  BY <1>1 DEF ServerInv, PackagesAskOn, Manager, See, Answer, Got
<1>8. Complete' /\ Judged'
  BY <1>1 DEF ServerInv, Complete, Judged
<1>9. QED BY <1>4, <1>5, <1>6, <1>7, <1>8 DEF ServerInv

\* And so does a step that changes nothing.
LEMMA StutterStep == ServerInv /\ UNCHANGED vars => ServerInv'
<1> SUFFICES ASSUME ServerInv, UNCHANGED vars PROVE ServerInv'
  OBVIOUS
<1>1. /\ pc' = pc /\ at' = at /\ service' = service /\ replies' = replies
      /\ findings' = findings /\ host' = host /\ steady' = steady /\ changes' = changes
  BY DEF vars, scanVars, hostVars
<1>2. Progress' /\ HostTypes'
  BY <1>1 DEF ServerInv, Progress, HostTypes, HostOK, Facets
<1>3. Truth'
  BY <1>1 DEF ServerInv, Truth, Truthful, See, Answer, Got
<1>4. PackagesAskOn' /\ Complete'
  BY <1>1 DEF ServerInv, PackagesAskOn, Complete, Manager, See, Answer, Got, Gone
<1>5. Judged'
  BY <1>1, JudgementIsOfReplies DEF ServerInv, Judged, Finding
<1>6. QED BY <1>2, <1>3, <1>4, <1>5 DEF ServerInv

\* The invariant of every scan of a server, whatever others do to it meanwhile.
THEOREM ServerInvariant == Spec => []ServerInv
<1>1. ServerInv /\ [Next]_vars => ServerInv'
  BY ProbeStep, RunStep, JudgeStep, OthersStep, StutterStep DEF Next
<1>2. QED BY InitInv, <1>1, PTL DEF Spec

-----------------------------------------------------------------------------
(* What the findings say of the commands                                   *)

\* The commands of each scanner.
LEMMA ScriptsAsk ==
  /\ service = "accounts" => CommandsOf(service) =
       {"account_inventory", "privileged_groups", "sudoers"}
  /\ service = "auth" => CommandsOf(service) =
       {"pam_policy", "account_state"}
  /\ service = "baseline" => CommandsOf(service) =
       {"ssh_directives", "ssh_config_mode", "uid_zero_accounts", "docker_socket"}
  /\ service = "hardening" => CommandsOf(service) =
       {"sensitive_files", "ssh_paths", "automatic_updates"}
  /\ service = "network" => CommandsOf(service) =
       {"listening_sockets", "ufw", "firewalld", "nftables", "iptables"}
  /\ service = "packages" => CommandsOf(service) =
       {"package_manager", "pending_updates", "security_advisories"}
  /\ service = "services" => CommandsOf(service) =
       {"service_inventory"}
  /\ service = "sshd" => CommandsOf(service) =
       {"effective_config"}
  /\ service = "tls" => CommandsOf(service) =
       {"certificate_inventory"}
<1>1. service = "accounts" => CommandsOf(service) =
       {"account_inventory", "privileged_groups", "sudoers"}
  <2>1. SUFFICES ASSUME service = "accounts"
                PROVE CommandsOf(service) = {"account_inventory", "privileged_groups", "sudoers"}
    OBVIOUS
  <2>2. DOMAIN Script[service] = 1..3
    BY <2>1 DEF Script
  <2>3. QED BY <2>1, <2>2 DEF CommandsOf, Script
<1>2. service = "auth" => CommandsOf(service) = {"pam_policy", "account_state"}
  <2>1. SUFFICES ASSUME service = "auth"
                PROVE CommandsOf(service) = {"pam_policy", "account_state"}
    OBVIOUS
  <2>2. DOMAIN Script[service] = 1..2
    BY <2>1 DEF Script
  <2>3. QED BY <2>1, <2>2 DEF CommandsOf, Script
<1>3. service = "baseline" => CommandsOf(service) =
       {"ssh_directives", "ssh_config_mode", "uid_zero_accounts", "docker_socket"}
  <2>1. SUFFICES ASSUME service = "baseline"
                PROVE CommandsOf(service) =
       {"ssh_directives", "ssh_config_mode", "uid_zero_accounts", "docker_socket"}
    OBVIOUS
  <2>2. DOMAIN Script[service] = 1..4
    BY <2>1 DEF Script
  <2>3. QED BY <2>1, <2>2 DEF CommandsOf, Script
<1>4. service = "hardening" => CommandsOf(service) =
       {"sensitive_files", "ssh_paths", "automatic_updates"}
  <2>1. SUFFICES ASSUME service = "hardening"
                PROVE CommandsOf(service) = {"sensitive_files", "ssh_paths", "automatic_updates"}
    OBVIOUS
  <2>2. DOMAIN Script[service] = 1..3
    BY <2>1 DEF Script
  <2>3. QED BY <2>1, <2>2 DEF CommandsOf, Script
<1>5. service = "network" => CommandsOf(service) =
       {"listening_sockets", "ufw", "firewalld", "nftables", "iptables"}
  <2>1. SUFFICES ASSUME service = "network"
                PROVE CommandsOf(service) =
       {"listening_sockets", "ufw", "firewalld", "nftables", "iptables"}
    OBVIOUS
  <2>2. DOMAIN Script[service] = 1..5
    BY <2>1 DEF Script
  <2>3. QED BY <2>1, <2>2 DEF CommandsOf, Script
<1>6. service = "packages" => CommandsOf(service) =
       {"package_manager", "pending_updates", "security_advisories"}
  <2>1. SUFFICES ASSUME service = "packages"
                PROVE CommandsOf(service) =
       {"package_manager", "pending_updates", "security_advisories"}
    OBVIOUS
  <2>2. DOMAIN Script[service] = 1..3
    BY <2>1 DEF Script
  <2>3. QED BY <2>1, <2>2 DEF CommandsOf, Script
<1>7. service = "services" => CommandsOf(service) = {"service_inventory"}
  <2>1. SUFFICES ASSUME service = "services" PROVE CommandsOf(service) = {"service_inventory"}
    OBVIOUS
  <2>2. DOMAIN Script[service] = 1..1
    BY <2>1 DEF Script
  <2>3. QED BY <2>1, <2>2 DEF CommandsOf, Script
<1>8. service = "sshd" => CommandsOf(service) = {"effective_config"}
  <2>1. SUFFICES ASSUME service = "sshd" PROVE CommandsOf(service) = {"effective_config"}
    OBVIOUS
  <2>2. DOMAIN Script[service] = 1..1
    BY <2>1 DEF Script
  <2>3. QED BY <2>1, <2>2 DEF CommandsOf, Script
<1>9. service = "tls" => CommandsOf(service) = {"certificate_inventory"}
  <2>1. SUFFICES ASSUME service = "tls" PROVE CommandsOf(service) = {"certificate_inventory"}
    OBVIOUS
  <2>2. DOMAIN Script[service] = 1..1
    BY <2>1 DEF Script
  <2>3. QED BY <2>1, <2>2 DEF CommandsOf, Script
<1>10. QED BY <1>1, <1>2, <1>3, <1>4, <1>5, <1>6, <1>7, <1>8, <1>9

\* A finding has the check and the severity it is made with.
LEMMA FindingFields ==
  \A c, s : Finding(c, s).check = c /\ Finding(c, s).severity = s
BY DEF Finding

\* Replies belong to the script; a script run to its end has all of them.
LEMMA AskedByScript ==
  ASSUME Progress
  PROVE  /\ DOMAIN replies \subseteq CommandsOf(service)
         /\ at = Len(Script[service]) + 1 => DOMAIN replies = CommandsOf(service)
<1>1. DOMAIN Script[service] = 1..Len(Script[service])
  BY ScriptDomains DEF Progress
<1>2. QED BY <1>1, LengthType DEF Progress, CommandsOf

\* A command that did not succeed where success matters gives an ERROR finding.
LEMMA FailureIsFound ==
  ASSUME ServerInv, pc = "done", at > 1, service # "baseline",
         NEW c \in DOMAIN replies, c \notin Firewalls, ~Succeeded(c)
  PROVE  Erred
<1>1. c \in CommandsOf(service) /\ findings = TransportErrors \union Judgement
  BY AskedByScript DEF ServerInv, Judged, Progress
<1> SUFFICES \E check : Finding(check, "ERROR") \in TransportErrors \union Judgement
  BY <1>1, FindingFields DEF Erred
<1>2. CASE Got(c)
  <2> USE <1>2
  <2>1. CASE service = "accounts"
    <3>1. /\ c \in {"account_inventory", "privileged_groups", "sudoers"}
          /\ Judgement = AccountFindings
      BY <1>1, <2>1, ScriptsAsk DEF Judgement
    <3>2. QED BY <3>1 DEF AccountFindings, OnSuccess
  <2>2. CASE service = "auth"
    <3>1. c \in {"pam_policy", "account_state"} /\ Judgement = AuthFindings
      BY <1>1, <2>2, ScriptsAsk DEF Judgement
    <3>2. QED BY <3>1 DEF AuthFindings, OnSuccess
  <2>3. CASE service = "hardening"
    <3>1. /\ c \in {"sensitive_files", "ssh_paths", "automatic_updates"}
          /\ Judgement = HardeningFindings
      BY <1>1, <2>3, ScriptsAsk DEF Judgement
    <3>2. QED BY <3>1 DEF HardeningFindings, OnSuccess
  <2>4. CASE service = "services"
    <3>1. c \in {"service_inventory"} /\ Judgement = ServiceFindings
      BY <1>1, <2>4, ScriptsAsk DEF Judgement
    <3>2. QED BY <3>1 DEF ServiceFindings, OnSuccess
  <2>5. CASE service = "sshd"
    <3>1. c \in {"effective_config"} /\ Judgement = SshdFindings
      BY <1>1, <2>5, ScriptsAsk DEF Judgement
    <3>2. QED BY <3>1 DEF SshdFindings, OnSuccess
  <2>6. CASE service = "tls"
    <3>1. c \in {"certificate_inventory"} /\ Judgement = TlsFindings
      BY <1>1, <2>6, ScriptsAsk DEF Judgement
    <3>2. QED BY <3>1 DEF TlsFindings, OnSuccess
  <2>7. CASE service = "network"
    <3>1. c = "listening_sockets" /\ Judgement = NetworkFindings
      BY <1>1, <2>7, ScriptsAsk DEF Judgement, Firewalls
    <3>2. QED BY <3>1 DEF NetworkFindings, OnSuccess
  <2>8. CASE service = "packages"
    <3>1. c \in {"package_manager", "pending_updates", "security_advisories"}
      BY <1>1, <2>8, ScriptsAsk
    <3>2. Judgement = PackageFindings
      BY <2>8 DEF Judgement
    <3>3. CASE c = "package_manager"
      BY <3>2, <3>3 DEF PackageFindings
    <3>4. CASE c # "package_manager"
      <4> USE <2>8
      <4>1. PICK i \in 1..(at - 1) : c = Script["packages"][i]
        BY DEF ServerInv, Progress
      <4>2. at > 2 /\ Answer("package_manager") /\ Manager # "none"
        <5>1. i # 1
          BY <3>4, <4>1 DEF Script
        <5>2. at > 2
          BY <4>1, <5>1 DEF ServerInv, Progress
        <5>3. QED BY <5>2 DEF ServerInv, PackagesAskOn
      <4>3. "pending_updates" \in DOMAIN replies
        <5>1. 2 \in 1..(at - 1) /\ Script["packages"][2] = "pending_updates"
          BY <4>2 DEF Script, ServerInv, Progress
        <5>2. QED BY <5>1 DEF ServerInv, Progress
      <4>4. CASE ~Succeeded("package_manager")
        BY <3>2, <4>2, <4>4 DEF PackageFindings, Answer
      <4>5. CASE Gone("pending_updates")
        BY <4>3, <4>5 DEF TransportErrors, Errors, Firewalls
      <4>6. CASE Succeeded("package_manager") /\ ~Gone("pending_updates")
        <5>1. Got("pending_updates") /\ Got("package_manager")
          BY <4>2, <4>3, <4>6 DEF Got, Gone, Answer
        <5>2. CASE ~Succeeded("pending_updates")
          BY <3>2, <4>2, <4>6, <5>1, <5>2 DEF PackageFindings, OnSuccess, Manager
        <5>3. CASE c = "security_advisories"
          <6>1. i # 1 /\ i # 2
            BY <4>1, <5>3 DEF Script
          <6>2. at > 3
            BY <4>1, <6>1 DEF ServerInv, Progress
          <6>3. Manager # "apt"
            BY <6>2 DEF ServerInv, PackagesAskOn
          <6>4. QED BY <3>2, <4>2, <4>6, <5>1, <5>2, <5>3, <6>3
                    DEF PackageFindings, OnSuccess, Manager
        <5>4. QED BY <3>1, <3>4, <5>2, <5>3
      <4>7. QED BY <4>4, <4>5, <4>6
    <3>5. QED BY <3>3, <3>4
  <2>9. QED
    BY <2>1, <2>2, <2>3, <2>4, <2>5, <2>6, <2>7, <2>8, ServiceNames DEF ServerInv, Progress
<1>3. CASE ~Got(c)
  <2>1. Gone(c)
    BY <1>3 DEF Got, Gone
  <2>2. QED BY <2>1 DEF TransportErrors, Errors
<1>4. QED BY <1>2, <1>3

-----------------------------------------------------------------------------
(* The firewall backends                                                   *)

\* The state _firewall_state makes of a reply, by what the backend showed.
LEMMA FirewallStates ==
  ASSUME ServerInv, NEW b \in Firewalls
  PROVE  /\ FirewallState(b) = "active" <=> Answer(b) /\ See(b, b) = "active"
         /\ FirewallState(b) = "inactive" <=> Answer(b) /\ See(b, b) = "inactive"
         /\ FirewallState(b) = "unavailable" <=> Answer(b) /\ See(b, b) = "absent"
         /\ FirewallState(b) \in {"active", "inactive", "unavailable", "unreadable",
                                  "transport-error", "unknown"}
<1>1. CASE Gone(b)
  <2>1. FirewallState(b) = "transport-error"
    BY <1>1 DEF FirewallState
  <2>2. ~Answer(b)
    BY <1>1 DEF Gone, Answer, Got
  <2>3. QED BY <2>1, <2>2
<1>2. CASE ~Gone(b) /\ ~Answer(b)
  <2>1. FirewallState(b) = "unreadable"
    BY <1>2 DEF FirewallState
  <2>2. QED BY <2>1, <1>2
<1>3. CASE ~Gone(b) /\ Answer(b)
  <2>1. FirewallState(b) =
          [absent |-> "unavailable", odd |-> "unknown", unreadable |-> "unreadable",
           active |-> "active", inactive |-> "inactive"][See(b, b)]
    BY <1>3 DEF FirewallState
  <2>2. b \in DOMAIN replies
    BY <1>3 DEF Answer, Got
  <2>3. b \in Shows[b]
    BY DEF Firewalls, Shows
  <2>4. See(b, b) \in HostStates[b]
    BY <1>3, <2>2, <2>3 DEF ServerInv, Truth, Truthful
  <2>5. See(b, b) \in {"absent", "active", "inactive", "unreadable", "odd"}
    BY <2>4, FirewallAssumption
  <2>6. QED BY <1>3, <2>1, <2>5
<1>4. QED BY <1>1, <1>2, <1>3 DEF Gone, Answer, Got

\* The verdict of the four states.
LEMMA FirewallVerdict ==
  ASSUME NEW states, DOMAIN states = Firewalls,
         \A b \in Firewalls : states[b] \in {"active", "inactive", "unavailable", "unreadable",
                                             "transport-error", "unknown"}
  PROVE  /\ Firewall(states) \in {"PASS", "ERROR", "MEDIUM"}
         /\ Firewall(states) = "PASS" <=> \E b \in Firewalls : states[b] = "active"
         /\ Firewall(states) = "MEDIUM" <=>
              /\ \A b \in Firewalls : states[b] \in {"inactive", "unavailable"}
              /\ \E b \in Firewalls : states[b] = "inactive"
<1> DEFINE seen == {states[b] : b \in DOMAIN states}
<1>1. Firewall(states) =
        IF "active" \in seen THEN "PASS"
        ELSE IF seen \intersect {"unreadable", "transport-error", "unknown"} # {} THEN "ERROR"
        ELSE IF seen = {"unavailable"} THEN "ERROR" ELSE "MEDIUM"
  BY DEF Firewall
<1>2. \A v : v \in seen <=> \E b \in Firewalls : states[b] = v
  OBVIOUS
<1>3. seen # {}
  BY <1>2 DEF Firewalls
<1>4. seen \subseteq {"active", "inactive", "unavailable", "unreadable", "transport-error",
                      "unknown"}
  BY <1>2
<1> HIDE DEF seen
<1>5. seen \intersect {"unreadable", "transport-error", "unknown"} = {} <=>
        seen \subseteq {"active", "inactive", "unavailable"}
  BY <1>4
<1>6. "active" \notin seen /\ seen \subseteq {"active", "inactive", "unavailable"} =>
        (seen = {"unavailable"} <=> "inactive" \notin seen)
  BY <1>3
<1>7. Firewall(states) = "MEDIUM" <=>
        seen \subseteq {"inactive", "unavailable"} /\ "inactive" \in seen
  BY <1>1, <1>5, <1>6
<1>8. QED BY <1>1, <1>2, <1>7

-----------------------------------------------------------------------------
(* Steady risks                                                            *)

\* What a scan without ERROR findings has seen.
LEMMA AllSeen ==
  ASSUME ServerInv, pc = "done", ~Erred, service = "baseline" => Troubled = {}
  PROVE  /\ at > 1 /\ findings = TransportErrors \union Judgement
         /\ \A c \in DOMAIN replies :
              service # "baseline" /\ c \notin Firewalls => Succeeded(c)
         /\ service # "packages" => DOMAIN replies = CommandsOf(service)
         /\ \A c \in DOMAIN replies : Answer(c) =>
              \A f \in Shows[c] : f \in steady => See(c, f) = host[f]
<1>1. at > 1 /\ findings = TransportErrors \union Judgement
  <2>1. at # 1
    <3>1. SUFFICES ASSUME at = 1 PROVE FALSE
      OBVIOUS
    <3>2. PICK check \in ProbeErrors : findings = {Finding(check, "ERROR")}
      BY <3>1 DEF ServerInv, Judged
    <3>3. QED BY <3>2, FindingFields DEF Erred
  <2>2. QED BY <2>1 DEF ServerInv, Progress, Judged
<1>2. \A c \in DOMAIN replies : service # "baseline" /\ c \notin Firewalls => Succeeded(c)
  BY <1>1, FailureIsFound
<1>3. service # "packages" => DOMAIN replies = CommandsOf(service)
  <2>1. SUFFICES ASSUME service # "packages" PROVE at = Len(Script[service]) + 1
    BY AskedByScript DEF ServerInv
  <2>2. SUFFICES ASSUME service \notin {"accounts", "auth", "hardening", "network"},
                        NEW c \in DOMAIN replies, Gone(c)
                 PROVE  FALSE
    BY <1>1, <2>1 DEF ServerInv, Complete
  <2>3. CASE service = "baseline"
    BY <2>2, <2>3 DEF Gone, Troubled
  <2>4. CASE service # "baseline"
    <3>1. c \notin Firewalls
      BY <2>1, <2>2, <2>4, AskedByScript, ScriptsAsk, ServiceNames
         DEF Firewalls, ServerInv, Progress
    <3>2. Succeeded(c)
      BY <2>4, <3>1, <1>2
    <3>3. QED BY <2>2, <3>2 DEF Gone, Succeeded, Answer, Got
  <2>5. QED BY <2>3, <2>4
<1>4. \A c \in DOMAIN replies : Answer(c) =>
        \A f \in Shows[c] : f \in steady => See(c, f) = host[f]
  BY DEF ServerInv, Truth, Truthful
<1>5. QED BY <1>1, <1>2, <1>3, <1>4

\* A set of more than one element has two.
LEMMA TwoOfMany ==
  ASSUME NEW S, IsFiniteSet(S), Cardinality(S) > 1
  PROVE  \E a, b \in S : a # b
<1>1. S # {}
  BY FS_EmptySet
<1>2. PICK a \in S : TRUE
  BY <1>1
<1>3. S # {a}
  BY FS_Singleton
<1>4. QED BY <1>2, <1>3

\* The risks of each scanner, first the accounts: an ERROR-free scan has read the facets
\* of a steady risk as they still are, and the check of the risk fires on them.
LEMMA AccountRisks ==
  ASSUME ServerInv, pc = "done", ~Erred, service = "accounts", NEW r \in SteadyRisks
  PROVE  Says(r.check, r.severity)
<1>1. /\ findings = TransportErrors \union AccountFindings
      /\ Succeeded("account_inventory") /\ Succeeded("privileged_groups") /\ Succeeded("sudoers")
  <2>1. DOMAIN replies = {"account_inventory", "privileged_groups", "sudoers"}
    BY AllSeen, ScriptsAsk
  <2>2. QED BY <2>1, AllSeen DEF Judgement, Firewalls
<1>2. /\ "passwd" \in steady => See("account_inventory", "passwd") = host["passwd"]
      /\ "groups" \in steady => See("privileged_groups", "groups") = host["groups"]
      /\ "sudoers" \in steady => See("sudoers", "sudoers") = host["sudoers"]
  BY <1>1, AllSeen DEF Succeeded, Answer, Got, Shows
<1>3. \/ /\ r = [check |-> "duplicate_uids", severity |-> "HIGH", facets |-> {"passwd"}]
         /\ Cardinality({a \in host.passwd : a.uid = 0}) > 1
      \/ /\ r = [check |-> "privileged_groups", severity |-> "MEDIUM",
                 facets |-> {"passwd", "groups"}]
         /\ \E g \in host.groups : \E a \in host.passwd :
              /\ g.name \in {"docker", "lxd"} /\ a.name # "root"
              /\ a.name \in g.members \/ a.gid = g.gid
      \/ /\ r = [check |-> "broad_nopasswd_sudo", severity |-> "HIGH", facets |-> {"sudoers"}]
         /\ \E f \in host.sudoers : f.readable /\ f.broad
  BY DEF SteadyRisks, Risks
<1>4. r.facets \subseteq steady
  BY DEF SteadyRisks
<1>5. CASE r.check = "duplicate_uids"
  <2>1. r.severity = "HIGH" /\ Inventory = host["passwd"]
    BY <1>1, <1>2, <1>3, <1>4, <1>5 DEF Inventory
  <2>2. Cardinality({a \in host["passwd"] : a.uid = 0}) > 1
    BY <1>3, <1>5
  <2>3. IsFiniteSet(host["passwd"])
    <3>1. "passwd" \in Facets
      BY FacetsAssumption DEF Shows
    <3>2. host["passwd"] \in HostStates["passwd"]
      BY <3>1 DEF ServerInv, HostTypes, HostOK
    <3>3. QED BY <3>2, PasswdAssumption
  <2>4. IsFiniteSet({a \in host["passwd"] : a.uid = 0})
    BY <2>3, FS_Subset
  <2>5. PICK a \in host["passwd"], b \in host["passwd"] : a.uid = 0 /\ b.uid = 0 /\ a # b
    BY <2>2, <2>4, TwoOfMany
  <2>6. DuplicateUids(Inventory) = "HIGH"
    BY <2>1, <2>5 DEF DuplicateUids
  <2>7. QED BY <1>1, <1>5, <2>1, <2>6 DEF Says, AccountFindings, OnSuccess
<1>6. CASE r.check = "privileged_groups"
  <2>1. /\ r.severity = "MEDIUM" /\ Inventory = host["passwd"]
        /\ See("privileged_groups", "groups") = host["groups"]
    BY <1>1, <1>2, <1>3, <1>4, <1>6 DEF Inventory
  <2>2. PICK g \in host["groups"] : \E a \in host["passwd"] :
          /\ g.name \in {"docker", "lxd"} /\ a.name # "root"
          /\ a.name \in g.members \/ a.gid = g.gid
    BY <1>3, <1>6
  <2>3. Members(g, host["passwd"]) # {}
    BY <2>2 DEF Members
  <2>4. PrivilegedGroups(host["passwd"], host["groups"]) = "MEDIUM"
    BY <2>2, <2>3 DEF PrivilegedGroups
  <2>5. QED BY <1>1, <1>6, <2>1, <2>4 DEF Says, AccountFindings, OnSuccess
<1>7. CASE r.check = "broad_nopasswd_sudo"
  <2>1. r.severity = "HIGH" /\ BroadSudo(See("sudoers", "sudoers")) = "HIGH"
    BY <1>2, <1>3, <1>4, <1>7 DEF BroadSudo
  <2>2. QED BY <1>1, <1>7, <2>1 DEF Says, AccountFindings, OnSuccess
<1>8. QED BY <1>3, <1>5, <1>6, <1>7

\* PAM and shadow: both commands came back.
LEMMA AuthRisks ==
  ASSUME ServerInv, pc = "done", ~Erred, service = "auth", NEW r \in SteadyRisks
  PROVE  Says(r.check, r.severity)
<1>1. /\ findings = TransportErrors \union AuthFindings
      /\ Succeeded("pam_policy") /\ Succeeded("account_state")
  <2>1. DOMAIN replies = {"pam_policy", "account_state"}
    BY AllSeen, ScriptsAsk
  <2>2. QED BY <2>1, AllSeen DEF Judgement, Firewalls
<1>2. /\ "pam" \in steady => See("pam_policy", "pam") = host["pam"]
      /\ "passwd" \in steady => See("account_state", "passwd") = host["passwd"]
      /\ "shells" \in steady => See("account_state", "shells") = host["shells"]
      /\ "shadow" \in steady => See("account_state", "shadow") = host["shadow"]
  BY <1>1, AllSeen DEF Succeeded, Answer, Got, Shows
<1>3. \/ /\ r = [check |-> "pam_null_passwords", severity |-> "HIGH", facets |-> {"pam"}]
         /\ \E f \in host.pam : f.readable /\ f.nullok
      \/ /\ r = [check |-> "empty_password_accounts", severity |-> "HIGH",
                 facets |-> {"passwd", "shells", "shadow"}]
         /\ host.shadow.readable
         /\ \E a \in host.passwd : a.name \in host.shadow.empty /\ a.name = "root"
  BY DEF SteadyRisks, Risks
<1>4. r.facets \subseteq steady
  BY DEF SteadyRisks
<1>5. CASE r.check = "pam_null_passwords"
  <2>1. r.severity = "HIGH" /\ PamRule(See("pam_policy", "pam"), "nullok") = "HIGH"
    BY <1>2, <1>3, <1>4, <1>5 DEF PamRule
  <2>2. QED BY <1>1, <1>5, <2>1 DEF Says, AuthFindings, OnSuccess
<1>6. CASE r.check = "empty_password_accounts"
  <2>1. /\ r.severity = "HIGH"
        /\ EmptyPasswords(See("account_state", "passwd"), See("account_state", "shells"),
                          See("account_state", "shadow")) = "HIGH"
    BY <1>2, <1>3, <1>4, <1>6 DEF EmptyPasswords, CanLogin
  <2>2. QED BY <1>1, <1>6, <2>1 DEF Says, AuthFindings, OnSuccess
<1>7. QED BY <1>3, <1>5, <1>6

\* The baseline, whose checks do not look at the exit status.
LEMMA BaselineRisks ==
  ASSUME ServerInv, pc = "done", ~Erred, service = "baseline", Troubled = {},
         NEW r \in SteadyRisks
  PROVE  \/ Says(r.check, r.severity)
         \/ r.check = "docker_socket_permissions" /\ ~host.dockerSocket.visible
<1>1. DOMAIN replies = {"ssh_directives", "ssh_config_mode", "uid_zero_accounts", "docker_socket"}
  BY AllSeen, ScriptsAsk
<1>2. \A c \in DOMAIN replies : Answer(c) /\ ~Gone(c)
  BY DEF Troubled, Answer, Got, Gone
<1>3. findings = TransportErrors \union BaselineFindings
  BY AllSeen DEF Judgement
<1>4. /\ "passwd" \in steady => See("uid_zero_accounts", "passwd") = host["passwd"]
      /\ "dockerSocket" \in steady =>
           See("docker_socket", "dockerSocket") = host["dockerSocket"]
      /\ "sshConfig" \in steady => See("ssh_directives", "sshConfig") = host["sshConfig"]
  BY <1>1, <1>2, AllSeen DEF Shows
<1>5. /\ Finding("uid_zero_accounts", UidZero(See("uid_zero_accounts", "passwd")))
           \in BaselineFindings
      /\ Finding("docker_socket_permissions",
                 DockerSocket(See("docker_socket", "dockerSocket"))) \in BaselineFindings
      /\ Finding("ssh_empty_passwords",
                 Directive(See("ssh_directives", "sshConfig"), "ssh_empty_passwords"))
           \in BaselineFindings
  BY <1>1, <1>2 DEF BaselineFindings, DirectiveSeverity
<1>6. \/ /\ r = [check |-> "uid_zero_accounts", severity |-> "HIGH", facets |-> {"passwd"}]
         /\ \E a \in host.passwd : a.uid = 0 /\ a.name # "root"
      \/ /\ r = [check |-> "docker_socket_permissions", severity |-> "HIGH",
                 facets |-> {"dockerSocket"}]
         /\ host.dockerSocket.mode = "world"
      \/ /\ r = [check |-> "ssh_empty_passwords", severity |-> "CRITICAL",
                 facets |-> {"sshConfig"}]
         /\ host.sshConfig.readable /\ "ssh_empty_passwords" \in host.sshConfig.enabled
  BY DEF SteadyRisks, Risks
<1>7. r.facets \subseteq steady
  BY DEF SteadyRisks
<1>8. CASE r.check = "uid_zero_accounts"
  <2>1. r.severity = "HIGH" /\ UidZero(See("uid_zero_accounts", "passwd")) = "HIGH"
    BY <1>4, <1>6, <1>7, <1>8 DEF UidZero
  <2>2. QED BY <1>3, <1>5, <1>8, <2>1 DEF Says
<1>9. CASE r.check = "docker_socket_permissions" /\ host.dockerSocket.visible
  <2>1. r.severity = "HIGH" /\ DockerSocket(See("docker_socket", "dockerSocket")) = "HIGH"
    BY <1>4, <1>6, <1>7, <1>9 DEF DockerSocket
  <2>2. QED BY <1>3, <1>5, <1>9, <2>1 DEF Says
<1>10. CASE r.check = "ssh_empty_passwords"
  <2>1. /\ r.severity = "CRITICAL"
        /\ Directive(See("ssh_directives", "sshConfig"), "ssh_empty_passwords") = "CRITICAL"
    BY <1>4, <1>6, <1>7, <1>10 DEF Directive, DirectiveSeverity
  <2>2. QED BY <1>3, <1>5, <1>10, <2>1 DEF Says
<1>11. QED BY <1>6, <1>8, <1>9, <1>10

\* Files and automatic updates.
LEMMA HardeningRisks ==
  ASSUME ServerInv, pc = "done", ~Erred, service = "hardening", NEW r \in SteadyRisks
  PROVE  Says(r.check, r.severity)
<1>1. /\ findings = TransportErrors \union HardeningFindings
      /\ Succeeded("sensitive_files") /\ Succeeded("automatic_updates")
  <2>1. DOMAIN replies = {"sensitive_files", "ssh_paths", "automatic_updates"}
    BY AllSeen, ScriptsAsk
  <2>2. QED BY <2>1, AllSeen DEF Judgement, Firewalls
<1>2. /\ "files" \in steady => See("sensitive_files", "files") = host["files"]
      /\ "auto" \in steady => See("automatic_updates", "auto") = host["auto"]
  BY <1>1, AllSeen DEF Succeeded, Answer, Got, Shows
<1>3. \/ /\ r = [check |-> "sensitive_file_permissions", severity |-> "HIGH",
                 facets |-> {"files"}]
         /\ host.files.core = "bad" \/ host.files.sudo = "bad"
      \/ /\ r = [check |-> "automatic_security_updates", severity |-> "MEDIUM",
                 facets |-> {"auto"}]
         /\ host.auto.family # "unknown" /\ host.auto.config = "off"
  BY DEF SteadyRisks, Risks
<1>4. r.facets \subseteq steady
  BY DEF SteadyRisks
<1>5. CASE r.check = "sensitive_file_permissions"
  <2>1. r.severity = "HIGH" /\ SensitiveFiles(See("sensitive_files", "files")) = "HIGH"
    BY <1>2, <1>3, <1>4, <1>5 DEF SensitiveFiles
  <2>2. QED BY <1>1, <1>5, <2>1 DEF Says, HardeningFindings, OnSuccess
<1>6. CASE r.check = "automatic_security_updates"
  <2>1. /\ r.severity = "MEDIUM"
        /\ AutomaticUpdates(See("automatic_updates", "auto")) = "MEDIUM"
    BY <1>2, <1>3, <1>4, <1>6 DEF AutomaticUpdates
  <2>2. QED BY <1>1, <1>6, <2>1 DEF Says, HardeningFindings, OnSuccess
<1>7. QED BY <1>3, <1>5, <1>6

\* The firewall: a backend that did not answer would have been an ERROR.
LEMMA NetworkRisks ==
  ASSUME ServerInv, pc = "done", ~Erred, service = "network", NEW r \in SteadyRisks
  PROVE  Says(r.check, r.severity)
<1> DEFINE states == [b \in Firewalls |-> FirewallState(b)]
<1>1. Finding("firewall_controls", Firewall(states)) \in findings
  BY AllSeen DEF Judgement, NetworkFindings
<1>2. \A b \in Firewalls : states[b] = FirewallState(b)
  OBVIOUS
<1>3. DOMAIN states = Firewalls
  OBVIOUS
<1> HIDE DEF states
<1>4. /\ r.check = "firewall_controls" /\ r.severity = "MEDIUM"
      /\ \A b \in Firewalls : host[b] \in {"absent", "inactive"} /\ b \in steady
      /\ \E b \in Firewalls : host[b] = "inactive"
  BY DEF SteadyRisks, Risks
<1>5. \A b \in Firewalls : Answer(b) => See(b, b) = host[b]
  <2>1. \A b \in Firewalls : b \in Shows[b]
    BY DEF Firewalls, Shows
  <2>2. QED BY <1>4, <2>1, AllSeen DEF Answer, Got
<1>6. \A b \in Firewalls : states[b] \in {"active", "inactive", "unavailable", "unreadable",
                                         "transport-error", "unknown"}
  BY <1>2, FirewallStates
<1>7. Firewall(states) # "PASS"
  <2>1. \A b \in Firewalls : states[b] # "active"
    BY <1>2, <1>4, <1>5, FirewallStates
  <2>2. QED BY <1>3, <1>6, <2>1, FirewallVerdict
<1>8. Firewall(states) # "ERROR"
  BY <1>1, FindingFields DEF Erred
<1>9. Firewall(states) = "MEDIUM"
  BY <1>3, <1>6, <1>7, <1>8, FirewallVerdict
<1>10. QED BY <1>1, <1>4, <1>9 DEF Says

\* Updates: the script has gone as far as the package manager calls for.
LEMMA PackageRisks ==
  ASSUME ServerInv, pc = "done", ~Erred, service = "packages", NEW r \in SteadyRisks
  PROVE  Says(r.check, r.severity)
<1>1. /\ findings = TransportErrors \union PackageFindings
      /\ \A c \in DOMAIN replies : Succeeded(c)
  <2>1. \A c \in DOMAIN replies : c \notin Firewalls
    BY AskedByScript, ScriptsAsk DEF Firewalls, ServerInv
  <2>2. QED BY <2>1, AllSeen DEF Judgement
<1>2. \A c \in DOMAIN replies : \A f \in Shows[c] : f \in steady => See(c, f) = host[f]
  BY <1>1, AllSeen DEF Succeeded
<1>3. r.check = "security_updates" /\ r.severity = "MEDIUM" /\ "manager" \in steady
      /\ \/ "updates" \in steady /\ host.manager = "apt" /\ host.updates.security
         \/ "advisories" \in steady /\ host.manager = "dnf" /\ host.advisories = "some"
  BY DEF SteadyRisks, Risks
<1>4. /\ at > 1 => "package_manager" \in DOMAIN replies
      /\ at > 2 => "pending_updates" \in DOMAIN replies
      /\ at > 3 => "security_advisories" \in DOMAIN replies
  <2>1. /\ at > 1 => 1 \in 1..(at - 1)
        /\ at > 2 => 2 \in 1..(at - 1)
        /\ at > 3 => 3 \in 1..(at - 1)
    BY DEF ServerInv, Progress
  <2>2. /\ Script[service][1] = "package_manager"
        /\ Script[service][2] = "pending_updates"
        /\ Script[service][3] = "security_advisories"
    BY DEF Script
  <2>3. QED BY <2>1, <2>2 DEF ServerInv, Progress
<1>5. "package_manager" \in DOMAIN replies
  BY <1>4, AllSeen
<1>6. /\ Succeeded("package_manager")
      /\ See("package_manager", "manager") = host["manager"]
  BY <1>1, <1>2, <1>3, <1>5 DEF Shows
<1>7. at > 2 /\ (host.manager = "dnf" => at > 3)
  <2>1. at > 1 /\ ~(\E c \in DOMAIN replies : Gone(c))
    BY <1>1, AllSeen DEF Gone, Succeeded, Answer, Got
  <2>2. at = 4 \/ (at = 3 /\ host.manager = "apt")
    BY <2>1, <1>3, <1>6, ScriptLengths DEF ServerInv, Complete, Manager, Succeeded
  <2>3. QED BY <2>2
<1>8. Succeeded("pending_updates") /\ Got("pending_updates")
  BY <1>1, <1>4, <1>7 DEF Succeeded, Answer
<1>9. Got("package_manager")
  BY <1>6 DEF Succeeded, Answer
<1>10. ~(Finding("pending_updates", "ERROR") \in findings)
       /\ ~(Finding("security_updates", "ERROR") \in findings)
  BY FindingFields DEF Erred
<1>11. See("pending_updates", "updates").works
  BY <1>1, <1>3, <1>6, <1>8, <1>9, <1>10 DEF PackageFindings, OnSuccess
<1>12. CASE host.manager = "apt"
  <2>1. See("pending_updates", "updates").security
    BY <1>2, <1>3, <1>4, <1>7, <1>12 DEF Shows
  <2>2. Finding("security_updates", "MEDIUM") \in PackageFindings
    BY <1>6, <1>8, <1>9, <1>11, <1>12, <2>1 DEF PackageFindings, OnSuccess
  <2>3. QED BY <1>1, <1>3, <2>2 DEF Says
<1>13. CASE host.manager = "dnf"
  <2>1. /\ See("security_advisories", "advisories") = "some"
        /\ Succeeded("security_advisories")
    BY <1>1, <1>2, <1>3, <1>4, <1>7, <1>13 DEF Shows
  <2>2. Finding("security_updates", "MEDIUM") \in PackageFindings
    BY <1>6, <1>8, <1>9, <1>11, <1>13, <2>1 DEF PackageFindings, OnSuccess
  <2>3. QED BY <1>1, <1>3, <2>2 DEF Says
<1>14. QED BY <1>3, <1>12, <1>13

\* Units of remote access.
LEMMA ServiceRisks ==
  ASSUME ServerInv, pc = "done", ~Erred, service = "services", NEW r \in SteadyRisks
  PROVE  Says(r.check, r.severity)
<1>1. findings = TransportErrors \union ServiceFindings /\ Succeeded("service_inventory")
  <2>1. DOMAIN replies = {"service_inventory"}
    BY AllSeen, ScriptsAsk
  <2>2. QED BY <2>1, AllSeen DEF Judgement, Firewalls
<1>2. /\ r.check = "legacy_remote_access" /\ r.severity = "HIGH"
      /\ "units" \in steady /\ "systemctl" \in steady
      /\ host["systemctl"] /\ "telnet.socket" \in host["units"]
  BY DEF SteadyRisks, Risks
<1>3. /\ See("service_inventory", "systemctl") = host["systemctl"]
      /\ See("service_inventory", "units") = host["units"]
  BY <1>1, <1>2, AllSeen DEF Succeeded, Answer, Got, Shows
<1>4. QED BY <1>1, <1>2, <1>3 DEF Says, ServiceFindings, OnSuccess

\* The effective configuration.
LEMMA SshdRisks ==
  ASSUME ServerInv, pc = "done", ~Erred, service = "sshd", NEW r \in SteadyRisks
  PROVE  Says(r.check, r.severity)
<1>1. findings = TransportErrors \union SshdFindings /\ Succeeded("effective_config")
  <2>1. DOMAIN replies = {"effective_config"}
    BY AllSeen, ScriptsAsk
  <2>2. QED BY <2>1, AllSeen DEF Judgement, Firewalls
<1>2. /\ r.check = "gateway_ports" /\ r.severity = "MEDIUM" /\ "sshdT" \in steady
      /\ host["sshdT"].is = "shown" /\ host["sshdT"].gateway = "risky"
  BY DEF SteadyRisks, Risks
<1>3. See("effective_config", "sshdT") = host["sshdT"]
  BY <1>1, <1>2, AllSeen DEF Succeeded, Answer, Got, Shows
<1>4. Setting(See("effective_config", "sshdT").gateway) = "MEDIUM"
  BY <1>2, <1>3 DEF Setting
<1>5. QED BY <1>1, <1>2, <1>3, <1>4 DEF Says, SshdFindings, OnSuccess

\* An expired certificate, whatever the other ports did.
LEMMA TlsRisks ==
  ASSUME ServerInv, pc = "done", ~Erred, service = "tls", NEW r \in SteadyRisks
  PROVE  Says(r.check, r.severity)
<1>1. findings = TransportErrors \union TlsFindings /\ Succeeded("certificate_inventory")
  <2>1. DOMAIN replies = {"certificate_inventory"}
    BY AllSeen, ScriptsAsk
  <2>2. QED BY <2>1, AllSeen DEF Judgement, Firewalls
<1>2. /\ r.check = "certificate_expiry" /\ r.severity = "HIGH"
      /\ "tls" \in steady /\ "tlsTools" \in steady /\ host["tlsTools"]
      /\ \E p \in DOMAIN host["tls"] : host["tls"][p] = "expired"
  BY DEF SteadyRisks, Risks
<1>3. /\ See("certificate_inventory", "tls") = host["tls"]
      /\ See("certificate_inventory", "tlsTools") = host["tlsTools"]
  BY <1>1, <1>2, AllSeen DEF Succeeded, Answer, Got, Shows
<1> DEFINE ports == {See("certificate_inventory", "tls")[p] :
                       p \in DOMAIN See("certificate_inventory", "tls")}
<1>4. "expired" \in ports \ NoCertificate
  BY <1>2, <1>3 DEF NoCertificate
<1>5. CertificateExpiry("expired") = "HIGH"
  BY DEF CertificateExpiry
<1>6. Finding("certificate_expiry", "HIGH") \in
        {Finding("certificate_expiry", CertificateExpiry(c)) : c \in ports \ NoCertificate}
  BY <1>4, <1>5
<1>7. Finding("certificate_expiry", "HIGH") \in TlsFindings
  BY <1>1, <1>2, <1>3, <1>4, <1>6 DEF TlsFindings, OnSuccess
<1>8. QED BY <1>1, <1>2, <1>7 DEF Says

-----------------------------------------------------------------------------
(* Types                                                                   *)

\* A finding of this scanner, with a severity there is.
Graded(f) == f.service = service /\ f.severity \in Severities

\* A finding is graded when its severity is one.
LEMMA GradedFinding ==
  ASSUME NEW check, NEW s \in Severities
  PROVE  Graded(Finding(check, s))
BY DEF Graded, Finding

\* OnSuccess yields an ERROR, or what the check found.
LEMMA GradedOnSuccess ==
  ASSUME NEW c, NEW check, NEW found, Succeeded(c) => \A f \in found : Graded(f)
  PROVE  \A f \in OnSuccess(c, check, found) : Graded(f)
BY GradedFinding DEF OnSuccess, Severities

\* A succeeded command has shown states of the host.
LEMMA SeenStates ==
  ASSUME ServerInv, NEW c, Answer(c)
  PROVE  \A f \in Shows[c] : See(c, f) \in HostStates[f]
BY DEF ServerInv, Truth, Truthful, Answer, Got

\* The checks have a severity for whatever they are shown.
LEMMA PlainSeverities ==
  /\ \A p : DuplicateUids(p) \in Severities /\ UidZero(p) \in Severities
  /\ \A p, x : SystemLogins(p, x) \in Severities /\ PrivilegedGroups(p, x) \in Severities
  /\ \A x : BroadSudo(x) \in Severities /\ SudoReadability(x) \in Severities
  /\ \A x, k : PamRule(x, k) \in Severities
  /\ \A x : PamVisibility(x) \in Severities /\ ConnectedPassword(x) \in Severities
  /\ \A p, x, y : EmptyPasswords(p, x, y) \in Severities
  /\ \A x : \A k \in DOMAIN DirectiveSeverity : Directive(x, k) \in Severities
  /\ \A x : DockerSocket(x) \in Severities /\ Listening(x) \in Severities
  /\ \A x : Firewall(x) \in Severities
  /\ \A x : SensitiveFiles(x) \in Severities /\ AutomaticUpdates(x) \in Severities
  /\ \A x : WeakCrypto(x) \in Severities
<1>1. \A p : DuplicateUids(p) \in Severities /\ UidZero(p) \in Severities
  BY DEF DuplicateUids, UidZero, Severities
<1>2. \A p, x : SystemLogins(p, x) \in Severities /\ PrivilegedGroups(p, x) \in Severities
  BY DEF SystemLogins, PrivilegedGroups, Severities
<1>3. \A x : BroadSudo(x) \in Severities /\ SudoReadability(x) \in Severities
  BY DEF BroadSudo, SudoReadability, Severities
<1>4. \A x, k : PamRule(x, k) \in Severities
  BY DEF PamRule, Severities
<1>5. \A x : PamVisibility(x) \in Severities /\ ConnectedPassword(x) \in Severities
  BY DEF PamVisibility, ConnectedPassword, Severities
<1>6. \A p, x, y : EmptyPasswords(p, x, y) \in Severities
  BY DEF EmptyPasswords, Severities
<1>7. \A x : \A k \in DOMAIN DirectiveSeverity : Directive(x, k) \in Severities
  BY DEF Directive, DirectiveSeverity, Severities
<1>8. \A x : DockerSocket(x) \in Severities /\ Listening(x) \in Severities
  BY DEF DockerSocket, Listening, Severities
<1>9. \A x : Firewall(x) \in Severities
  BY DEF Firewall, Severities
<1>10. \A x : SensitiveFiles(x) \in Severities /\ AutomaticUpdates(x) \in Severities
  BY DEF SensitiveFiles, AutomaticUpdates, Severities
<1>11. \A x : WeakCrypto(x) \in Severities
  BY DEF WeakCrypto, Severities
<1>12. QED
  BY <1>1, <1>2, <1>3, <1>4, <1>5, <1>6, <1>7, <1>8, <1>9, <1>10, <1>11

\* Findings are the scanner's own, with severities there are.
LEMMA JudgementIsGraded ==
  ASSUME ServerInv
  PROVE  \A f \in Judgement : Graded(f)
<1>1. {"PASS", "INFO", "MEDIUM", "HIGH", "ERROR"} \subseteq Severities
  BY DEF Severities
<1>2. \A f \in AccountFindings : Graded(f)
  <2>1. \A f \in OnSuccess("account_inventory", "account_inventory",
              {Finding("duplicate_uids", DuplicateUids(Inventory)),
               Finding("system_login_shells",
                       SystemLogins(Inventory, See("account_inventory", "shells")))}) : Graded(f)
    BY GradedOnSuccess, GradedFinding, PlainSeverities
  <2>2. \A f \in OnSuccess("privileged_groups", "privileged_groups",
              {Finding("privileged_groups",
                       PrivilegedGroups(Inventory, See("privileged_groups", "groups")))}) :
          Graded(f)
    BY GradedOnSuccess, GradedFinding, PlainSeverities
  <2>3. \A f \in OnSuccess("sudoers", "sudoers_readability",
              {Finding("broad_nopasswd_sudo", BroadSudo(See("sudoers", "sudoers"))),
               Finding("sudoers_readability", SudoReadability(See("sudoers", "sudoers")))}) :
          Graded(f)
    BY GradedOnSuccess, GradedFinding, PlainSeverities
  <2>4. QED BY <2>1, <2>2, <2>3 DEF AccountFindings
<1>3. \A f \in AuthFindings : Graded(f)
  <2>1. \A pam : \A f \in OnSuccess("pam_policy", "pam_policy",
              {Finding("pam_permit_auth", PamRule(pam, "permit")),
               Finding("pam_null_passwords", PamRule(pam, "nullok")),
               Finding("pam_policy_visibility", PamVisibility(pam))}) : Graded(f)
    BY GradedOnSuccess, GradedFinding, PlainSeverities
  <2>2. \A x, p, y, z : \A f \in OnSuccess("account_state", "account_state",
              {Finding("connected_password_state", ConnectedPassword(x)),
               Finding("empty_password_accounts", EmptyPasswords(p, y, z)),
               Finding("shadow_visibility", "INFO")}) : Graded(f)
    BY <1>1, GradedOnSuccess, GradedFinding, PlainSeverities
  <2>3. QED BY <2>1, <2>2 DEF AuthFindings
<1>4. \A f \in BaselineFindings : Graded(f)
  <2>1. Answer("ssh_config_mode") =>
          ConfigPermissions(See("ssh_config_mode", "sshConfig").mode) \in Severities
    <3>1. SUFFICES ASSUME Answer("ssh_config_mode")
                   PROVE  ConfigPermissions(See("ssh_config_mode", "sshConfig").mode)
                            \in Severities
      OBVIOUS
    <3>2. See("ssh_config_mode", "sshConfig").mode \in {"world", "group", "strict", "unseen"}
      BY <3>1, SeenStates, ReadingsAssumption DEF Shows
    <3>3. QED BY <3>2 DEF ConfigPermissions, Severities
  <2>2. QED BY <1>1, <2>1, GradedFinding, PlainSeverities DEF BaselineFindings
<1>5. \A f \in HardeningFindings : Graded(f)
  <2>1. Succeeded("ssh_paths") => SshPaths(See("ssh_paths", "home")) \in Severities
    <3>1. SUFFICES ASSUME Succeeded("ssh_paths")
                   PROVE  SshPaths(See("ssh_paths", "home")) \in Severities
      OBVIOUS
    <3>2. See("ssh_paths", "home") \in {"bad", "unseen", "good"}
      BY <3>1, SeenStates, ReadingsAssumption DEF Shows, Succeeded
    <3>3. QED BY <3>2 DEF SshPaths, Severities
  <2>2. \A f \in OnSuccess("ssh_paths", "ssh_key_permissions",
            {Finding("ssh_key_permissions", SshPaths(See("ssh_paths", "home")))}) : Graded(f)
    BY <2>1, GradedOnSuccess, GradedFinding
  <2>3. \A x : \A f \in OnSuccess("sensitive_files", "sensitive_file_permissions",
            {Finding("sensitive_file_permissions", SensitiveFiles(x))}) : Graded(f)
    BY GradedOnSuccess, GradedFinding, PlainSeverities
  <2>4. \A x : \A f \in OnSuccess("automatic_updates", "automatic_security_updates",
            {Finding("automatic_security_updates", AutomaticUpdates(x))}) : Graded(f)
    BY GradedOnSuccess, GradedFinding, PlainSeverities
  <2>5. QED BY <2>2, <2>3, <2>4 DEF HardeningFindings
<1>6. \A f \in NetworkFindings : Graded(f)
  <2>1. \A x : \A f \in OnSuccess("listening_sockets", "listening_sockets",
            {Finding("listening_sockets", Listening(x))}) : Graded(f)
    BY GradedOnSuccess, GradedFinding, PlainSeverities
  <2>2. \A x : Graded(Finding("firewall_controls", Firewall(x)))
    BY GradedFinding, PlainSeverities
  <2>3. QED BY <2>1, <2>2 DEF NetworkFindings
<1>7. \A f \in PackageFindings : Graded(f)
  BY <1>1, GradedFinding DEF PackageFindings, OnSuccess
<1>8. \A f \in ServiceFindings : Graded(f)
  BY <1>1, GradedFinding DEF ServiceFindings, OnSuccess
<1>9. \A f \in SshdFindings : Graded(f)
  <2> DEFINE shown == See("effective_config", "sshdT")
  <2>1. \A v \in {"risky", "fine", "unset"} : Setting(v) \in Severities
    BY DEF Setting, Severities
  <2>2. Succeeded("effective_config") =>
          {shown.strict, shown.gateway, shown.environment, shown.hosts}
            \subseteq {"risky", "fine", "unset"}
    BY SeenStates, ReadingsAssumption DEF Shows, Succeeded
  <2>3. QED
    BY <1>1, <2>1, <2>2, GradedFinding, PlainSeverities DEF SshdFindings, OnSuccess
<1>10. \A f \in TlsFindings : Graded(f)
  <2> DEFINE shown == See("certificate_inventory", "tls")
             ports == {shown[p] : p \in DOMAIN shown}
  <2>1. \A v \in {"expired", "soon", "fine", "undated"} : CertificateExpiry(v) \in Severities
    BY DEF CertificateExpiry, Severities
  <2>2. Succeeded("certificate_inventory") =>
          ports \ NoCertificate \subseteq {"expired", "soon", "fine", "undated"}
    BY SeenStates, ReadingsAssumption DEF Shows, Succeeded
  <2>3. QED
    BY <1>1, <2>1, <2>2, GradedFinding DEF TlsFindings, OnSuccess
<1>11. service \in {"accounts", "auth", "baseline", "hardening", "network", "packages",
                    "services", "sshd", "tls"}
  BY ServiceNames DEF ServerInv, Progress
<1>12. QED
  BY <1>2, <1>3, <1>4, <1>5, <1>6, <1>7, <1>8, <1>9, <1>10, <1>11 DEF Judgement

-----------------------------------------------------------------------------
(* The theorems                                                            *)

\* Every reply is of the script, and every finding the scanner's own.
THEOREM ServerTypes == Spec => []TypeOK
<1>1. ServerInv => TypeOK
  <2> SUFFICES ASSUME ServerInv PROVE TypeOK
    OBVIOUS
  <2>1. HostOK(host) /\ steady \subseteq Facets /\ changes \in 0..MaxChanges
    BY BoundsAssumption DEF ServerInv, HostTypes
  <2>2. /\ service \in Services /\ pc \in {"probe", "inspect", "judge", "done"}
        /\ at \in 1..(Len(Script[service]) + 1)
        /\ pc = "inspect" => at <= Len(Script[service])
        /\ DOMAIN replies = {Script[service][i] : i \in 1..(at - 1)}
    BY LengthType DEF ServerInv, Progress
  <2>3. \A c \in DOMAIN replies : Answer(c) => DOMAIN replies[c].show = Shows[c]
    BY DEF ServerInv, Truth, Truthful
  <2>4. \A f \in findings : Graded(f)
    <3>1. \A f \in TransportErrors : Graded(f)
      BY GradedFinding DEF TransportErrors, Errors, Severities
    <3>2. \A f \in Judgement : Graded(f)
      BY JudgementIsGraded
    <3>3. \A check : Graded(Finding(check, "ERROR"))
      BY GradedFinding DEF Severities
    <3>4. QED BY <3>1, <3>2, <3>3 DEF ServerInv, Judged
  <2>5. QED BY <2>1, <2>2, <2>3, <2>4 DEF TypeOK, Graded
<1>2. QED BY ServerInvariant, <1>1, PTL

\* A command that was lost or failed shows in the coverage.
THEOREM TroubleIsShown == Spec => []TroubleShows
<1>1. ServerInv => TroubleShows
  <2> SUFFICES ASSUME ServerInv, pc = "done", replies # <<>>, NEW c \in Troubled
               PROVE  \/ Erred
                      \/ service = "baseline" /\ replies[c].how = "failed"
                      \/ /\ c \in Firewalls
                         /\ \E b \in Firewalls \ {c} : Answer(b) /\ See(b, b) = "active"
    BY DEF TroubleShows
  <2>1. c \in DOMAIN replies /\ ~Answer(c) /\ ~Succeeded(c)
    BY DEF Troubled, Answer, Succeeded
  <2>2. at > 1 /\ findings = TransportErrors \union Judgement
    BY DEF ServerInv, Progress, Judged
  <2>3. CASE service # "baseline" /\ c \notin Firewalls
    BY <2>1, <2>2, <2>3, FailureIsFound
  <2>4. CASE service = "baseline"
    <3>1. replies[c].how \in {"lost", "failed"}
      BY <2>1 DEF ServerInv, Truth, Truthful, Troubled
    <3>2. c \notin Firewalls
      BY <2>1, <2>4, AskedByScript, ScriptsAsk DEF Firewalls, ServerInv
    <3>3. Gone(c) => Finding(c, "ERROR") \in findings
      BY <2>1, <2>2, <3>2 DEF TransportErrors, Errors
    <3>4. QED BY <2>1, <2>4, <3>1, <3>3, FindingFields DEF Gone, Erred
  <2>5. CASE c \in Firewalls
    <3> DEFINE states == [b \in Firewalls |-> FirewallState(b)]
    <3>1. service = "network"
      <4>1. c \in CommandsOf(service) /\ service \in Services
        BY <2>1, AskedByScript DEF ServerInv, Progress
      <4>2. QED BY <4>1, <2>5, ScriptsAsk, ServiceNames DEF Firewalls
    <3>2. Finding("firewall_controls", Firewall(states)) \in findings
      BY <2>2, <3>1 DEF Judgement, NetworkFindings
    <3>3. \A b \in Firewalls : states[b] = FirewallState(b)
      OBVIOUS
    <3>4. states[c] \notin {"active", "inactive", "unavailable"}
      BY <2>1, <2>5, <3>3, FirewallStates
    <3>5. \A b \in Firewalls : states[b] \in {"active", "inactive", "unavailable", "unreadable",
                                             "transport-error", "unknown"}
      BY <3>3, FirewallStates
    <3>6. DOMAIN states = Firewalls
      OBVIOUS
    <3> HIDE DEF states
    <3>7. CASE Firewall(states) = "PASS"
      <4>1. PICK b \in Firewalls : states[b] = "active"
        BY <3>5, <3>6, <3>7, FirewallVerdict
      <4>2. b # c /\ Answer(b) /\ See(b, b) = "active"
        BY <4>1, <3>3, <3>4, FirewallStates
      <4>3. QED BY <4>2, <2>5
    <3>8. CASE Firewall(states) # "PASS"
      <4>1. Firewall(states) = "ERROR"
        BY <2>5, <3>4, <3>5, <3>6, <3>8, FirewallVerdict
      <4>2. QED BY <4>1, <3>2, FindingFields DEF Erred
    <3>9. QED BY <3>7, <3>8
  <2>6. QED BY <2>3, <2>4, <2>5
<1>2. QED BY ServerInvariant, <1>1, PTL

\* What the scan says of the firewall holds of the four backends it asked in turn.
THEOREM FirewallVerdictEarned == Spec => []FirewallVerdictIsEarned
<1>1. ServerInv => FirewallVerdictIsEarned
  <2> SUFFICES ASSUME ServerInv, pc = "done", service = "network"
               PROVE  FirewallVerdictIsEarned
    BY DEF FirewallVerdictIsEarned
  <2> DEFINE states == [b \in Firewalls |-> FirewallState(b)]
  <2>1. CASE at = 1
    <3>1. PICK check \in ProbeErrors : findings = {Finding(check, "ERROR")}
      BY <2>1 DEF ServerInv, Judged
    <3>2. ~Says("firewall_controls", "MEDIUM") /\ ~Says("firewall_controls", "PASS")
      BY <3>1, FindingFields DEF Says
    <3>3. \A b : ~Answer(b)
      BY <2>1 DEF ServerInv, Progress, Answer, Got
    <3>4. QED BY <3>2, <3>3 DEF FirewallVerdictIsEarned
  <2>2. CASE at # 1
    <3>1. findings = TransportErrors \union NetworkFindings
      BY <2>2 DEF ServerInv, Judged, Judgement
    <3>2. \A s : s # "ERROR" => (Says("firewall_controls", s) <=> Firewall(states) = s)
      <4>1. TAKE s
      <4>2. \A f \in TransportErrors : f.severity = "ERROR"
        BY FindingFields DEF TransportErrors, Errors
      <4>3. \A f \in NetworkFindings :
              f.check = "firewall_controls" => f.severity \in {"ERROR", Firewall(states)}
        BY FindingFields DEF NetworkFindings, OnSuccess
      <4>4. Finding("firewall_controls", Firewall(states)) \in NetworkFindings
        BY DEF NetworkFindings
      <4> HIDE DEF states
      <4>5. QED BY <3>1, <4>2, <4>3, <4>4, FindingFields DEF Says
    <3>3. \A b \in Firewalls : states[b] = FirewallState(b)
      OBVIOUS
    <3>4. DOMAIN states = Firewalls
      OBVIOUS
    <3> HIDE DEF states
    <3>5. \A b \in Firewalls :
            /\ states[b] = "active" <=> Answer(b) /\ See(b, b) = "active"
            /\ states[b] = "inactive" <=> Answer(b) /\ See(b, b) = "inactive"
            /\ states[b] = "unavailable" <=> Answer(b) /\ See(b, b) = "absent"
            /\ states[b] \in {"active", "inactive", "unavailable", "unreadable",
                              "transport-error", "unknown"}
      BY <3>3, FirewallStates
    <3>6. \A b \in Firewalls : Answer(b) /\ b \in steady => See(b, b) = host[b]
      <4>1. \A b \in Firewalls : b \in Shows[b]
        BY DEF Firewalls, Shows
      <4>2. \A b : Answer(b) => b \in DOMAIN replies
        BY DEF Answer, Got
      <4>3. QED BY <4>1, <4>2 DEF ServerInv, Truth, Truthful
    <3>7. /\ Firewall(states) = "PASS" <=> \E b \in Firewalls : states[b] = "active"
          /\ Firewall(states) = "MEDIUM" =>
               \A b \in Firewalls : states[b] \in {"inactive", "unavailable"}
      BY <3>4, <3>5, FirewallVerdict
    <3>8. Says("firewall_controls", "MEDIUM") =>
            \A b \in Firewalls :
              Answer(b) /\ (b \in steady => host[b] \in {"absent", "inactive"})
      BY <3>2, <3>5, <3>6, <3>7
    <3>9. Says("firewall_controls", "PASS") =>
            \E b \in Firewalls : Answer(b) /\ (b \in steady => host[b] = "active")
      BY <3>2, <3>5, <3>6, <3>7
    <3>10. (\E b \in Firewalls \intersect steady : Answer(b) /\ host[b] = "active")
             => Says("firewall_controls", "PASS")
      BY <3>2, <3>5, <3>6, <3>7
    <3>11. QED BY <3>8, <3>9, <3>10 DEF FirewallVerdictIsEarned
  <2>3. QED BY <2>1, <2>2
<1>2. QED BY ServerInvariant, <1>1, PTL

\* A scan without ERROR findings has reported every risk nobody touched meanwhile.
THEOREM SteadyRisksReported == Spec => []SteadyRiskIsReported
<1>1. ServerInv => SteadyRiskIsReported
  <2> SUFFICES ASSUME ServerInv, pc = "done", ~Erred,
                      service = "baseline" => Troubled = {}, NEW r \in SteadyRisks
               PROVE  \/ Says(r.check, r.severity)
                      \/ r.check = "docker_socket_permissions" /\ ~host.dockerSocket.visible
    BY DEF SteadyRiskIsReported
  <2>1. service \in {"accounts", "auth", "baseline", "hardening", "network", "packages",
                     "services", "sshd", "tls"}
    BY ServiceNames DEF ServerInv, Progress
  <2>2. QED
    BY <2>1, AccountRisks, AuthRisks, BaselineRisks, HardeningRisks, NetworkRisks,
       PackageRisks, ServiceRisks, SshdRisks, TlsRisks
<1>2. QED BY ServerInvariant, <1>1, PTL

-----------------------------------------------------------------------------
(* Two findings that the risk engine puts together                         *)

\* An answer to one of the auth scanner's commands is a success: neither of them ends
\* with a test.
AuthExits == service = "auth" => \A c \in DOMAIN replies : Answer(c) => replies[c].rc = 0

\* The auth scanner's commands succeed when they answer.
LEMMA AuthAnswersSucceed == Spec => []AuthExits
<1>1. Init => AuthExits
  <2>1. Init => DOMAIN replies = {}
    BY DEF Init
  <2>2. QED BY <2>1 DEF AuthExits
<1>2. ASSUME ServerInv, AuthExits, [Next]_vars PROVE AuthExits'
  <2>1. ASSUME NEW c, Run(c), service = "auth" PROVE AuthExits'
    <3>1. at \in {1, 2} /\ c = Script["auth"][at]
      BY <1>2, <2>1, ScriptLengths DEF Run, ServerInv, Progress
    <3>2. c \in {"pam_policy", "account_state"}
      BY <3>1 DEF Script
    <3>3. ExitStatus(c, host) = 0
      BY <3>2 DEF ExitStatus, Firewalls
    <3>4. PICK r \in {Lost, Failed, Answered(c)} :
            replies' = [d \in DOMAIN replies \union {c} |-> IF d = c THEN r ELSE replies[d]]
      BY <2>1 DEF Run
    <3>5. r.how = "answered" => r.rc = 0
      BY <3>3, <3>4 DEF Lost, Failed, Answered
    <3>6. QED BY <1>2, <2>1, <3>4, <3>5 DEF AuthExits, Answer, Got, Run
  <2>2. ASSUME NEW c, Run(c), service # "auth" PROVE AuthExits'
    BY <2>2 DEF Run, AuthExits
  <2>3. Probe \/ Judge \/ Others \/ UNCHANGED vars => UNCHANGED <<service, replies>>
    BY DEF Probe, Judge, Others, scanVars, vars
  <2>4. UNCHANGED <<service, replies>> => AuthExits'
    BY <1>2 DEF AuthExits, Answer, Got
  <2>5. QED BY <1>2, <2>1, <2>2, <2>3, <2>4 DEF Next
<1>3. QED BY <1>1, <1>2, ServerInvariant, PTL DEF Spec

\* A set of six is finite.
LEMMA FiniteSix ==
  ASSUME NEW a, NEW b, NEW c, NEW d, NEW e, NEW f
  PROVE  IsFiniteSet({a, b, c} \union {d, e, f})
<1>1. \A x, y : IsFiniteSet({x} \union {y})
  BY FS_Singleton, FS_Union
<1>2. \A x, y, z : IsFiniteSet(({x} \union {y}) \union {z})
  BY <1>1, FS_Singleton, FS_Union
<1>3. IsFiniteSet((({a} \union {b}) \union {c}) \union (({d} \union {e}) \union {f}))
  BY <1>2, FS_Union
<1>4. {a, b, c} \union {d, e, f}
        = (({a} \union {b}) \union {c}) \union (({d} \union {e}) \union {f})
  OBVIOUS
<1>5. QED BY <1>3, <1>4

\* A scan of the authentication settings in which every command answered has its six
\* findings, and two of them are the path's when the path was there all along.
LEMMA PathIsSeen ==
  ASSUME ServerInv, AuthExits, pc = "done", service = "auth", replies # <<>>, Troubled = {},
         {"pam", "passwd", "shells", "shadow"} \subseteq steady,
         \E f \in host.pam : f.readable /\ f.nullok,
         host.shadow.readable, host.shadow.empty # {}
  PROVE  /\ IsFiniteSet(findings)
         /\ \E hard \in {"HIGH", "MEDIUM"} :
              {Finding("pam_null_passwords", "HIGH"), Finding("empty_password_accounts", hard)}
                \subseteq findings
<1>1. at > 1 /\ findings = TransportErrors \union AuthFindings
  BY DEF ServerInv, Progress, Judged, Judgement
<1>2. \A c \in DOMAIN replies : Answer(c) /\ ~Gone(c)
  BY DEF Troubled, Answer, Got, Gone
<1>3. DOMAIN replies = {"pam_policy", "account_state"}
  <2>1. at = Len(Script[service]) + 1
    BY <1>1, <1>2 DEF ServerInv, Complete
  <2>2. QED BY <2>1, AskedByScript, ScriptsAsk DEF ServerInv
<1>4. Succeeded("pam_policy") /\ Succeeded("account_state")
  BY <1>2, <1>3 DEF Succeeded, AuthExits
<1>5. TransportErrors = {}
  BY <1>2 DEF TransportErrors, Errors
<1>6. /\ See("pam_policy", "pam") = host.pam
      /\ See("account_state", "shadow") = host.shadow
  BY <1>2, <1>3 DEF ServerInv, Truth, Truthful, Shows
<1> DEFINE pam == See("pam_policy", "pam")
           of(f) == See("account_state", f)
           hard == EmptyPasswords(of("passwd"), of("shells"), of("shadow"))
           first == {Finding("pam_permit_auth", PamRule(pam, "permit")),
                     Finding("pam_null_passwords", PamRule(pam, "nullok")),
                     Finding("pam_policy_visibility", PamVisibility(pam))}
           second == {Finding("connected_password_state", ConnectedPassword(of("self"))),
                      Finding("empty_password_accounts", hard),
                      Finding("shadow_visibility", "INFO")}
<1>7. findings = first \union second
  BY <1>1, <1>4, <1>5 DEF AuthFindings, OnSuccess
<1>8. IsFiniteSet(findings)
  BY <1>7, FiniteSix
<1>9. PamRule(pam, "nullok") = "HIGH" /\ hard \in {"HIGH", "MEDIUM"}
  BY <1>6 DEF PamRule, EmptyPasswords
<1>10. {Finding("pam_null_passwords", "HIGH"), Finding("empty_password_accounts", hard)}
         \subseteq findings
  BY <1>7, <1>9
<1> HIDE DEF hard
<1>11. QED BY <1>8, <1>9, <1>10

\* Two findings that lie in a set make a correlation of the list of the set.
LEMMA PathIsCorrelated ==
  ASSUME service = "auth", IsFiniteSet(findings), NEW hard \in {"HIGH", "MEDIUM"},
         {Finding("pam_null_passwords", "HIGH"), Finding("empty_password_accounts", hard)}
           \subseteq findings
  PROVE  \E c \in Risk!ResourceCorrelations(SetToSeq(findings)) :
           c.rule = "empty_password_with_pam_nullok"
<1> DEFINE fs == SetToSeq(findings)
           nullok == Finding("pam_null_passwords", "HIGH")
           empty == Finding("empty_password_accounts", hard)
           rule == [rule |-> "empty_password_with_pam_nullok", service |-> "auth", points |-> 20,
                    needs |-> {"empty_password_accounts", "pam_null_passwords"}]
<1>1. Risk!ToSet(fs) = findings
  BY ListOfSet DEF ToSet, Risk!ToSet
<1> HIDE DEF fs
<1>2. {nullok, empty} \subseteq Risk!Actionable(fs)
  BY <1>1 DEF Risk!Actionable, Risk!SeverityWeights, Finding
<1>3. /\ nullok.service = service /\ nullok.resource = "host"
      /\ nullok.check = "pam_null_passwords"
      /\ empty.service = service /\ empty.resource = "host"
      /\ empty.check = "empty_password_accounts"
  BY DEF Finding
<1> HIDE DEF nullok, empty
<1>4. {"empty_password_accounts", "pam_null_passwords"} \subseteq Risk!ChecksAt(fs, service, "host")
  BY <1>2, <1>3 DEF Risk!ChecksAt
<1>5. rule \in Risk!ResourceRules
  <2>1. 1 \in DOMAIN Risk!RuleList /\ Risk!RuleList[1] = rule
    BY DEF Risk!RuleList
  <2>2. Risk!ResourceRules = {Risk!RuleList[k] : k \in DOMAIN Risk!RuleList}
    BY DEF Risk!ResourceRules, Risk!ToSet
  <2> HIDE DEF rule
  <2>3. QED
    BY <2>1, <2>2
<1>6. rule.rule = "empty_password_with_pam_nullok" /\ rule.service = "auth"
      /\ rule.needs = {"empty_password_accounts", "pam_null_passwords"}
  OBVIOUS
<1> HIDE DEF rule
<1> DEFINE found == [rule |-> rule.rule, points |-> rule.points, resources |-> {"host"}]
<1>7. "host" \in {f.resource : f \in Risk!Actionable(fs)}
  BY <1>2, <1>3
<1>8. found \in Risk!ResourceCorrelations(fs)
  <2> DEFINE At(res) ==
               {[rule |-> r.rule, points |-> r.points, resources |-> {res}] :
                  r \in {q \in Risk!ResourceRules :
                           q.needs \subseteq Risk!ChecksAt(fs, q.service, res)}}
  <2>1. rule.needs \subseteq Risk!ChecksAt(fs, rule.service, "host")
    BY <1>4, <1>6
  <2>2. found \in At("host")
    BY <1>5, <2>1
  <2>3. Risk!ResourceCorrelations(fs)
          = UNION {At(res) : res \in {f.resource : f \in Risk!Actionable(fs)}}
    BY DEF Risk!ResourceCorrelations
  <2> HIDE DEF At
  <2>4. QED BY <1>7, <2>2, <2>3
<1>9. found.rule = "empty_password_with_pam_nullok"
  BY <1>6
<1> HIDE DEF found
<1>10. QED BY <1>8, <1>9 DEF fs

\* The empty password and the PAM path that accepts it are reported by two commands and
\* put together by the risk engine, whatever else changed between the two.
THEOREM PasswordPathIsCorrelated == Spec => []EmptyPasswordPathIsCorrelated
<1>1. ServerInv /\ AuthExits => EmptyPasswordPathIsCorrelated
  <2> SUFFICES ASSUME ServerInv, AuthExits, pc = "done", service = "auth", replies # <<>>,
                      Troubled = {}, {"pam", "passwd", "shells", "shadow"} \subseteq steady,
                      \E f \in host.pam : f.readable /\ f.nullok,
                      host.shadow.readable, host.shadow.empty # {}
               PROVE  \E c \in Risk!ResourceCorrelations(SetToSeq(findings)) :
                        c.rule = "empty_password_with_pam_nullok"
    BY DEF EmptyPasswordPathIsCorrelated
  <2>1. QED BY PathIsSeen, PathIsCorrelated
<1>2. QED BY <1>1, ServerInvariant, AuthAnswersSucceed, PTL
=============================================================================
