----------------------------- MODULE Inventory -----------------------------
(***************************************************************************)
(* What the AWS, Docker daemon, Dockerfile and live Kubernetes scanners    *)
(* look at, and the calls they look through.  All of them take a list of   *)
(* resources first and ask for more about each one later, while others     *)
(* create, change and delete the resources.                                *)
(*                                                                         *)
(* A resource is a key <<kind, name>>.  A call is a record of an operation,*)
(* the key it names, an argument (a key id, a policy name, a version) and  *)
(* the key of the resource it is made for.  An identity with managed       *)
(* policies asks for the policies' keys, hence "by".                       *)
(***************************************************************************)
EXTENDS Integers, Sequences, FiniteSets, SequencesExt

CONSTANTS
  Worlds,        \* for every service, the worlds a scan of it may start in
  Values(_),     \* the states others may bring the resource of a key into
  SecondPage,    \* the names that come on the second page of a long list
  MaxChanges,    \* bound: resources that others change during a scan
  MaxTrouble     \* bound: calls that fail for another reason than a missing resource

ASSUME BoundsAssumption == MaxChanges \in Nat /\ MaxTrouble \in Nat

Gone == [gone |-> TRUE]

Kubectl == {"cluster", "admission"}
Aws == {"s3", "cloudtrail", "guardduty", "ec2", "rds", "lambda", "iam"}

\* The resources that a scanner looks at, by their kinds.
Kinds ==
  [s3 |-> {"bucket"}, cloudtrail |-> {"trail"}, guardduty |-> {"detector"},
   ec2 |-> {"securityGroup"}, rds |-> {"database"}, lambda |-> {"function"},
   iam |-> {"root", "user", "group", "role", "policy"},
   daemon |-> {"container"}, dockerfile |-> {"dockerfile"}, manifest |-> {"manifest"},
   cluster |-> {"context", "pods", "services"},
   admission |-> {"context", "namespaces", "pods", "validatingwebhooks", "mutatingwebhooks"}]

Context == <<"context", "kubeconfig">>
Root == <<"root", "root">>

\* The inline policies, versions, keys or items of one resource have different names.
ByName(parts) == IsFiniteSet(parts) /\ \A d, e \in parts : d.name = e.name => d = e

\* What the state of a resource in a world w is like, as far as it matters here.
StateOK(w, k, v) ==
  /\ k[1] = "bucket" => v.pab \in {"all", "part", "none"}
  /\ k[1] = "securityGroup" => \A r \in v.rules : r.from \in Int /\ r.to \in Int
  /\ k[1] = "user" => ByName(v.keys)
  /\ k[1] \in {"user", "group", "role"} =>
       /\ ByName(v.inline) /\ IsFiniteSet(v.attached)
       /\ \A p \in v.attached : <<"policy", p>> \in DOMAIN w
  /\ k[1] = "policy" => ByName(v.versions)
  /\ k[1] = "manifest" => v.parses \/ v.workloads = {}
  /\ k[1] \in {"namespaces", "pods"} => ByName(v.items)
  /\ k[1] = "context" => \A j \in DOMAIN w : j = Context \/ <<j[1], v.current>> \in DOMAIN w

\* A world has finitely many resources, of the kinds the scanner looks at, and at least
\* one trail or detector that could be there.  What kubectl lists is always there, if empty,
\* in the cluster "a" too.  "any" is no name.
WorldOK(s, w) ==
  /\ IsFiniteSet(DOMAIN w) /\ w = [k \in DOMAIN w |-> w[k]]
  /\ \A k \in DOMAIN w :
       /\ k = <<k[1], k[2]>> /\ k[1] \in Kinds[s] /\ k[2] # "any"
       /\ w[k] \in Values(k) /\ \A v \in Values(k) : v = Gone \/ StateOK(w, k, v)
  /\ s = "iam" => Root \in DOMAIN w /\ \A k \in DOMAIN w : k[1] = "root" => k = Root
  /\ s \in {"cloudtrail", "guardduty"} => DOMAIN w # {}
  /\ s \in Kubectl => /\ Context \in DOMAIN w
                      /\ \A k \in DOMAIN w : /\ Gone \notin Values(k)
                                             /\ k[1] = "context" <=> k = Context
                      /\ \A kind \in Kinds[s] \ {"context"} : <<kind, "a">> \in DOMAIN w

ASSUME WorldAssumption ==
  /\ DOMAIN Worlds \subseteq DOMAIN Kinds
  /\ \A s \in DOMAIN Worlds : \A w \in Worlds[s] : WorldOK(s, w)

VARIABLES
  service,       \* the scanner that runs: blacklight scan <provider> --service <service>
  named,         \* whether --context names the cluster (Kubernetes only)
  world,         \* the state of every resource, or Gone
  past           \* history: the states every resource has been in since the scan began

worldVars == <<service, named, world, past>>

WorldInit ==
  /\ service \in DOMAIN Worlds
  /\ world \in Worlds[service]
  /\ named \in IF service \in Kubectl THEN BOOLEAN ELSE {FALSE}
  /\ past = [k \in DOMAIN world |-> {world[k]}]

Steady(k) == k \in DOMAIN world /\ past[k] = {world[k]}

Change ==
  /\ \E k \in DOMAIN world : \E v \in Values(k) :
       /\ v # world[k]
       /\ world' = [world EXCEPT ![k] = v]
       /\ past' = [past EXCEPT ![k] = @ \union {v}]
  /\ Cardinality({k \in DOMAIN past : Cardinality(past'[k]) > 1}) <= MaxChanges
  /\ UNCHANGED <<service, named>>

-----------------------------------------------------------------------------
(* Calls and replies                                                       *)

\* arg: the key id, policy or version asked for, or the container ids, as a set.
Call(op, key, arg, by) == [op |-> op, key |-> key, arg |-> arg, by |-> by]

Get(op, key) == Call(op, key, {}, key)

\* Only these lists are longer than one page here.
Pages(kind) == IF kind \in {"database", "function", "user"} THEN <<"1", "2">> ELSE <<"1">>

PageOf(k) == IF k[2] \in SecondPage /\ Len(Pages(k[1])) = 2 THEN "2" ELSE "1"

List(kind, page) == Get("list", <<kind, page>>)

\* Mutant: kubectl is called without --context.
CurrentTarget == world[Context].current

\* KubectlCLI.run: the cluster that a kubectl process talks to.  --context names "a".
Target == IF named THEN "a" ELSE world[Context].current

\* The resources of one page, or of the containers with the given ids.
Entries(keys) == {[name |-> k[2], is |-> world[k]] : k \in {j \in keys : world[j] # Gone}}

Page(kind, page) == Entries({k \in DOMAIN world : k[1] = kind /\ PageOf(k) = page})

Containers(ids) == {<<"container", id>> : id \in ids}

\* The documents or keys of a resource in state v, one of which the call names.
Parts(c, v) ==
  CASE c.op \in {"get_user_policy", "get_group_policy", "get_role_policy"} -> v.inline
    [] c.op = "get_policy_version" -> v.versions
    [] c.op = "get_access_key_last_used" -> v.keys

OfPart == {"get_user_policy", "get_group_policy", "get_role_policy", "get_policy_version",
           "get_access_key_last_used"}

\* What the call asks for is still there.
Exists(c) ==
  /\ c.op = "inspect" => \A k \in Containers(c.arg) : world[k] # Gone
  /\ c.op \notin {"list", "kubectl", "probe", "inspect"} => world[c.key] # Gone
  /\ c.op \in OfPart => \E d \in Parts(c, world[c.key]) : d.name \in c.arg
  /\ c.op = "get_function_url_config" => world[c.key].url # "none"

\* What an answer shows.
Show(c) ==
  CASE c.op = "list" -> Page(c.key[1], c.key[2])
    [] c.op = "kubectl" -> [from |-> Target, is |-> world[<<c.key[1], Target>>]]
    [] c.op = "probe" -> {}
    [] c.op = "inspect" -> Entries(Containers(c.arg))
    [] c.op \in OfPart -> (CHOOSE d \in Parts(c, world[c.key]) : d.name \in c.arg).is
    [] OTHER -> world[c.key]

\* Ways a call fails that have nothing to do with the resource: a refusal (ClientError, a
\* non-zero exit, an unreadable file), and no reply at all (BotoCoreError, a timeout).
\* Files are listed without a check, and an unreadable one is a refusal.
Troubles(c) ==
  IF service \in {"dockerfile", "manifest"}
  THEN IF c.op = "list" THEN {} ELSE {"denied"}
  ELSE {"denied", "lost"}

Answer(c) == [how |-> "answered", show |-> Show(c)]

Failure(how) == [how |-> how, show |-> {}]

\* A call was made and answered.
Got(replies, c) == c \in DOMAIN replies /\ replies[c].how = "answered"

\* The names on a list that was read to its end; a list that was not counts as empty.
Listed(replies, kind) ==
  LET pages == {List(kind, p) : p \in ToSet(Pages(kind))}
  IN  IF \A c \in pages : Got(replies, c) THEN UNION {replies[c].show : c \in pages} ELSE {}

ListFailed(replies, kind) ==
  \E p \in ToSet(Pages(kind)) :
    List(kind, p) \in DOMAIN replies /\ ~Got(replies, List(kind, p))

\* Finding(...) with the fields the risk engine reads.
Finding(check, severity, resource) ==
  [service |-> service, check |-> check, severity |-> severity, resource |-> resource,
   subjects |-> {}, writable |-> FALSE]

Account == <<"account", "aws-account">>
=============================================================================
